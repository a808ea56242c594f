------------------------------ MODULE FeedProofs ------------------------------
(***************************************************************************)
(* Proofs about FleetFeed and JobPanel: types; no hint is lost, for any    *)
(* number of lists, changes and outages; and the panel takes neither the   *)
(* output nor the end of one job for another's, for any jobs, output and   *)
(* number of lost sockets; and both next to each other (MCFeeds).          *)
(***************************************************************************)
EXTENDS MCFeeds, SequenceTheorems, TLAPS

-----------------------------------------------------------------------------
(* The fleet feed.                                                         *)

\* Something is queued only behind a load that has not settled, so the end of
\* that load is still to come and arms the timer.
QueuedWaits == sched.queued => sched.waits # {}

FeedInv == FeedTypeOK /\ HintKept /\ QueuedWaits

-----------------------------------------------------------------------------
\* A settled list leaves the scheduler well formed, with a hint where it was:
\* behind the load, or in the timer again.
LEMMA SettleKeeps ==
  ASSUME NEW qs \in SUBSET Lists, FeedTypeOK, QueuedWaits, sched' = AfterSettle(qs)
  PROVE  /\ sched' \in Scheduler
         /\ QueuedWaits'
         /\ sched.timer \/ sched.queued => sched'.timer \/ sched'.queued
<1>. DEFINE over == sched.waits # {} /\ sched.waits \subseteq qs
<1>1. sched \in Scheduler
  BY DEF FeedTypeOK
<1>2. sched' = [sched EXCEPT !.waits = @ \ qs, !.timer = @ \/ (over /\ sched.queued), !.queued = @ /\ ~over]
  BY DEF AfterSettle
<1>3. sched.waits \ qs \in SUBSET Lists
  BY <1>1 DEF Scheduler
<1>4. (sched.timer \/ (over /\ sched.queued)) \in BOOLEAN /\ (sched.queued /\ ~over) \in BOOLEAN
  OBVIOUS
<1>. HIDE DEF over
<1>5. sched' \in Scheduler
  BY <1>1, <1>2, <1>3, <1>4 DEF Scheduler
<1>6. /\ sched'.waits = sched.waits \ qs
      /\ sched'.timer = (sched.timer \/ (over /\ sched.queued))
      /\ sched'.queued = (sched.queued /\ ~over)
  BY <1>1, <1>2 DEF Scheduler
<1>7. QueuedWaits'
  BY <1>6 DEF QueuedWaits, over
<1>8. QED
  BY <1>5, <1>6, <1>7

\* A fetch that starts over is a query again.
LEMMA FetchingIsQuery ==
  ASSUME NEW q \in Query PROVE Fetching(q) \in Query
  BY DEF Fetching, Query

LEMMA AllFetchingTyped ==
  ASSUME FeedTypeOK PROVE AllFetching \in [Lists -> Query]
  BY FetchingIsQuery DEF FeedTypeOK, AllFetching

LEMMA BlankIsQuery == BlankQuery \in Query
  BY DEF BlankQuery, Query, Version, None

LEMMA InitFeedInv == FeedInit => FeedInv
<1>. SUFFICES ASSUME FeedInit PROVE FeedInv
  OBVIOUS
<1>1. world \in Version /\ outages \in 0 .. MaxOutages
  BY FeedAssumption DEF FeedInit, Version
<1>2. lists \in [Lists -> Query]
  BY BlankIsQuery DEF FeedInit
<1>3. sched \in Scheduler /\ ~sched.queued /\ hinted = FALSE
  BY DEF FeedInit, NewScheduler, Scheduler
<1>4. serverUp \in BOOLEAN /\ feedOn \in BOOLEAN /\ hintSent \in BOOLEAN /\ sock = "none"
  BY DEF FeedInit
<1>5. QED
  BY <1>1, <1>2, <1>3, <1>4 DEF FeedInv, FeedTypeOK, HintKept, QueuedWaits

-----------------------------------------------------------------------------
LEMMA StepFeedInv == FeedInv /\ [FeedNext]_feedVars => FeedInv'
<1>. SUFFICES ASSUME FeedInv, [FeedNext]_feedVars PROVE FeedInv'
  OBVIOUS
<1>. USE DEF FeedInv
<1>1. ASSUME NEW q \in Lists, ServerAnswers(q) PROVE FeedInv'
  <2>1. [lists[q] EXCEPT !.fetch = "answered", !.answer = world] \in Query
    BY DEF FeedTypeOK, Query
  <2>2. lists' = [lists EXCEPT ![q] = [lists[q] EXCEPT !.fetch = "answered", !.answer = world]]
    BY <1>1 DEF ServerAnswers, FeedTypeOK
  <2>3. lists' \in [Lists -> Query]
    BY <2>1, <2>2 DEF FeedTypeOK
  <2>4. QED
    BY <1>1, <2>3 DEF ServerAnswers, FeedTypeOK, HintKept, QueuedWaits
<1>2. ASSUME NEW q \in Lists, ListArrives(q) PROVE FeedInv'
  <2>1. [BlankQuery EXCEPT !.data = lists[q].answer] \in Query
    BY BlankIsQuery DEF FeedTypeOK, Query, BlankQuery
  <2>2. QED
    BY <1>2, <2>1, SettleKeeps DEF ListArrives, FeedTypeOK, HintKept
<1>3. ASSUME NEW q \in Lists, ListFails(q) PROVE FeedInv'
  <2>1. lists' \in [Lists -> Query]
    BY <1>3 DEF ListFails, FeedTypeOK, Query
  <2>2. QED
    BY <1>3, <2>1, SettleKeeps DEF ListFails, FeedTypeOK, HintKept
<1>4. ASSUME NEW q \in Lists, Poll(q) PROVE FeedInv'
  <2>1. Fetching(lists[q]) \in Query
    BY FetchingIsQuery DEF FeedTypeOK
  <2>2. QED
    BY <1>4, <2>1 DEF Poll, FeedTypeOK, HintKept, QueuedWaits
<1>5. CASE Refresh
  BY <1>5, AllFetchingTyped, SettleKeeps DEF Refresh, FeedTypeOK, HintKept
<1>6. CASE HintArrives
  BY <1>6 DEF HintArrives, FeedTypeOK, HintKept, QueuedWaits, Scheduler
<1>7. CASE LoadStarts
  <2>1. CASE sched.waits # {}
    BY <1>7, <2>1 DEF LoadStarts, FeedTypeOK, HintKept, QueuedWaits, Scheduler
  <2>2. CASE sched.waits = {}
    <3>1. ~hinted' /\ sched' = [sched EXCEPT !.timer = FALSE, !.waits = Lists, !.cool = TRUE]
      BY <1>7, <2>2 DEF LoadStarts
    <3>2. sched' \in Scheduler /\ ~sched'.queued
      BY <2>2, <3>1 DEF FeedTypeOK, QueuedWaits, Scheduler
    <3>3. lists' \in [Lists -> Query]
      BY <1>7, <2>2, AllFetchingTyped DEF LoadStarts
    <3>4. QED
      BY <1>7, <2>2, <3>1, <3>2, <3>3 DEF LoadStarts, FeedTypeOK, HintKept, QueuedWaits
  <2>3. QED
    BY <2>1, <2>2
<1>8. CASE GapPasses
  BY <1>8 DEF GapPasses, FeedTypeOK, HintKept, QueuedWaits, Scheduler
<1>9. CASE SocketOpens \/ SocketRetries \/ SocketBreaks
  <2>1. /\ sock' \in {"open", "connecting", "waiting"} /\ hintSent' = FALSE
        /\ UNCHANGED <<world, serverUp, outages, feedOn, lists, sched, hinted>>
    BY <1>9 DEF SocketOpens, SocketRetries, SocketBreaks, SocketTo, AfterClose
  <2>2. QED
    BY <2>1 DEF FeedTypeOK, HintKept, QueuedWaits
<1>10. CASE FeedStarts
  BY <1>10, AllFetchingTyped DEF FeedStarts, FeedTypeOK, HintKept, QueuedWaits
<1>11. CASE FeedStops
  BY <1>11, BlankIsQuery DEF FeedStops, FeedTypeOK, HintKept, QueuedWaits, NewScheduler, Scheduler
<1>12. CASE FleetChanges \/ GoesDown \/ ComesUp
  <2>1. world' \in Version
    BY <1>12 DEF FleetChanges, GoesDown, ComesUp, FeedTypeOK
  <2>2. outages' \in 0 .. MaxOutages
    BY <1>12, FeedAssumption DEF FleetChanges, GoesDown, ComesUp, FeedTypeOK
  <2>3. serverUp' \in BOOLEAN /\ hintSent' \in BOOLEAN /\ UNCHANGED <<feedOn, lists, sched, sock, hinted>>
    BY <1>12 DEF FleetChanges, GoesDown, ComesUp, FeedTypeOK
  <2>4. QED
    BY <2>1, <2>2, <2>3 DEF FeedTypeOK, HintKept, QueuedWaits
<1>13. CASE UNCHANGED feedVars
  BY <1>13 DEF feedVars, FeedTypeOK, HintKept, QueuedWaits
<1>14. QED
  BY <1>1, <1>2, <1>3, <1>4, <1>5, <1>6, <1>7, <1>8, <1>9, <1>10, <1>11, <1>12, <1>13 DEF FeedNext

\* Every variable of the feed keeps its type.
THEOREM FeedTypeCorrect == FeedSpec => []FeedTypeOK
<1>1. FeedInv => FeedTypeOK
  BY DEF FeedInv
<1>2. QED
  BY <1>1, InitFeedInv, StepFeedInv, PTL DEF FeedSpec

\* No hint is lost, whichever way loads, refreshes, outages and sign-outs
\* meet: until a load starts after it, the timer is armed or a load is queued
\* (createRefreshScheduler).
THEOREM NoHintLost == FeedSpec => []HintKept
<1>1. FeedInv => HintKept
  BY DEF FeedInv
<1>2. QED
  BY <1>1, InitFeedInv, StepFeedInv, PTL DEF FeedSpec

-----------------------------------------------------------------------------
(* The panel of a job.                                                     *)

\* n[i]: the pieces that are shown once the first i messages on the wire are
\* in.  It starts from what is shown, unless a snapshot is still to come, and
\* ends with what has been published of the job.
Follows(n, w, len, written) ==
    /\ n \in [0 .. Len(w) -> 0 .. written] /\ n[Len(w)] = written
    /\ (w = <<>> \/ w[1].type # "snapshot") => n[0] = len
    /\ \A i \in 1 .. Len(w) :
          /\ w[i].type = "snapshot" => i = 1 /\ n[i] = w[i].pieces
          /\ w[i].type = "output" => n[i] = n[i - 1] + 1 /\ w[i].piece = n[i]
          /\ w[i].type \notin {"snapshot", "output"} => n[i] = n[i - 1]

SnapComes == wire # <<>> /\ wire[1].type = "snapshot"

\* What an open socket of the panel's own job brings continues what is shown,
\* if nothing was lost or doubled when it subscribed.
WireFollows ==
    jobSock = "open" /\ watching = attached =>
        /\ seam = "whole" /\ ~SnapComes => ~torn
        /\ ~torn /\ (SnapComes \/ seam = "whole") =>
             \E n : Follows(n, wire, Len(shown.output), heard[watching].pieces)

\* The hub is at most one change behind the table, and none of output once
\* the job has ended.
Behind(old, new) ==
    \/ old = new
    \/ new.pieces = old.pieces + 1 /\ new.status \notin EndStatus
    \/ new.pieces = old.pieces /\ old.status \notin EndStatus
OneBehind == \A j \in Job : Behind(heard[j], job[j])

\* The end of a job in a snapshot, on the wire or on the screen is its own.
EndTrue(j, st) == st \in EndStatus => job[j].status = st
WireEnds == \A i \in 1 .. Len(wire) : wire[i].type # "output" => EndTrue(watching, wire[i].status)
EndsTrue ==
    /\ attached # NoJob /\ seam # "stray" => EndTrue(attached, shown.status)
    /\ watching # NoJob => EndTrue(watching, snap.status) /\ WireEnds

\* A socket has a job, only an open one has something on the wire, and
\* nothing comes before the snapshot.
SocketHasJob ==
    /\ jobSock # "none" => watching # NoJob
    /\ jobSock # "open" => wire = <<>>
    /\ \A i \in 1 .. Len(wire) : wire[i].type = "snapshot" => i = 1

PanelInv ==
    PanelTypeOK /\ SocketHasJob /\ OneBehind /\ WireFollows /\ EndsTrue /\ PanelFaithful

-----------------------------------------------------------------------------
(* Sequences of pieces and of messages.                                    *)

LEMMA FirstPiecesAre ==
  ASSUME NEW k \in Nat
  PROVE  /\ Len(FirstPieces(k)) = k
         /\ k <= Pieces => FirstPieces(k) \in Seq(1 .. Pieces)
         /\ Append(FirstPieces(k), k + 1) = FirstPieces(k + 1)
<1>1. FirstPieces(k) \in Seq(1 .. k) /\ Len(FirstPieces(k)) = k
  BY DEF FirstPieces
<1>2. ASSUME k <= Pieces PROVE FirstPieces(k) \in Seq(1 .. Pieces)
  BY <1>2, PanelAssumption DEF FirstPieces
<1>3. Append(FirstPieces(k), k + 1) = FirstPieces(k + 1)
  <2>1. FirstPieces(k + 1) \in Seq(1 .. k + 1) /\ Len(FirstPieces(k + 1)) = k + 1
    BY DEF FirstPieces
  <2>2. Append(FirstPieces(k), k + 1) \in Seq(1 .. k + 1) /\ Len(Append(FirstPieces(k), k + 1)) = k + 1
    <3>1. FirstPieces(k) \in Seq(1 .. k + 1)
      BY DEF FirstPieces
    <3>2. QED
      BY <1>1, <3>1
  <2>3. \A i \in 1 .. k + 1 : Append(FirstPieces(k), k + 1)[i] = FirstPieces(k + 1)[i]
    BY <1>1 DEF FirstPieces
  <2>4. QED
    BY <2>1, <2>2, <2>3, SeqEqual
<1>4. QED
  BY <1>1, <1>2, <1>3

\* A message that is sent last.
LEMMA FollowsLast ==
  ASSUME NEW w \in Seq(Message), NEW m \in Message, NEW len \in Nat, NEW written \in Nat, NEW more \in {0, 1},
         NEW n, Follows(n, w, len, written),
         m.type # "snapshot", m.type = "output" => more = 1 /\ m.piece = written + 1,
         m.type # "output" => more = 0
  PROVE  \E p : Follows(p, Append(w, m), len, written + more)
<1>. DEFINE v == Append(w, m)
            p == [i \in 0 .. Len(w) + 1 |-> IF i <= Len(w) THEN n[i] ELSE written + more]
<1>1. /\ v \in Seq(Message) /\ Len(v) = Len(w) + 1 /\ v[Len(w) + 1] = m
      /\ \A i \in 1 .. Len(w) : v[i] = w[i]
      /\ Len(w) \in Nat
  OBVIOUS
<1>. HIDE DEF v
<1>2. p \in [0 .. Len(v) -> 0 .. written + more] /\ p[Len(v)] = written + more
  BY <1>1 DEF Follows
<1>3. (v = <<>> \/ v[1].type # "snapshot") => p[0] = len
  <2>1. CASE w = <<>>
    BY <1>1, <2>1 DEF Follows
  <2>2. CASE w # <<>>
    <3>1. Len(w) >= 1 /\ v # <<>> /\ v[1] = w[1]
      BY <1>1, <2>2
    <3>2. QED
      BY <2>2, <3>1 DEF Follows
  <2>3. QED
    BY <2>1, <2>2
<1>4. ASSUME NEW i \in 1 .. Len(v)
      PROVE  /\ v[i].type = "snapshot" => i = 1 /\ p[i] = v[i].pieces
             /\ v[i].type = "output" => p[i] = p[i - 1] + 1 /\ v[i].piece = p[i]
             /\ v[i].type \notin {"snapshot", "output"} => p[i] = p[i - 1]
  <2>1. CASE i <= Len(w)
    <3>1. i \in 1 .. Len(w) /\ i - 1 \in 0 .. Len(w) /\ v[i] = w[i] /\ p[i] = n[i] /\ p[i - 1] = n[i - 1]
      BY <1>1, <2>1
    <3>2. QED
      BY <3>1 DEF Follows
  <2>2. CASE i = Len(w) + 1
    <3>1. v[i] = m /\ p[i] = written + more /\ p[i - 1] = written
      BY <1>1, <2>2 DEF Follows
    <3>. HIDE DEF p
    <3>2. m.type = "output" => p[i] = p[i - 1] + 1 /\ m.piece = p[i]
      BY <3>1
    <3>3. m.type # "output" => p[i] = p[i - 1]
      BY <3>1
    <3>4. QED
      BY <3>1, <3>2, <3>3
  <2>3. QED
    BY <1>1, <2>1, <2>2
<1>. HIDE DEF p
<1>5. Follows(p, v, len, written + more)
  BY <1>2, <1>3, <1>4 DEF Follows
<1>6. QED
  BY <1>5 DEF v

\* A message that is read first.
LEMMA FollowsTail ==
  ASSUME NEW w \in Seq(Message), w # <<>>, NEW len \in Nat, NEW written \in Nat, NEW n, Follows(n, w, len, written)
  PROVE  /\ n[1] \in 0 .. written
         /\ \E p : Follows(p, Tail(w), n[1], written)
         /\ w[1].type = "snapshot" => n[1] = w[1].pieces
         /\ w[1].type = "output" => n[1] = len + 1 /\ w[1].piece = n[1]
         /\ w[1].type \notin {"snapshot", "output"} => n[1] = len
<1>. DEFINE v == Tail(w)
            p == [i \in 0 .. Len(w) - 1 |-> n[i + 1]]
<1>1. /\ v \in Seq(Message) /\ Len(v) = Len(w) - 1 /\ Len(w) \in Nat /\ Len(w) >= 1
      /\ \A i \in 1 .. Len(w) - 1 : v[i] = w[i + 1]
  OBVIOUS
<1>. HIDE DEF v
<1>2. n \in [0 .. Len(w) -> 0 .. written] /\ n[Len(w)] = written /\ 1 \in 1 .. Len(w)
  BY <1>1 DEF Follows
<1>3. p \in [0 .. Len(v) -> 0 .. written] /\ p[Len(v)] = written /\ p[0] = n[1]
  BY <1>1, <1>2
<1>4. ASSUME NEW i \in 1 .. Len(v)
      PROVE  /\ v[i].type = "snapshot" => i = 1 /\ p[i] = v[i].pieces
             /\ v[i].type = "output" => p[i] = p[i - 1] + 1 /\ v[i].piece = p[i]
             /\ v[i].type \notin {"snapshot", "output"} => p[i] = p[i - 1]
  <2>1. i + 1 \in 1 .. Len(w) /\ v[i] = w[i + 1] /\ p[i] = n[i + 1] /\ p[i - 1] = n[(i + 1) - 1] /\ i + 1 # 1
    BY <1>1
  <2>2. QED
    BY <2>1 DEF Follows
<1>. HIDE DEF p
<1>5. Follows(p, v, n[1], written)
  BY <1>3, <1>4 DEF Follows
<1>6. \E q : Follows(q, Tail(w), n[1], written)
  BY <1>5 DEF v
<1>7. n[1] \in 0 .. written /\ n[1 - 1] = n[0]
  BY <1>2
<1>8. /\ w[1].type = "snapshot" => n[1] = w[1].pieces
      /\ w[1].type = "output" => n[1] = len + 1 /\ w[1].piece = n[1]
      /\ w[1].type \notin {"snapshot", "output"} => n[1] = len
  BY <1>2, <1>7 DEF Follows
<1>9. QED
  BY <1>6, <1>7, <1>8

-----------------------------------------------------------------------------
(* The server's steps.                                                     *)

LEMMA PanelTypes ==
  ASSUME PanelInv
  PROVE  /\ wire \in Seq(Message) /\ Len(wire) \in Nat
         /\ shown.output \in Seq(1 .. Pieces) /\ Len(shown.output) \in Nat
         /\ attached \in Job \cup {NoJob} /\ watching \in Job \cup {NoJob}
         /\ \A j \in Job : /\ job[j] \in JobRow /\ job[j].pieces \in Nat /\ job[j].pieces \in 0 .. Pieces
                           /\ heard[j] \in JobRow /\ heard[j].pieces \in Nat
                           /\ heard[j].pieces <= job[j].pieces
<1>1. /\ wire \in Seq(Message) /\ shown \in Shown /\ job \in [Job -> JobRow] /\ heard \in [Job -> JobRow]
      /\ {attached, watching} \subseteq Job \cup {NoJob}
  BY DEF PanelInv, PanelTypeOK
<1>2. ASSUME NEW j \in Job
      PROVE  /\ job[j] \in JobRow /\ job[j].pieces \in Nat /\ job[j].pieces \in 0 .. Pieces
             /\ heard[j] \in JobRow /\ heard[j].pieces \in Nat
             /\ heard[j].pieces <= job[j].pieces
  <2>1. job[j] \in JobRow /\ heard[j] \in JobRow
    BY <1>1
  <2>2. /\ job[j].pieces \in Nat /\ heard[j].pieces \in Nat /\ job[j].pieces \in 0 .. Pieces
    BY <2>1, PanelAssumption DEF JobRow
  <2>3. QED
    BY <2>1, <2>2 DEF PanelInv, OneBehind, Behind
<1>3. QED
  BY <1>1, <1>2 DEF Shown

\* A row is written: nobody has heard of it yet.
LEMMA CommitKeeps ==
  ASSUME PanelInv, NEW j \in Job, NEW new \in JobRow, Commit(j, new), job[j].status \notin EndStatus,
         job[j].pieces <= new.pieces, Behind(job[j], new)
  PROVE  PanelInv'
<1>1. /\ job' = [job EXCEPT ![j] = new] /\ heard[j] = job[j]
      /\ UNCHANGED <<heard, attached, watching, shown, mirrored, jobSocket, told, finished, breaks, seam, misled>>
  BY DEF Commit
<1>2. job' \in [Job -> JobRow] /\ job'[j] = new /\ \A k \in Job \ {j} : job'[k] = job[k]
  BY <1>1 DEF PanelInv, PanelTypeOK
<1>3. PanelTypeOK'
  BY <1>1, <1>2 DEF PanelInv, PanelTypeOK, jobSocket
<1>4. SocketHasJob' /\ WireFollows'
  BY <1>1 DEF PanelInv, SocketHasJob, WireFollows, SnapComes, jobSocket
<1>5. OneBehind'
  BY <1>1, <1>2 DEF PanelInv, OneBehind
<1>6. ASSUME NEW k \in Job, NEW st, EndTrue(k, st) PROVE st \in EndStatus => job'[k].status = st
  BY <1>2, <1>6 DEF EndTrue
<1>7. EndsTrue'
  <2>1. attached # NoJob /\ seam # "stray" => EndTrue(attached, shown.status)'
    BY <1>1, <1>6, PanelTypes DEF PanelInv, EndsTrue, EndTrue
  <2>2. watching # NoJob => EndTrue(watching, snap.status)' /\ WireEnds'
    <3>1. ASSUME watching # NoJob PROVE EndTrue(watching, snap.status) /\ WireEnds /\ watching \in Job
      BY <3>1, PanelTypes DEF PanelInv, EndsTrue
    <3>2. ASSUME watching # NoJob PROVE EndTrue(watching, snap.status)'
      BY <1>1, <1>6, <3>1, <3>2 DEF EndTrue, jobSocket
    <3>3. ASSUME watching # NoJob PROVE WireEnds'
      BY <1>1, <1>6, <3>1, <3>3 DEF EndTrue, WireEnds, jobSocket
    <3>4. QED
      BY <3>2, <3>3
  <2>3. QED
    BY <1>1, <2>1, <2>2 DEF EndsTrue, jobSocket
<1>8. PanelFaithful'
  <2>1. seam = "whole" => OutputFaithful'
    <3>1. attached # NoJob => attached \in Job /\ job[attached].pieces <= job'[attached].pieces
      BY <1>1, <1>2, PanelTypes
    <3>2. attached # NoJob => job'[attached].pieces \in Nat
      BY <1>2, PanelAssumption, PanelTypes DEF JobRow
    <3>3. QED
      BY <1>1, <3>1, <3>2, PanelTypes DEF PanelInv, PanelFaithful, OutputFaithful
  <2>2. ASSUME NEW t \in told, t[1] \notin misled PROVE EndTold(t)'
    <3>1. t[1] \in Job /\ t[2] \in EndStatus /\ job[t[1]].status = t[2]
      BY <2>2 DEF PanelInv, PanelTypeOK, PanelFaithful, EndTold
    <3>2. QED
      BY <1>2, <3>1 DEF EndTold
  <2>3. QED
    BY <1>1, <2>1, <2>2 DEF PanelFaithful
<1>9. QED
  BY <1>3, <1>4, <1>5, <1>7, <1>8 DEF PanelInv

LEMMA JobStepKeeps ==
  ASSUME PanelInv, NEW j \in Job, JobRuns(j) \/ JobPrints(j) \/ JobStops(j) PROVE PanelInv'
<1>. DEFINE r == job[j]
<1>0. r \in JobRow /\ r.pieces \in Nat
  BY PanelTypes
<1>1. CASE JobRuns(j)
  <2>. DEFINE new == [r EXCEPT !.status = "running"]
  <2>1. new \in JobRow /\ new.pieces = r.pieces
    BY <1>0 DEF JobRow, Status
  <2>2. Commit(j, new) /\ r.status \notin EndStatus
    BY <1>1 DEF JobRuns, EndStatus
  <2>. HIDE DEF new
  <2>3. QED
    BY <1>0, <2>1, <2>2, CommitKeeps DEF Behind
<1>2. CASE JobPrints(j)
  <2>. DEFINE new == [r EXCEPT !.pieces = @ + 1]
  <2>1. new \in JobRow /\ new.pieces = r.pieces + 1 /\ new.status = r.status
    BY <1>0, <1>2, PanelAssumption DEF JobPrints, JobRow
  <2>2. Commit(j, new) /\ r.status \notin EndStatus
    BY <1>2 DEF JobPrints, EndStatus
  <2>. HIDE DEF new
  <2>3. QED
    BY <1>0, <2>1, <2>2, CommitKeeps DEF Behind
<1>3. CASE JobStops(j)
  <2>1. PICK s \in EndStatus : Commit(j, [r EXCEPT !.status = s])
    BY <1>3 DEF JobStops
  <2>. DEFINE new == [r EXCEPT !.status = s]
  <2>2. new \in JobRow /\ new.pieces = r.pieces
    BY <1>0 DEF JobRow, Status
  <2>3. Commit(j, new) /\ r.status \notin EndStatus
    BY <1>3, <2>1 DEF JobStops
  <2>. HIDE DEF new
  <2>4. QED
    BY <1>0, <2>2, <2>3, CommitKeeps DEF Behind
<1>4. QED
  BY <1>1, <1>2, <1>3

\* The message about the change that is published.
LEMMA MessageOfIs ==
  ASSUME PanelInv, NEW j \in Job, heard[j] # job[j]
  PROVE  /\ MessageOf(j) \in Message /\ MessageOf(j).type # "snapshot"
         /\ \/ /\ MessageOf(j).type = "output" /\ job[j].pieces = heard[j].pieces + 1
               /\ MessageOf(j).piece = heard[j].pieces + 1
            \/ /\ MessageOf(j).type # "output" /\ job[j].pieces = heard[j].pieces
               /\ MessageOf(j).status = job[j].status
<1>1. /\ job[j] \in JobRow /\ heard[j].pieces \in Nat /\ job[j].pieces \in 0 .. Pieces
      /\ job[j].status \in Status
  BY PanelTypes DEF JobRow
<1>2. Behind(heard[j], job[j])
  BY DEF PanelInv, OneBehind
<1>3. CASE job[j].pieces # heard[j].pieces
  <2>1. job[j].pieces = heard[j].pieces + 1 /\ job[j].pieces \in 1 .. Pieces
    BY <1>1, <1>2, <1>3, PanelAssumption DEF Behind
  <2>2. MessageOf(j) = [type |-> "output", piece |-> job[j].pieces]
    BY <1>3 DEF MessageOf
  <2>3. QED
    BY <2>1, <2>2 DEF Message
<1>4. CASE job[j].pieces = heard[j].pieces
  <2>1. CASE job[j].status \in EndStatus
    <3>1. MessageOf(j) = [type |-> "done", status |-> job[j].status]
      BY <1>4, <2>1 DEF MessageOf
    <3>2. QED
      BY <1>4, <2>1, <3>1 DEF Message
  <2>2. CASE job[j].status \notin EndStatus
    <3>1. MessageOf(j) = [type |-> "status", status |-> job[j].status]
      BY <1>4, <2>2 DEF MessageOf
    <3>2. QED
      BY <1>1, <1>4, <3>1 DEF Message
  <2>3. QED
    BY <2>1, <2>2
<1>5. QED
  BY <1>3, <1>4

\* The hub catches up with the table.
LEMMA PublishKeeps ==
  ASSUME PanelInv, NEW j \in Job, Publish(j) PROVE PanelInv'
<1>. DEFINE m == MessageOf(j)
<1>1. /\ heard[j] # job[j] /\ heard' = [heard EXCEPT ![j] = job[j]]
      /\ wire' = IF Subscribed(j) THEN Append(wire, m) ELSE wire
      /\ UNCHANGED <<job, attached, watching, shown, mirrored, jobSock, snap, told, finished, breaks,
                     torn, deaf, seam, misled>>
  BY DEF Publish
<1>2. /\ m \in Message /\ m.type # "snapshot"
      /\ \/ /\ m.type = "output" /\ job[j].pieces = heard[j].pieces + 1 /\ m.piece = heard[j].pieces + 1
         \/ m.type # "output" /\ job[j].pieces = heard[j].pieces /\ m.status = job[j].status
  BY <1>1, MessageOfIs
<1>. HIDE DEF m
<1>3. heard' \in [Job -> JobRow] /\ heard'[j] = job[j] /\ \A k \in Job \ {j} : heard'[k] = heard[k]
  BY <1>1, PanelTypes DEF PanelInv, PanelTypeOK
<1>4. /\ wire \in Seq(Message) /\ wire' \in Seq(Message) /\ Len(wire) \in Nat
      /\ Append(wire, m) \in Seq(Message) /\ Len(Append(wire, m)) = Len(wire) + 1
      /\ Append(wire, m)[Len(wire) + 1] = m
      /\ \A i \in 1 .. Len(wire) : Append(wire, m)[i] = wire[i]
  BY <1>1, <1>2, PanelTypes
<1>5. PanelTypeOK'
  BY <1>1, <1>3, <1>4 DEF PanelInv, PanelTypeOK
<1>6. OneBehind'
  BY <1>1, <1>3 DEF PanelInv, OneBehind, Behind
<1>7. PanelFaithful'
  BY <1>1 DEF PanelInv, PanelFaithful, OutputFaithful, EndTold
<1>8. CASE ~Subscribed(j)
  <2>1. wire' = wire
    BY <1>1, <1>8
  <2>2. SocketHasJob' /\ EndsTrue'
    BY <1>1, <2>1 DEF PanelInv, SocketHasJob, EndsTrue, EndTrue, WireEnds
  <2>3. WireFollows'
    <3>1. ASSUME jobSock = "open", watching = attached
          PROVE  heard'[watching].pieces = heard[watching].pieces
      <4>1. watching # NoJob /\ watching \in Job
        BY <3>1, PanelTypes DEF PanelInv, SocketHasJob
      <4>2. CASE watching # j
        BY <1>3, <4>1, <4>2
      <4>3. CASE watching = j
        <5>1. PICK i \in 1 .. Len(wire) : wire[i].type = "done"
          BY <1>8, <3>1, <4>3 DEF Subscribed
        <5>2. wire[i] \in Message /\ wire[i].status \in EndStatus
          BY <1>4, <5>1 DEF Message
        <5>3. job[j].status \in EndStatus
          BY <4>1, <4>3, <5>1, <5>2 DEF PanelInv, EndsTrue, WireEnds, EndTrue
        <5>4. job[j].pieces = heard[j].pieces
          BY <1>1, <5>3 DEF PanelInv, OneBehind, Behind
        <5>5. QED
          BY <1>3, <4>3, <5>4
      <4>4. QED
        BY <4>2, <4>3
    <3>2. QED
      BY <1>1, <2>1, <3>1 DEF PanelInv, WireFollows, SnapComes
  <2>4. QED
    BY <1>5, <1>6, <1>7, <2>2, <2>3 DEF PanelInv
<1>9. CASE Subscribed(j)
  <2>1. /\ wire' = Append(wire, m) /\ jobSock = "open" /\ watching = j /\ watching # NoJob
    BY <1>1, <1>9, PanelAssumption DEF Subscribed
  <2>2. wire' # <<>> /\ Len(wire') = Len(wire) + 1 /\ wire'[Len(wire) + 1] = m
        /\ \A i \in 1 .. Len(wire) : wire'[i] = wire[i]
    BY <1>4, <2>1
  <2>3. SnapComes' <=> SnapComes
    <3>1. CASE wire = <<>>
      BY <1>2, <2>2, <3>1 DEF SnapComes
    <3>2. CASE wire # <<>>
      <4>1. 1 \in 1 .. Len(wire)
        BY <1>4, <3>2
      <4>2. QED
        BY <2>2, <3>2, <4>1 DEF SnapComes
    <3>3. QED
      BY <3>1, <3>2
  <2>4. SocketHasJob'
    BY <1>1, <1>2, <1>4, <2>1, <2>2 DEF PanelInv, SocketHasJob
  <2>5. EndsTrue'
    <3>1. EndTrue(attached, shown.status)' = EndTrue(attached, shown.status)
          /\ EndTrue(watching, snap.status)' = EndTrue(watching, snap.status)
      BY <1>1 DEF EndTrue
    <3>2. WireEnds'
      <4>1. ASSUME NEW i \in 1 .. Len(wire'), wire'[i].type # "output", wire'[i].status \in EndStatus
            PROVE  job[watching].status = wire'[i].status
        <5>1. CASE i \in 1 .. Len(wire)
          BY <2>1, <2>2, <4>1, <5>1 DEF PanelInv, EndsTrue, WireEnds, EndTrue
        <5>2. CASE i = Len(wire) + 1
          BY <1>2, <2>1, <2>2, <4>1, <5>2
        <5>3. QED
          BY <1>4, <2>2, <5>1, <5>2
      <4>2. QED
        BY <1>1, <4>1 DEF WireEnds, EndTrue
    <3>3. QED
      BY <1>1, <3>1, <3>2 DEF PanelInv, EndsTrue
  <2>6. WireFollows'
    <3>1. SUFFICES ASSUME watching = attached, ~torn, SnapComes \/ seam = "whole"
                   PROVE  \E p : Follows(p, wire', Len(shown.output), job[j].pieces)
      BY <1>1, <1>3, <2>1, <2>3 DEF PanelInv, WireFollows
    <3>2. PICK n : Follows(n, wire, Len(shown.output), heard[j].pieces)
      BY <2>1, <3>1 DEF PanelInv, WireFollows
    <3>3. PICK more \in {0, 1} : /\ job[j].pieces = heard[j].pieces + more
                                 /\ m.type = "output" => more = 1 /\ m.piece = heard[j].pieces + 1
                                 /\ m.type # "output" => more = 0
      <4>1. heard[j].pieces \in Nat
        BY PanelTypes
      <4>2. QED
        BY <1>2, <4>1
    <3>4. Len(shown.output) \in Nat /\ heard[j].pieces \in Nat
      BY PanelTypes
    <3>5. QED
      BY <1>2, <1>4, <2>1, <3>2, <3>3, <3>4, FollowsLast
  <2>7. QED
    BY <1>5, <1>6, <1>7, <2>4, <2>5, <2>6 DEF PanelInv
<1>10. QED
  BY <1>8, <1>9

\* The row that is read is the table's; what it misses decides later.
LEMMA SocketReadsKeeps ==
  ASSUME PanelInv, SocketReads PROVE PanelInv'
<1>1. /\ jobSock = "up" /\ jobSock' = "read" /\ snap' = job[watching]
      /\ UNCHANGED <<job, heard, attached, watching, shown, mirrored, wire, told, finished, breaks,
                     torn, deaf, seam, misled>>
  BY DEF SocketReads, jobTable
<1>2. watching \in Job /\ snap' \in JobRow
  BY <1>1, PanelTypes DEF PanelInv, SocketHasJob
<1>3. PanelTypeOK'
  BY <1>1, <1>2 DEF PanelInv, PanelTypeOK, SockState
<1>4. SocketHasJob' /\ OneBehind' /\ WireFollows' /\ PanelFaithful'
  BY <1>1, <1>2, PanelAssumption
  DEF PanelInv, SocketHasJob, OneBehind, WireFollows, PanelFaithful, OutputFaithful, EndTold
<1>5. EndsTrue'
  BY <1>1 DEF PanelInv, EndsTrue, EndTrue, WireEnds
<1>6. QED
  BY <1>3, <1>4, <1>5 DEF PanelInv

\* What the handler sends first: the snapshot, and of a job that is over its end.
FirstSent == <<[type |-> "snapshot", pieces |-> snap.pieces, status |-> snap.status]>>
               \o IF snap.status \in EndStatus THEN <<[type |-> "done", status |-> snap.status]>> ELSE <<>>

LEMMA FirstSentIs ==
  ASSUME snap \in JobRow
  PROVE  /\ FirstSent \in Seq(Message) /\ FirstSent # <<>> /\ Len(FirstSent) \in {1, 2}
         /\ FirstSent[1].type = "snapshot" /\ FirstSent[1].pieces = snap.pieces
         /\ FirstSent[1].status = snap.status
         /\ Len(FirstSent) = 2 => FirstSent[2].type = "done" /\ FirstSent[2].status = snap.status
<1>. DEFINE s == [type |-> "snapshot", pieces |-> snap.pieces, status |-> snap.status]
            d == [type |-> "done", status |-> snap.status]
<1>1. /\ s \in Message /\ s.type = "snapshot" /\ s.pieces = snap.pieces /\ s.status = snap.status
      /\ d.type = "done" /\ d.status = snap.status
      /\ snap.status \in EndStatus => d \in Message
  BY DEF Message, JobRow
<1>2. FirstSent = <<s>> \o IF snap.status \in EndStatus THEN <<d>> ELSE <<>>
  BY DEF FirstSent
<1>. HIDE DEF s, d
<1>3. CASE snap.status \in EndStatus
  <2>1. FirstSent = <<s>> \o <<d>>
    BY <1>2, <1>3
  <2>2. <<s>> \in Seq(Message) /\ <<d>> \in Seq(Message)
    BY <1>1, <1>3
  <2>3. FirstSent \in Seq(Message) /\ Len(FirstSent) = 2 /\ FirstSent[1] = s /\ FirstSent[2] = d
    BY <2>1, <2>2
  <2>4. FirstSent # <<>>
    <3>1. Len(<<>>) = 0
      OBVIOUS
    <3>2. QED
      BY <2>3, <3>1
  <2>. HIDE DEF FirstSent
  <2>5. QED
    BY <1>1, <2>3, <2>4
<1>4. CASE snap.status \notin EndStatus
  <2>1. FirstSent = <<s>> \o <<>>
    BY <1>2, <1>4
  <2>2. FirstSent = <<s>>
    BY <2>1
  <2>3. QED
    BY <1>1, <2>2
<1>5. QED
  BY <1>3, <1>4

\* From the subscription on everything published comes behind the snapshot.
LEMMA SubscribeKeeps ==
  ASSUME PanelInv, Subscribe PROVE PanelInv'
<1>1. /\ jobSock = "read" /\ jobSock' = "open" /\ snap' = NewRow /\ wire' = FirstSent
      /\ torn' = (snap.pieces # heard[watching].pieces) /\ deaf' \in BOOLEAN
      /\ UNCHANGED <<job, heard, attached, watching, shown, mirrored, told, finished, breaks, seam, misled>>
  BY DEF Subscribe, jobTable, FirstSent
<1>2. watching \in Job /\ watching # NoJob /\ snap \in JobRow
  BY <1>1, PanelTypes DEF PanelInv, SocketHasJob, PanelTypeOK
<1>3. /\ wire' \in Seq(Message) /\ wire' # <<>> /\ Len(wire') \in {1, 2}
      /\ wire'[1].type = "snapshot" /\ wire'[1].pieces = snap.pieces /\ wire'[1].status = snap.status
      /\ Len(wire') = 2 => wire'[2].type = "done" /\ wire'[2].status = snap.status
  BY <1>1, <1>2, FirstSentIs
<1>4. NewRow \in JobRow /\ NewRow.status \notin EndStatus
  BY PanelAssumption DEF NewRow, JobRow, Status, EndStatus
<1>5. PanelTypeOK'
  BY <1>1, <1>3, <1>4 DEF PanelInv, PanelTypeOK, SockState
<1>6. \A i \in 1 .. Len(wire') : i = 1 \/ (i = 2 /\ Len(wire') = 2)
  <2>1. CASE Len(wire') = 1
    BY <2>1
  <2>2. CASE Len(wire') = 2
    BY <2>2
  <2>3. QED
    BY <1>3, <2>1, <2>2
<1>7. SocketHasJob' /\ OneBehind' /\ PanelFaithful'
  BY <1>1, <1>2, <1>3, <1>6
  DEF PanelInv, SocketHasJob, OneBehind, PanelFaithful, OutputFaithful, EndTold
<1>8. EndsTrue'
  <2>1. EndTrue(watching, snap.status)
    BY <1>2 DEF PanelInv, EndsTrue
  <2>2. WireEnds'
    BY <1>1, <1>3, <1>6, <2>1 DEF WireEnds, EndTrue
  <2>3. EndTrue(attached, shown.status)' = EndTrue(attached, shown.status)
    BY <1>1 DEF EndTrue
  <2>4. EndTrue(watching, snap.status)'
    BY <1>1, <1>4 DEF EndTrue
  <2>5. QED
    BY <1>1, <2>2, <2>3, <2>4 DEF PanelInv, EndsTrue
<1>9. WireFollows'
  <2>1. SnapComes'
    BY <1>3 DEF SnapComes
  <2>2. ASSUME snap.pieces = heard[watching].pieces
        PROVE  \E n : Follows(n, wire', Len(shown.output), heard[watching].pieces)
    <3>. DEFINE n == [i \in 0 .. Len(wire') |-> snap.pieces]
    <3>1. snap.pieces \in Nat /\ Len(wire') \in Nat
      BY <1>2, <1>3, PanelAssumption DEF JobRow
    <3>2. n \in [0 .. Len(wire') -> 0 .. snap.pieces] /\ n[Len(wire')] = snap.pieces
      BY <3>1
    <3>3. ASSUME NEW i \in 1 .. Len(wire')
          PROVE  /\ wire'[i].type = "snapshot" => i = 1 /\ n[i] = wire'[i].pieces
                 /\ wire'[i].type = "output" => n[i] = n[i - 1] + 1 /\ wire'[i].piece = n[i]
                 /\ wire'[i].type \notin {"snapshot", "output"} => n[i] = n[i - 1]
      <4>1. n[i] = snap.pieces /\ n[i - 1] = snap.pieces
        BY <3>1
      <4>2. QED
        BY <1>3, <1>6, <4>1
    <3>. HIDE DEF n
    <3>4. Follows(n, wire', Len(shown.output), snap.pieces)
      BY <1>3, <3>2, <3>3 DEF Follows
    <3>5. QED
      BY <2>2, <3>4
  <2>3. QED
    BY <1>1, <2>1, <2>2 DEF WireFollows
<1>10. QED
  BY <1>5, <1>7, <1>8, <1>9 DEF PanelInv

-----------------------------------------------------------------------------
(* The panel's steps.                                                      *)

\* What is shown starts anew, without anything of the job before.
LEMMA AttachKeeps ==
  ASSUME PanelInv, NEW j \in Job \cup {NoJob}, Attach(j) PROVE PanelInv'
<1>1. /\ attached = watching /\ j # attached /\ attached' = j /\ shown' = Empty /\ seam' = "whole"
      /\ UNCHANGED <<jobTable, watching, mirrored, jobSocket, told, finished, breaks, misled>>
  BY DEF Attach
<1>2. shown'.output = <<>> /\ shown'.status = NotYet /\ Len(shown'.output) = 0 /\ shown' \in Shown
  <2>1. <<>> \in Seq(1 .. Pieces)
    OBVIOUS
  <2>2. QED
    BY <1>1, <2>1 DEF Empty, Shown
<1>3. PanelTypeOK'
  BY <1>1, <1>2 DEF PanelInv, PanelTypeOK, jobTable, jobSocket
<1>4. PanelFaithful'
  <2>1. FirstPieces(0) = <<>>
    BY DEF FirstPieces
  <2>2. j # NoJob => job[j].pieces >= 0
    BY PanelTypes
  <2>3. OutputFaithful'
    BY <1>1, <1>2, <2>1, <2>2 DEF OutputFaithful, jobTable
  <2>4. QED
    BY <1>1, <2>3 DEF PanelInv, PanelFaithful, EndTold, jobTable
<1>5. EndsTrue'
  BY <1>1, <1>2 DEF PanelInv, EndsTrue, EndTrue, EndStatus, NotYet, WireEnds, jobTable, jobSocket
<1>6. SocketHasJob' /\ OneBehind' /\ WireFollows'
  BY <1>1 DEF PanelInv, SocketHasJob, OneBehind, WireFollows, jobTable, jobSocket
<1>7. QED
  BY <1>3, <1>4, <1>5, <1>6 DEF PanelInv

\* A socket that is closed, opened or asked for again brings nothing yet.
LEMMA QuietKeeps ==
  ASSUME PanelInv, jobSock' \in SockState \ {"open"}, jobSock' # "none" => watching' # NoJob,
         wire' = <<>>, snap' = NewRow, UNCHANGED <<jobTable, attached, told, finished, seam, misled>>,
         shown' \in {shown, [shown EXCEPT !.connected = TRUE], [shown EXCEPT !.connected = FALSE]},
         watching' \in Job \cup {NoJob}, mirrored' \in Status \cup {NotYet}, breaks' \in 0 .. MaxBreaks,
         torn' \in BOOLEAN, deaf' \in BOOLEAN
  PROVE  PanelInv'
<1>1. shown' \in Shown /\ shown'.output = shown.output /\ shown'.status = shown.status
  BY DEF PanelInv, PanelTypeOK, Shown
<1>2. NewRow \in JobRow /\ NewRow.status \notin EndStatus
  BY PanelAssumption DEF NewRow, JobRow, Status, EndStatus
<1>3. <<>> \in Seq(Message) /\ Len(<<>>) = 0
  OBVIOUS
<1>4. PanelTypeOK'
  BY <1>1, <1>2, <1>3 DEF PanelInv, PanelTypeOK, jobTable
<1>5. SocketHasJob' /\ OneBehind' /\ WireFollows'
  BY <1>3 DEF PanelInv, SocketHasJob, OneBehind, WireFollows, jobTable
<1>6. EndsTrue'
  BY <1>1, <1>2, <1>3 DEF PanelInv, EndsTrue, EndTrue, WireEnds, jobTable
<1>7. PanelFaithful'
  BY <1>1 DEF PanelInv, PanelFaithful, OutputFaithful, EndTold, jobTable
<1>8. QED
  BY <1>4, <1>5, <1>6, <1>7 DEF PanelInv

LEMMA SocketKeeps ==
  ASSUME PanelInv, Rewatch \/ SocketUp \/ PanelSocketBreaks \/ PanelRetries PROVE PanelInv'
<1>0. /\ jobSock # "none" => watching # NoJob
      /\ jobSock # "open" => wire = <<>>
      /\ {watching, attached} \subseteq Job \cup {NoJob} /\ mirrored \in Status \cup {NotYet}
      /\ breaks \in 0 .. MaxBreaks /\ torn \in BOOLEAN /\ deaf \in BOOLEAN
  BY DEF PanelInv, SocketHasJob, PanelTypeOK
<1>1. CASE Rewatch
  <2>1. jobSock' \in SockState \ {"open"} /\ (jobSock' # "none" => watching' # NoJob)
    BY <1>1 DEF Rewatch, SockState
  <2>2. QED
    BY <1>0, <1>1, <2>1, QuietKeeps DEF Rewatch
<1>2. CASE PanelSocketBreaks
  <2>1. PICK final \in BOOLEAN : Closed(final)
    BY <1>2 DEF PanelSocketBreaks
  <2>2. jobSock' \in SockState \ {"open"} /\ jobSock # "none" /\ breaks' \in 0 .. MaxBreaks
    BY <1>0, <1>2, <2>1, PanelAssumption DEF PanelSocketBreaks, Closed, SockState
  <2>3. shown' \in {shown, [shown EXCEPT !.connected = FALSE]}
    BY <2>1 DEF Closed
  <2>4. QED
    BY <1>0, <2>1, <2>2, <2>3, QuietKeeps DEF Closed
<1>3. CASE SocketUp \/ PanelRetries
  <2>1. /\ jobSock \notin {"none", "open"} /\ jobSock' \in SockState \ {"open"}
        /\ shown' \in {shown, [shown EXCEPT !.connected = TRUE]}
        /\ UNCHANGED <<jobTable, attached, watching, mirrored, snap, wire, torn, deaf, told, finished, breaks,
                       seam, misled>>
    BY <1>3 DEF SocketUp, PanelRetries, SockState
  <2>2. shown' \in Shown /\ shown'.output = shown.output /\ shown'.status = shown.status
    BY <2>1 DEF PanelInv, PanelTypeOK, Shown
  <2>3. PanelTypeOK'
    BY <2>1, <2>2 DEF PanelInv, PanelTypeOK, jobTable
  <2>4. SocketHasJob' /\ OneBehind' /\ WireFollows'
    BY <1>0, <2>1 DEF PanelInv, SocketHasJob, OneBehind, WireFollows, jobTable
  <2>5. EndsTrue'
    BY <2>1, <2>2 DEF PanelInv, EndsTrue, EndTrue, WireEnds, jobTable
  <2>6. PanelFaithful'
    BY <2>1, <2>2 DEF PanelInv, PanelFaithful, OutputFaithful, EndTold, jobTable
  <2>7. QED
    BY <2>3, <2>4, <2>5, <2>6 DEF PanelInv
<1>4. QED
  BY <1>1, <1>2, <1>3

\* The type of what is shown after any message, and its status.
LEMMA AfterMessageIs ==
  ASSUME shown \in Shown, NEW m \in Message
  PROVE  /\ AfterMessage(m) \in Shown
         /\ AfterMessage(m).status = IF m.type = "output" THEN shown.status ELSE m.status
         /\ m.type = "snapshot" => AfterMessage(m).output = FirstPieces(m.pieces)
         /\ m.type = "output" => AfterMessage(m).output = Append(shown.output, m.piece)
         /\ m.type \notin {"snapshot", "output"} => AfterMessage(m).output = shown.output
<1>1. CASE m.type = "snapshot"
  <2>1. m.pieces \in 0 .. Pieces /\ m.pieces \in Nat /\ m.pieces <= Pieces /\ m.status \in Status
    BY <1>1, PanelAssumption DEF Message
  <2>2. AfterMessage(m) = [output |-> FirstPieces(m.pieces), status |-> m.status, connected |-> TRUE]
    BY <1>1 DEF AfterMessage
  <2>3. FirstPieces(m.pieces) \in Seq(1 .. Pieces)
    BY <2>1, FirstPiecesAre
  <2>4. QED
    BY <1>1, <2>1, <2>2, <2>3 DEF Shown
<1>2. CASE m.type = "output"
  <2>1. m.piece \in 1 .. Pieces
    BY <1>2 DEF Message
  <2>2. AfterMessage(m) = [shown EXCEPT !.output = Append(@, m.piece)]
    BY <1>2 DEF AfterMessage
  <2>3. Append(shown.output, m.piece) \in Seq(1 .. Pieces)
    BY <2>1 DEF Shown
  <2>4. QED
    BY <1>2, <2>2, <2>3 DEF Shown
<1>3. CASE m.type = "status"
  <2>1. m.status \in Status
    BY <1>3 DEF Message
  <2>2. AfterMessage(m) = [shown EXCEPT !.status = m.status]
    BY <1>3 DEF AfterMessage
  <2>3. QED
    BY <1>3, <2>1, <2>2 DEF Shown
<1>4. CASE m.type = "done"
  <2>1. m.status \in Status
    BY <1>4 DEF Message, Status
  <2>2. AfterMessage(m) = [shown EXCEPT !.status = m.status, !.connected = TRUE]
    BY <1>4 DEF AfterMessage
  <2>3. QED
    BY <1>4, <2>1, <2>2 DEF Shown
<1>5. QED
  BY <1>1, <1>2, <1>3, <1>4 DEF Message

\* A message is read: what follows it on the wire still fits.
LEMMA ReceiveKeeps ==
  ASSUME PanelInv, Receive PROVE PanelInv'
<1>. DEFINE m == wire[1]
            len == Len(shown.output)
<1>1. watching \in Job /\ watching # NoJob /\ jobSock = "open"
  BY PanelTypes DEF Receive, PanelInv, SocketHasJob
<1>2. /\ wire \in Seq(Message) /\ wire # <<>> /\ 1 \in 1 .. Len(wire) /\ m \in Message /\ m = Head(wire)
      /\ len \in Nat
      /\ Tail(wire) \in Seq(Message) /\ Len(Tail(wire)) = Len(wire) - 1
      /\ \A i \in 1 .. Len(wire) - 1 : Tail(wire)[i] = wire[i + 1]
      /\ Len(wire) \in Nat
  BY PanelTypes DEF Receive
<1>. HIDE DEF m
<1>3. /\ shown' = AfterMessage(m)
      /\ seam' = IF watching # attached THEN "stray"
                 ELSE IF m.type # "snapshot" THEN seam ELSE IF torn THEN "torn" ELSE "whole"
      /\ UNCHANGED <<job, heard, attached, watching, mirrored, snap, torn, deaf, told, finished, breaks, misled>>
      /\ jobSock' \in {"none", "open"}
      /\ jobSock' = "none" => wire' = <<>>
      /\ jobSock' = "open" => wire' = Tail(wire)
  BY <1>1, <1>2 DEF Receive, jobTable
<1>4. wire' \in Seq(Message)
  <2>1. <<>> \in Seq(Message)
    OBVIOUS
  <2>2. QED
    BY <1>2, <1>3, <2>1
<1>5. /\ shown' \in Shown
      /\ shown'.status = IF m.type = "output" THEN shown.status ELSE m.status
      /\ m.type = "snapshot" => shown'.output = FirstPieces(m.pieces)
      /\ m.type = "output" => shown'.output = Append(shown.output, m.piece)
      /\ m.type \notin {"snapshot", "output"} => shown'.output = shown.output
  <2>1. shown \in Shown
    BY DEF PanelInv, PanelTypeOK
  <2>2. QED
    BY <1>2, <1>3, <2>1, AfterMessageIs
<1>6. PanelTypeOK'
  <2>1. seam' \in {"whole", "torn", "stray"} /\ jobSock' \in SockState
    BY <1>3 DEF PanelInv, PanelTypeOK, SockState
  <2>2. QED
    BY <1>3, <1>4, <1>5, <2>1 DEF PanelInv, PanelTypeOK
<1>7. ASSUME NEW i \in 1 .. Len(wire')
      PROVE  jobSock' = "open" /\ i + 1 \in 1 .. Len(wire) /\ wire'[i] = wire[i + 1]
  <2>1. Len(<<>>) = 0
    OBVIOUS
  <2>2. wire' # <<>>
    BY <1>7, <2>1
  <2>3. QED
    BY <1>2, <1>3, <1>7, <2>2
<1>8. SocketHasJob' /\ ~SnapComes'
  <2>1. \A i \in 1 .. Len(wire') : wire'[i].type # "snapshot"
    BY <1>2, <1>7 DEF PanelInv, SocketHasJob
  <2>2. wire' # <<>> => 1 \in 1 .. Len(wire')
    BY <1>4
  <2>3. QED
    BY <1>1, <1>3, <2>1, <2>2 DEF SocketHasJob, SnapComes
<1>9. OneBehind'
  BY <1>3 DEF PanelInv, OneBehind
<1>10. EndsTrue'
  <2>1. m.type # "output" => EndTrue(watching, m.status)
    BY <1>1, <1>2 DEF PanelInv, EndsTrue, WireEnds, m
  <2>2. attached # NoJob /\ seam' # "stray" => EndTrue(attached, shown.status)'
    BY <1>3, <1>5, <2>1 DEF PanelInv, EndsTrue, EndTrue
  <2>3. WireEnds'
    BY <1>1, <1>3, <1>7 DEF PanelInv, EndsTrue, WireEnds, EndTrue
  <2>4. EndTrue(watching, snap.status)'
    BY <1>1, <1>3 DEF PanelInv, EndsTrue, EndTrue
  <2>5. QED
    BY <1>3, <2>2, <2>3, <2>4 DEF EndsTrue
<1>11. CASE watching = attached /\ seam' = "whole"
  <2>1. ~torn /\ (SnapComes \/ seam = "whole") /\ (m.type = "snapshot" <=> SnapComes)
    BY <1>1, <1>2, <1>3, <1>11 DEF PanelInv, WireFollows, SnapComes, m
  <2>2. PICK n : Follows(n, wire, len, heard[watching].pieces)
    BY <1>1, <1>11, <2>1 DEF PanelInv, WireFollows
  <2>3. heard[watching].pieces \in Nat /\ job[watching].pieces \in Nat
        /\ heard[watching].pieces <= job[watching].pieces
    BY <1>1, PanelTypes
  <2>4. /\ n[1] \in 0 .. heard[watching].pieces
        /\ \E p : Follows(p, Tail(wire), n[1], heard[watching].pieces)
        /\ m.type = "snapshot" => n[1] = m.pieces
        /\ m.type = "output" => n[1] = len + 1 /\ m.piece = n[1]
        /\ m.type \notin {"snapshot", "output"} => n[1] = len
    BY <1>2, <2>2, <2>3, FollowsTail DEF m
  <2>5. n[1] \in Nat /\ n[1] <= job[watching].pieces
    BY <2>3, <2>4
  <2>6. shown'.output = FirstPieces(n[1])
    <3>1. m.type # "snapshot" => shown.output = FirstPieces(len)
      BY <2>1 DEF PanelInv, PanelFaithful, OutputFaithful
    <3>2. m.type = "output" => Append(FirstPieces(len), len + 1) = FirstPieces(len + 1)
      BY <1>2, FirstPiecesAre
    <3>3. QED
      BY <1>5, <2>4, <3>1, <3>2
  <2>7. Len(shown'.output) = n[1]
    BY <2>5, <2>6, FirstPiecesAre
  <2>8. OutputFaithful'
    BY <1>1, <1>3, <1>11, <2>5, <2>6, <2>7 DEF OutputFaithful
  <2>9. WireFollows'
    BY <1>3, <1>8, <2>1, <2>4, <2>7 DEF WireFollows
  <2>10. PanelFaithful'
    BY <1>3, <2>8 DEF PanelInv, PanelFaithful, EndTold
  <2>11. QED
    BY <1>6, <1>8, <1>9, <1>10, <2>9, <2>10 DEF PanelInv
<1>12. CASE ~(watching = attached /\ seam' = "whole")
  <2>1. seam' # "whole"
    BY <1>3, <1>12
  <2>2. WireFollows' /\ PanelFaithful'
    BY <1>3, <1>8, <2>1 DEF PanelInv, WireFollows, PanelFaithful, EndTold
  <2>3. QED
    BY <1>6, <1>8, <1>9, <1>10, <2>2 DEF PanelInv
<1>13. QED
  BY <1>11, <1>12

\* The page is told the end that is shown, which is its own job's unless it
\* came as a stray.
LEMMA PanelEffectsKeeps ==
  ASSUME PanelInv, PanelEffects PROVE PanelInv'
<1>1. /\ mirrored' = shown.status /\ UNCHANGED <<jobTable, attached, watching, shown, jobSocket, breaks, seam>>
      /\ \/ /\ attached # NoJob /\ shown.status \in EndStatus
            /\ told' = told \cup {<<attached, shown.status>>} /\ finished' = attached
            /\ misled' = IF seam = "stray" THEN misled \cup {attached} ELSE misled
         \/ UNCHANGED <<told, finished, misled>>
  BY DEF PanelEffects
<1>2. attached # NoJob /\ shown.status \in EndStatus
         => /\ attached \in Job /\ <<attached, shown.status>> \in Job \X EndStatus
            /\ seam # "stray" => job[attached].status = shown.status
  BY PanelTypes DEF PanelInv, EndsTrue, EndTrue
<1>3. PanelTypeOK'
  <2>1. shown.status \in Status \cup {NotYet}
    BY DEF PanelInv, PanelTypeOK, Shown
  <2>2. told' \subseteq Job \X EndStatus /\ finished' \in Job \cup {NoJob} /\ misled' \subseteq Job
    BY <1>1, <1>2 DEF PanelInv, PanelTypeOK
  <2>3. QED
    BY <1>1, <2>1, <2>2 DEF PanelInv, PanelTypeOK, jobTable, jobSocket
<1>4. PanelFaithful'
  <2>1. ASSUME NEW t \in told', t[1] \notin misled' PROVE EndTold(t)
    <3>1. misled \subseteq misled'
      BY <1>1
    <3>2. CASE t \in told
      BY <2>1, <3>1, <3>2 DEF PanelInv, PanelFaithful
    <3>3. CASE t \notin told
      <4>1. t = <<attached, shown.status>> /\ attached # NoJob /\ shown.status \in EndStatus /\ seam # "stray"
        BY <1>1, <2>1, <3>3
      <4>2. QED
        BY <1>2, <4>1 DEF EndTold
    <3>4. QED
      BY <3>2, <3>3
  <2>2. QED
    BY <1>1, <2>1 DEF PanelInv, PanelFaithful, OutputFaithful, EndTold, jobTable
<1>5. SocketHasJob' /\ OneBehind' /\ WireFollows'
  BY <1>1 DEF PanelInv, SocketHasJob, OneBehind, WireFollows, SnapComes, jobTable, jobSocket
<1>6. EndsTrue'
  BY <1>1 DEF PanelInv, EndsTrue, EndTrue, WireEnds, jobTable, jobSocket
<1>7. QED
  BY <1>3, <1>4, <1>5, <1>6 DEF PanelInv

-----------------------------------------------------------------------------
LEMMA InitPanelInv == PanelInit => PanelInv
<1>. SUFFICES ASSUME PanelInit PROVE PanelInv
  OBVIOUS
<1>1. <<>> \in Seq(Message) /\ <<>> \in Seq(1 .. Pieces) /\ FirstPieces(0) = <<>>
  BY DEF FirstPieces
<1>2. shown \in Shown /\ shown.output = <<>> /\ shown.status = NotYet /\ Len(shown.output) = 0
  BY <1>1 DEF PanelInit, Empty, Shown
<1>3. NewRow \in JobRow /\ NewRow.status \notin EndStatus
  BY PanelAssumption DEF NewRow, JobRow, Status, EndStatus
<1>4. PanelTypeOK
  <2>1. job \in [Job -> JobRow] /\ heard \in [Job -> JobRow] /\ 0 \in 0 .. MaxBreaks
    BY <1>3, PanelAssumption DEF PanelInit
  <2>2. QED
    BY <1>1, <1>2, <1>3, <2>1 DEF PanelInit, PanelTypeOK, SockState
<1>5. SocketHasJob /\ OneBehind /\ WireFollows
  BY DEF PanelInit, SocketHasJob, OneBehind, Behind, WireFollows
<1>6. EndsTrue /\ PanelFaithful
  BY <1>1, <1>2 DEF PanelInit, EndsTrue, PanelFaithful, OutputFaithful
<1>7. QED
  BY <1>4, <1>5, <1>6 DEF PanelInv

LEMMA StepPanelInv == PanelInv /\ [PanelNext]_panelVars => PanelInv'
<1>. SUFFICES ASSUME PanelInv, [PanelNext]_panelVars PROVE PanelInv'
  OBVIOUS
<1>1. CASE \E j \in Job : JobRuns(j) \/ JobPrints(j) \/ JobStops(j) \/ Publish(j)
  BY <1>1, JobStepKeeps, PublishKeeps
<1>2. CASE \E j \in Job \cup {NoJob} : Attach(j)
  BY <1>2, AttachKeeps
<1>3. CASE SocketReads \/ Subscribe \/ Receive \/ PanelEffects
  BY <1>3, SocketReadsKeeps, SubscribeKeeps, ReceiveKeeps, PanelEffectsKeeps
<1>4. CASE Rewatch \/ SocketUp \/ PanelSocketBreaks \/ PanelRetries
  BY <1>4, SocketKeeps
<1>5. CASE UNCHANGED panelVars
  <2>1. PanelTypeOK'
    BY <1>5 DEF panelVars, PanelInv, PanelTypeOK, jobTable, jobSocket
  <2>2. SocketHasJob' /\ OneBehind' /\ WireFollows'
    BY <1>5 DEF panelVars, PanelInv, SocketHasJob, OneBehind, WireFollows, SnapComes, jobTable, jobSocket
  <2>3. EndsTrue' /\ PanelFaithful'
    BY <1>5 DEF panelVars, PanelInv, EndsTrue, EndTrue, WireEnds, PanelFaithful, OutputFaithful, EndTold,
                jobTable, jobSocket
  <2>4. QED
    BY <2>1, <2>2, <2>3 DEF PanelInv
<1>6. QED
  BY <1>1, <1>2, <1>3, <1>4, <1>5 DEF PanelNext

\* Every variable of the panel, its socket and its jobs keeps its type.
THEOREM PanelTypeCorrect == PanelSpec => []PanelTypeOK
<1>1. PanelInv => PanelTypeOK
  BY DEF PanelInv
<1>2. QED
  BY <1>1, InitPanelInv, StepPanelInv, PTL DEF PanelSpec

\* Over a stream that lost and doubled nothing when it subscribed, the panel
\* shows the first pieces of its own job in order; and it tells its page no
\* end but the job's own, unless that came as a stray of the job before:
\* whatever is published or committed in between, whatever sockets are lost
\* and whichever job is attached next (job_output_ws, useJobStream, JobConsole).
THEOREM PanelShowsItsJob == PanelSpec => []PanelFaithful
<1>1. PanelInv => PanelFaithful
  BY DEF PanelInv
<1>2. QED
  BY <1>1, InitPanelInv, StepPanelInv, PTL DEF PanelSpec

-----------------------------------------------------------------------------
(* Next to each other.                                                     *)

\* A behaviour of the tab is one of the feed, of the panel and of the session:
\* each is left by the others as it was.
THEOREM FeedParts == Spec => FeedSpec /\ PanelSpec /\ SignSpec
<1>1. Init => FeedInit /\ PanelInit /\ SignInit
  BY DEF Init
<1>2. [Next]_Vars => [FeedNext]_feedVars /\ [PanelNext]_panelVars /\ [SignNext]_signVars
  BY DEF Next, Vars, OfFleet, OfPanel, OfSignIn
<1>3. QED
  BY <1>1, <1>2, PTL DEF Spec, FeedSpec, PanelSpec, SignSpec

\* On a tab no hint is lost, and what comes over a whole stream the panel
\* shows of its own job and in order, whatever the behaviour is about
\* (useFleet, useJobStream).
THEOREM FeedsCorrect == Spec => []HintKept /\ []PanelFaithful
BY FeedParts, NoHintLost, PanelShowsItsJob, PTL
=============================================================================
