------------------------------ MODULE PatchBoard ------------------------------
(***************************************************************************)
(* The patches page: what is open on which device, the figures above the   *)
(* list, and scans, installations and queued installations on a selection  *)
(* (pages/patches).                                                        *)
(*                                                                         *)
(* The devices and the summary of their updates are two queries; what the  *)
(* page makes of them is what it has, not what is true on the devices.     *)
(***************************************************************************)
EXTENDS Naturals, Sequences, FiniteSets, SequencesExt

CONSTANTS
    PatchDevices,            \* how many devices with agent there are
    Windows, Macs, Servers,  \* by system, and tagged as server
    PatchWorkers,            \* runBulk's concurrency
    MaxPatchMoves            \* steps of user and fleet

ASSUME PatchAssumption == PatchDevices \in Nat

VARIABLES
    board,     \* what has loaded: devices and summary
    scope,     \* filters and sort in the address
    chosen,    \* the selection
    installQuestion,  \* the confirmation: kind and targets, or Nothing
    busy,      \* of the page
    run,       \* the bulk run under way
    granted,   \* history: devices that the accepted confirmation named
    patchMoves

patchVars == <<board, scope, chosen, installQuestion, busy, run, granted, patchMoves>>

-----------------------------------------------------------------------------
PDev == 1 .. PatchDevices
PatchLoad == {"pending", "error", "success"}
Scan == {"never", "old", "fresh"}
\* A device as the list has it.
BoardDevice == [scan: Scan, connected: BOOLEAN]
\* An entry of the summary; a device without one has nothing in it.
OpenRow == [pending: 1 .. 2, security: 0 .. 1]
NoEntry == [pending |-> 0, security |-> 0]

StateFilter == {"alle", "sicherheit", "offen", "aktuell", "ungeprueft"}
OsCategory == {"win_pc", "win_server", "mac", "linux"}
ConnFilter == {"alle", "verbunden", "offline"}
PatchSort == [key: {"name", "pending", "security"}, dir: {"asc", "desc"}]
Nothing == [kind |-> "none", targets |-> <<>>]
NoRun == [kind |-> "none", queue |-> <<>>, sent |-> {}, ok |-> {}, failed |-> {}]

PatchTypeOK ==
    /\ board.devices \in PatchLoad /\ board.summary \in PatchLoad
    /\ board.list \in [PDev -> BoardDevice] /\ board.open \in [PDev -> OpenRow \cup {NoEntry}]
    /\ scope \in [state: StateFilter, os: OsCategory \cup {"alle"}, conn: ConnFilter, sort: PatchSort]
    /\ chosen \subseteq PDev /\ busy \in BOOLEAN
    /\ installQuestion.kind \in {"none", "install", "queue"} /\ installQuestion.targets \in Seq(PDev)
    /\ run.kind \in {"none", "scan", "install", "queue"} /\ run.queue \in Seq(PDev)
    /\ UNION {run.sent, run.ok, run.failed, granted} \subseteq PDev

DefaultSort == [key |-> "security", dir |-> "desc"]
WholeFleet == [state |-> "alle", os |-> "alle", conn |-> "alle", sort |-> DefaultSort]

PatchInit ==
    /\ board = [devices |-> "pending", summary |-> "pending",
                list |-> [d \in PDev |-> [scan |-> IF d = 1 THEN "never" ELSE "fresh", connected |-> d # 2]],
                open |-> [d \in PDev |-> IF d = 3 THEN [pending |-> 1, security |-> 1] ELSE NoEntry]]
    /\ scope = WholeFleet /\ chosen = {} /\ installQuestion = Nothing /\ busy = FALSE /\ run = NoRun
    /\ granted = {} /\ patchMoves = 0

-----------------------------------------------------------------------------
(* patchList.ts.                                                           *)

CategoryOf(d) ==
    IF d \in Macs THEN "mac"
    ELSE IF d \notin Windows THEN "linux" ELSE IF d \in Servers THEN "win_server" ELSE "win_pc"

\* What is in the summary; before it has loaded there is nothing in it.
PatchEntry(d) == IF board.summary = "success" THEN board.open[d] ELSE NoEntry
PatchId == IF board.devices = "success" THEN PDev ELSE {}

NeverScanned(d) == board.list[d].scan = "never"
ScanStale(d) == board.list[d].scan \in {"never", "old"}
SecurityOf(d) == PatchEntry(d).security

\* The summary lists only devices with something open; that a device is not
\* in it says something only once a scan of it has arrived.
NotKnown == 3
PendingOrNothing(d) == PatchEntry(d).pending
PendingOf(d) == IF PatchEntry(d) = NoEntry /\ NeverScanned(d) THEN NotKnown ELSE PatchEntry(d).pending
HasPending(d) == PendingOf(d) \notin {0, NotKnown}
IsCurrent(d) == PendingOf(d) = 0

MatchesState(d, f) ==
    CASE f = "sicherheit" -> SecurityOf(d) > 0
      [] f = "offen"      -> HasPending(d)
      [] f = "aktuell"    -> IsCurrent(d)
      [] f = "ungeprueft" -> ScanStale(d)
      [] OTHER            -> TRUE
MatchesOs(d, f) == f \in {"alle", CategoryOf(d)}
MatchesConn(d, f) ==
    f = "alle" \/ (f = "verbunden" /\ board.list[d].connected) \/ (f = "offline" /\ ~board.list[d].connected)

\* A column flips, or starts in its natural direction.
NextSort(key) ==
    IF scope.sort.key = key
      THEN [key |-> key, dir |-> IF scope.sort.dir = "asc" THEN "desc" ELSE "asc"]
      ELSE [key |-> key, dir |-> IF key = "name" THEN "asc" ELSE "desc"]

\* What is not known is last in either direction, and names break the tie.
Rank(d) ==
    CASE scope.sort.key = "name"    -> d
      [] scope.sort.key = "pending" -> PendingOf(d)
      [] OTHER                      -> 10 * SecurityOf(d) + PendingOf(d)
Missing(d) == scope.sort.key # "name" /\ PendingOf(d) = NotKnown
Smaller(c, d) == IF scope.sort.dir = "asc" THEN Rank(c) < Rank(d) ELSE Rank(c) > Rank(d)
RowBefore(c, d) ==
    IF Missing(c) # Missing(d) THEN Missing(d)
    ELSE IF Missing(c) THEN c < d ELSE Smaller(c, d) \/ (~Smaller(d, c) /\ c < d)

\* What the filters leave, as the set that selections go by, and in order.
ShownIds == {d \in PatchId : MatchesConn(d, scope.conn) /\ MatchesOs(d, scope.os) /\ MatchesState(d, scope.state)}
PatchRows == SetToSortSeq(ShownIds, RowBefore)

\* The updates open, each of its device.
OpenUpdates(S) == {u \in S \X (1 .. 2) : HasPending(u[1]) /\ u[2] <= PendingOf(u[1])}

\* patchStats, of the fleet and of each system.
Stats(S) ==
    [devices |-> Cardinality(S),
     withPending |-> Cardinality({d \in S : HasPending(d)}),
     pending |-> Cardinality(OpenUpdates(S)),
     security |-> Cardinality({d \in S : SecurityOf(d) > 0}),
     stale |-> Cardinality({d \in S : ScanStale(d)}),
     never |-> Cardinality({d \in S : NeverScanned(d)}),
     current |-> Cardinality({d \in S : IsCurrent(d)})]
CategoryStats == [c \in OsCategory |-> Stats({d \in PatchId : CategoryOf(d) = c})]
CurrentPct(s) == IF s.devices = 0 THEN 0 ELSE (s.current * 100) \div s.devices

-----------------------------------------------------------------------------
(* What the page shows.                                                    *)

\* useFleetLoad, and the page asks for the error first: without the summary
\* every device would count as up to date.
FleetLoad ==
    IF "error" \in {board.devices, board.summary} THEN "error"
    ELSE IF "pending" \in {board.devices, board.summary} THEN "pending" ELSE "success"

PatchView ==
    IF FleetLoad # "success" THEN IF FleetLoad = "error" THEN "error" ELSE "loading"
    ELSE IF PatchId = {} THEN "empty" ELSE IF PatchRows = <<>> THEN "nothing found" ELSE "rows"
FiguresShown == PatchView \in {"nothing found", "rows"}
\* Search, chips and "Filter zurücksetzen", which need nothing loaded.
FiltersShown == PatchView \notin {"error", "empty"}

PatchMove == patchMoves < MaxPatchMoves /\ patchMoves' = patchMoves + 1
Narrowed == [scope EXCEPT !.sort = WholeFleet.sort] # WholeFleet

ScopeIs(s) ==
    /\ PatchMove /\ FiltersShown /\ s # scope /\ installQuestion = Nothing /\ scope' = s
    /\ UNCHANGED <<board, chosen, installQuestion, busy, run, granted>>

FilterState(f) == ScopeIs([scope EXCEPT !.state = f])
\* A chip, or a system's card; a second click on the card lets go of it.
FilterOs(f) == ScopeIs([scope EXCEPT !.os = IF f = @ THEN "alle" ELSE f])
FilterConn(f) == ScopeIs([scope EXCEPT !.conn = f])
SortPatches(key) == PatchView = "rows" /\ ScopeIs([scope EXCEPT !.sort = NextSort(key)])
ResetScope == Narrowed /\ ScopeIs([WholeFleet EXCEPT !.sort = scope.sort])

ChooseIs(S) ==
    /\ PatchMove /\ FiguresShown /\ installQuestion = Nothing /\ S # chosen /\ chosen' = S
    /\ UNCHANGED <<board, scope, installQuestion, busy, run, granted>>

TickRow(d) == d \in ShownIds /\ ChooseIs(IF d \in chosen THEN chosen \ {d} ELSE chosen \cup {d})
\* The box above the rows.
TickPage ==
    ChooseIs(IF ShownIds \subseteq chosen THEN chosen \ ShownIds ELSE chosen \cup ShownIds)
\* "Alle Treffer auswählen" adds to what is selected and hidden.
ChooseHits == ShownIds \cap chosen # {} /\ ChooseIs(chosen \cup ShownIds)
ClearChosen == ChooseIs({})

-----------------------------------------------------------------------------
(* The work.                                                               *)

ChosenDevices == PatchId \cap chosen
Reachable(d) == board.list[d].connected

\* One after the other, as the list has them.
InTurn(S) ==
    CHOOSE queue \in [1 .. Cardinality(S) -> S] :
        \A i, j \in 1 .. Cardinality(S) : i < j => queue[i] < queue[j]

ScanTargets(S) == InTurn({d \in S : Reachable(d)})
InstallTargets(S) == InTurn({d \in S : SecurityOf(d) > 0 /\ Reachable(d)})
QueueTargets(S) == InTurn({d \in S : HasPending(d)})

\* Every button: not while a run is under way, nor behind the dialog.
MayStart == ~busy /\ installQuestion = Nothing

StartRun(kind, targets) ==
    run' = [NoRun EXCEPT !.kind = kind, !.queue = targets] /\ busy' = TRUE

\* The connected devices of the list, by the button in the header, which is
\* there as soon as the devices are; or the selection, or one row.
ScanNow(S) ==
    /\ PatchMove /\ MayStart
    /\ \/ S = ShownIds
       \/ FiguresShown /\ S \in {ChosenDevices} \cup {{d} : d \in ShownIds}
    /\ ScanTargets(S) # <<>> /\ StartRun("scan", ScanTargets(S))
    /\ UNCHANGED <<board, scope, chosen, installQuestion, granted>>

\* Both confirmations name their targets, worked out when they are asked.
Ask(kind, targets) ==
    /\ PatchMove /\ FiguresShown /\ MayStart /\ targets # <<>>
    /\ installQuestion' = [kind |-> kind, targets |-> targets]
    /\ UNCHANGED <<board, scope, chosen, busy, run, granted>>
AskInstall == Ask("install", InstallTargets(ChosenDevices))
AskQueue == Ask("queue", QueueTargets(ChosenDevices))

\* What the confirmed run works on.
TargetsAnew ==
    IF installQuestion.kind = "install" THEN InstallTargets(ChosenDevices) ELSE QueueTargets(ChosenDevices)
ConfirmedTargets == installQuestion.targets

Accept ==
    /\ installQuestion # Nothing /\ installQuestion' = Nothing
    /\ StartRun(installQuestion.kind, ConfirmedTargets) /\ granted' = ToSet(installQuestion.targets)
    /\ UNCHANGED <<board, scope, chosen, patchMoves>>

Decline ==
    /\ installQuestion # Nothing /\ installQuestion' = Nothing
    /\ UNCHANGED <<board, scope, chosen, busy, run, granted, patchMoves>>

RunStep(r) == run' = r /\ UNCHANGED <<board, scope, chosen, installQuestion, granted, patchMoves>>

SendOne ==
    /\ run.queue # <<>> /\ Cardinality(run.sent) < PatchWorkers /\ UNCHANGED busy
    /\ RunStep([run EXCEPT !.queue = Tail(@), !.sent = @ \cup {Head(run.queue)}])

\* Served; or refused, for instance because the role changed meanwhile.
OneSettles(d) ==
    /\ d \in run.sent /\ UNCHANGED busy
    /\ \/ RunStep([run EXCEPT !.sent = @ \ {d}, !.ok = @ \cup {d}])
       \/ RunStep([run EXCEPT !.sent = @ \ {d}, !.failed = @ \cup {d}])

RunOver ==
    /\ run.kind # "none" /\ run.queue = <<>> /\ run.sent = {}
    /\ busy' = FALSE /\ RunStep(NoRun)

-----------------------------------------------------------------------------
(* What arrives.                                                           *)

BoardIs(b) == board' = b /\ UNCHANGED <<scope, chosen, installQuestion, busy, run, granted>>

DeviceListComes(st) ==
    /\ board.devices # "success" /\ UNCHANGED patchMoves /\ BoardIs([board EXCEPT !.devices = st])
SummaryComes(st) ==
    /\ board.summary # "success" /\ UNCHANGED patchMoves /\ BoardIs([board EXCEPT !.summary = st])

\* A refresh: what a scan found, in the summary or in the list, or who is
\* connected.
FindingsCome(d) ==
    /\ PatchMove /\ board.summary = "success"
    /\ \E e \in OpenRow \cup {NoEntry} : e # board.open[d] /\ BoardIs([board EXCEPT !.open[d] = e])
DeviceRefreshes(d) ==
    /\ PatchMove /\ board.devices = "success"
    /\ \/ BoardIs([board EXCEPT !.list[d].connected = ~@])
       \/ board.list[d].scan # "fresh" /\ BoardIs([board EXCEPT !.list[d].scan = "fresh"])
       \/ board.list[d].scan = "fresh" /\ BoardIs([board EXCEPT !.list[d].scan = "old"])

-----------------------------------------------------------------------------
PatchNext ==
    \/ \E f \in StateFilter : FilterState(f)
    \/ \E f \in OsCategory : FilterOs(f)
    \/ \E f \in ConnFilter : FilterConn(f)
    \/ \E k \in {"name", "pending", "security"} : SortPatches(k)
    \/ ResetScope \/ TickPage \/ ChooseHits \/ ClearChosen \/ AskInstall \/ AskQueue \/ Accept \/ Decline
    \/ \E d \in PDev : TickRow(d) \/ OneSettles(d) \/ FindingsCome(d) \/ DeviceRefreshes(d)
    \/ \E S \in SUBSET PDev : ScanNow(S)
    \/ SendOne \/ RunOver
    \/ \E st \in {"error", "success"} : DeviceListComes(st) \/ SummaryComes(st)

PatchSpec == PatchInit /\ [][PatchNext]_patchVars

-----------------------------------------------------------------------------
(* Properties.                                                             *)

\* Updates are installed, or queued, on the devices that the confirmation
\* named: not on one that a refresh behind the dialog made a target
\* (installSecurity, queueUpdates).
InstallsAsNamed ==
    run.kind \in {"install", "queue"} =>
        ToSet(run.queue) \cup run.sent \cup run.ok \cup run.failed = granted

\* The figures count a device as current only when it is known to be: 100 %
\* says that every device was scanned and has nothing open.  And the cards of
\* the systems add up to the figures above them (patchStats, categoryStats).
FiguresHonest ==
    FiguresShown =>
        LET s == Stats(PatchId) IN
        /\ (CurrentPct(s) = 100) <=> (\A d \in PatchId : board.open[d] = NoEntry /\ ~NeverScanned(d))
        /\ \A f \in {"devices", "pending", "security", "stale", "current"} :
              s[f] = CategoryStats["win_pc"][f] + CategoryStats["win_server"][f] + CategoryStats["mac"][f]
                     + CategoryStats["linux"][f]
=============================================================================
