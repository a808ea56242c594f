---------------------------- MODULE DeviceUpdates ----------------------------
(***************************************************************************)
(* The "Updates" tab of a device page (pages/device/tabs/UpdatesTab.tsx):  *)
(* an install started at once and followed on a console, a scan, and the   *)
(* installs that wait for the device (QueuedActions.tsx).  Going from the  *)
(* tab of one device to that of another, back and forward in the browser,  *)
(* keeps the component and its state; any other way unmounts it.           *)
(*                                                                         *)
(* A device always has updates to install, and of the actions that wait    *)
(* for it the latest one is followed.  The list of updates and viewers,    *)
(* who get no buttons, are left out.                                       *)
(***************************************************************************)
EXTENDS Naturals, FiniteSets

CONSTANTS
    TabDevices,     \* how many devices have an agent
    MaxRuns,        \* installs that ever run
    Scopes,         \* what an install may be: of all updates (TRUE), of security updates
    TabSlots,       \* requests under way at once
    MaxTabMoves     \* steps of the user, of others and of devices, loads on focus, loads that fail

ASSUME TabAssumption == {TabDevices, MaxRuns, TabSlots} \subseteq Nat /\ Scopes \subseteq BOOLEAN

VARIABLES
    runs,           \* server: the installs, each with its device, over or not
    waiting,        \* server: per device the latest install that was queued
    tabCache,       \* both queries: per device the last answer
    tabStale,       \* both queries: the devices whose answer is marked stale
    tabFailed,      \* both queries: the devices whose last load failed
    tabLoad,        \* both queries: the load of the device shown
    tabDevice,      \* the device whose tab is shown, 0 for none
    started,        \* startedJob, 0 for none
    carried,        \* history: startedJob came along from another device's tab
    tabQuestion,    \* the open confirmation of an install
    consented,      \* history: what was read and said yes to
    tabCalls,       \* the requests under way
    toldRun,        \* finishedRef of the console
    reloads,        \* per device, timers that will have its updates loaded
    unseenRow,      \* history: devices whose row changed without this page's doing
    tabMoves

tabServerVars == <<runs, waiting>>
tabQueryVars == <<tabCache, tabStale, tabFailed, tabLoad>>
tabPanelVars == <<tabDevice, started, carried, toldRun>>
tabAskVars == <<tabQuestion, consented>>
tabVars == <<tabServerVars, tabQueryVars, tabPanelVars, tabAskVars, tabCalls, reloads, unseenRow, tabMoves>>

-----------------------------------------------------------------------------
TabDevice == 1 .. TabDevices
RunId == 1 .. MaxRuns
TabSlot == 1 .. TabSlots
TabQuery == {"patches", "actions"}
NoInstall == [device |-> 0, over |-> FALSE]
NotAnswered == [state |-> "not loaded", whole |-> FALSE]
NoRowYet == [state |-> "none", whole |-> FALSE]
NoTabLoad == [stage |-> "none", answer |-> NotAnswered]
TabLoading == [stage |-> "asked", answer |-> NotAnswered]
NoInstallAsk == [device |-> 0, whole |-> FALSE]
NoTabCall == [kind |-> "none", device |-> 0, whole |-> FALSE, run |-> 0, mine |-> FALSE, via |-> 0, stage |-> "none"]
WaitingRow == [state: {"none", "pending", "dispatched", "closed", "cancelled"}, whole: BOOLEAN]
PatchAnswer == [run: RunId \cup {0}, over: SUBSET RunId]

UpdatesTypeOK ==
    /\ runs \in [RunId -> [device: TabDevice \cup {0}, over: BOOLEAN]] /\ waiting \in [TabDevice -> WaitingRow]
    /\ \A d \in TabDevice : /\ tabCache.patches[d] \in PatchAnswer \cup {NotAnswered}
                            /\ tabCache.actions[d] \in WaitingRow \cup {NotAnswered}
    /\ tabStale \in [TabQuery -> SUBSET TabDevice] /\ tabFailed \in [TabQuery -> SUBSET TabDevice]
    /\ \A q \in TabQuery : tabLoad[q].stage \in {"none", "asked", "answered"}
    /\ tabDevice \in TabDevice \cup {0} /\ started \in RunId \cup {0} /\ carried \in BOOLEAN
    /\ tabQuestion \in [device: TabDevice \cup {0}, whole: BOOLEAN] /\ consented \subseteq TabDevice \X BOOLEAN
    /\ tabCalls \in [TabSlot -> [kind: {"none", "install", "scan", "queue", "cancel"}, device: TabDevice \cup {0},
                                 whole: BOOLEAN, run: RunId \cup {0}, mine: BOOLEAN, via: TabDevice \cup {0},
                                 stage: {"none", "sent", "done", "refused"}]]
    /\ toldRun \in RunId \cup {0} /\ reloads \in [TabDevice -> 0 .. 3] /\ unseenRow \subseteq TabDevice

UpdatesInit ==
    /\ runs = [r \in RunId |-> NoInstall] /\ waiting = [d \in TabDevice |-> NoRowYet]
    /\ tabCache = [q \in TabQuery |-> [d \in TabDevice |-> NotAnswered]]
    /\ tabStale = [q \in TabQuery |-> {}] /\ tabFailed = [q \in TabQuery |-> {}]
    /\ tabLoad = [q \in TabQuery |-> NoTabLoad]
    /\ tabDevice = 0 /\ started = 0 /\ carried = FALSE /\ toldRun = 0
    /\ tabQuestion = NoInstallAsk /\ consented = {} /\ tabCalls = [c \in TabSlot |-> NoTabCall]
    /\ reloads = [d \in TabDevice |-> 0] /\ unseenRow = {} /\ tabMoves = 0

TabMove == tabMoves < MaxTabMoves /\ tabMoves' = tabMoves + 1
UnaskedTab == tabDevice # 0 /\ tabQuestion = NoInstallAsk

-----------------------------------------------------------------------------
(* The server: one install of a device at a time.                          *)

Running(d) == {r \in RunId : runs[r].device = d /\ ~runs[r].over}
RunOf(d) == IF Running(d) = {} THEN 0 ELSE CHOOSE r \in Running(d) : TRUE
UnusedRuns == {r \in RunId : runs[r] = NoInstall}
NewRun == CHOOSE r \in UnusedRuns : \A s \in UnusedRuns : r <= s
TabAnswer(q, d) ==
    IF q = "patches" THEN [run |-> RunOf(d), over |-> {r \in RunId : runs[r].over}] ELSE waiting[d]

-----------------------------------------------------------------------------
(* The two queries of the tab that is shown.                               *)

\* installingJob, what the console follows: the run started here comes first.
ConsoleRun ==
    IF tabDevice = 0 THEN 0
    ELSE IF started # 0 THEN started
    ELSE IF tabCache.patches[tabDevice] = NotAnswered THEN 0 ELSE tabCache.patches[tabDevice].run
\* finishedRef goes with a console that is taken off.
ConsoleStays(told) == toldRun' = IF ConsoleRun' = 0 THEN 0 ELSE told

\* A query that is read anew loads if it has no answer or a stale one; one
\* that has grown old may.
Observed(q, d) ==
    \/ tabLoad'[q] = TabLoading
    \/ tabLoad'[q] = NoTabLoad /\ tabCache[q][d] # NotAnswered /\ d \notin tabStale[q]
\* invalidateQueries: what is read loads anew, in place of the load under way
\* unless that is the first; what is not read is marked.
JoinsTabLoad(q) == tabCache[q][tabDevice] = NotAnswered /\ tabLoad[q] # NoTabLoad
InvalidatesQuietly(q, d) ==
    /\ tabStale' = [tabStale EXCEPT ![q] = @ \cup {d}]
    /\ tabLoad' = IF d = tabDevice /\ tabLoad[q] = NoTabLoad THEN [tabLoad EXCEPT ![q] = TabLoading] ELSE tabLoad
    /\ UNCHANGED <<tabCache, tabFailed>>
InvalidatesTab(q, d) ==
    /\ tabStale' = [tabStale EXCEPT ![q] = @ \cup {d}]
    /\ tabLoad' = IF d = tabDevice /\ ~JoinsTabLoad(q) THEN [tabLoad EXCEPT ![q] = TabLoading] ELSE tabLoad
    /\ UNCHANGED <<tabCache, tabFailed>>

\* On focus too.
TabAsks(q) ==
    /\ TabMove /\ tabDevice # 0 /\ tabLoad[q] = NoTabLoad /\ tabLoad' = [tabLoad EXCEPT ![q] = TabLoading]
    /\ UNCHANGED <<tabServerVars, tabCache, tabStale, tabFailed, tabPanelVars, tabAskVars, tabCalls, reloads, unseenRow>>
TabServed(q) ==
    /\ tabLoad[q].stage = "asked"
    /\ tabLoad' = [tabLoad EXCEPT ![q] = [stage |-> "answered", answer |-> TabAnswer(q, tabDevice)]]
    /\ UNCHANGED <<tabServerVars, tabCache, tabStale, tabFailed, tabPanelVars, tabAskVars, tabCalls, reloads,
                   unseenRow, tabMoves>>
TabArrives(q) ==
    /\ tabLoad[q].stage = "answered"
    /\ tabCache' = [tabCache EXCEPT ![q][tabDevice] = tabLoad[q].answer]
    /\ tabStale' = [tabStale EXCEPT ![q] = @ \ {tabDevice}]
    /\ tabFailed' = [tabFailed EXCEPT ![q] = @ \ {tabDevice}]
    /\ tabLoad' = [tabLoad EXCEPT ![q] = NoTabLoad]
    /\ unseenRow' = IF q = "actions" /\ tabLoad[q].answer = waiting[tabDevice] THEN unseenRow \ {tabDevice} ELSE unseenRow
    /\ UNCHANGED <<tabServerVars, tabDevice, started, carried, tabAskVars, tabCalls, reloads, tabMoves>>
    /\ ConsoleStays(toldRun)
TabLost(q) ==
    /\ TabMove /\ tabLoad[q] # NoTabLoad /\ tabLoad' = [tabLoad EXCEPT ![q] = NoTabLoad]
    /\ tabFailed' = [tabFailed EXCEPT ![q] = @ \cup {tabDevice}]
    /\ UNCHANGED <<tabServerVars, tabCache, tabStale, tabPanelVars, tabAskVars, tabCalls, reloads, unseenRow>>

-----------------------------------------------------------------------------
(* Coming, going, and from one device to the next.                         *)

\* The tab is new: nothing started, nothing asked; its old requests go on.
ShowTab(d) ==
    /\ TabMove /\ tabDevice = 0 /\ tabDevice' = d
    /\ tabLoad' \in [TabQuery -> {NoTabLoad, TabLoading}] /\ \A q \in TabQuery : Observed(q, d)
    /\ UNCHANGED <<tabServerVars, tabCache, tabStale, tabFailed, started, carried, tabAskVars, tabCalls, toldRun,
                   reloads, unseenRow>>
LeaveTab ==
    /\ tabDevice # 0 /\ tabDevice' = 0 /\ started' = 0 /\ carried' = FALSE /\ toldRun' = 0
    /\ tabQuestion' = NoInstallAsk /\ tabLoad' = [q \in TabQuery |-> NoTabLoad]
    /\ tabCalls' = [c \in TabSlot |-> [tabCalls[c] EXCEPT !.mine = FALSE]]
    /\ UNCHANGED <<tabServerVars, tabCache, tabStale, tabFailed, consented, reloads, unseenRow, tabMoves>>
\* In place: an open question stays, and what useMutation does with an answer
\* is from now on done for the other device.
SwitchTab(d) ==
    /\ TabMove /\ tabDevice # 0 /\ d # tabDevice /\ tabDevice' = d
    /\ tabLoad' \in [TabQuery -> {NoTabLoad, TabLoading}] /\ \A q \in TabQuery : Observed(q, d)
    /\ carried' = (carried \/ started # 0)
    /\ tabCalls' = [c \in TabSlot |-> IF tabCalls[c].mine THEN [tabCalls[c] EXCEPT !.via = d] ELSE tabCalls[c]]
    /\ UNCHANGED <<tabServerVars, tabCache, tabStale, tabFailed, started, tabAskVars, reloads, unseenRow>>
    /\ ConsoleStays(toldRun)

-----------------------------------------------------------------------------
(* The user's requests.                                                    *)

FreeTabSlots == {c \in TabSlot : tabCalls[c] = NoTabCall}
Requests(kind, d, whole) ==
    LET c == CHOOSE c \in FreeTabSlots : \A e \in FreeTabSlots : c <= e IN
    /\ FreeTabSlots # {}
    /\ tabCalls' = [tabCalls EXCEPT ![c] = [kind |-> kind, device |-> d, whole |-> whole, run |-> 0,
                                            mine |-> TRUE, via |-> tabDevice, stage |-> "sent"]]
    /\ UNCHANGED <<tabServerVars, tabQueryVars, tabPanelVars, reloads, unseenRow>>
\* Each button is locked by the requests of its own kind, of this mount.
Locked(kinds) == \E c \in TabSlot : tabCalls[c].kind \in kinds /\ tabCalls[c].mine
TabBusy == Locked({"install", "scan"})

ScanTab ==
    /\ TabMove /\ UnaskedTab /\ ~TabBusy
    /\ Requests("scan", tabDevice, FALSE) /\ UNCHANGED tabAskVars
AskInstallNow(whole) ==
    /\ TabMove /\ UnaskedTab /\ ~TabBusy /\ ConsoleRun = 0 /\ tabCache.patches[tabDevice] # NotAnswered
    /\ tabQuestion' = [device |-> tabDevice, whole |-> whole]
    /\ UNCHANGED <<tabServerVars, tabQueryVars, tabPanelVars, consented, tabCalls, reloads, unseenRow>>
\* The closure that asked goes on: with its device, whichever is shown.
DeviceAsked == tabQuestion.device
InstallNow ==
    /\ tabQuestion # NoInstallAsk /\ tabQuestion' = NoInstallAsk
    /\ consented' = consented \cup {<<tabQuestion.device, tabQuestion.whole>>}
    /\ Requests("install", DeviceAsked, tabQuestion.whole) /\ UNCHANGED tabMoves
InstallNotNow ==
    /\ tabQuestion # NoInstallAsk /\ tabQuestion' = NoInstallAsk
    /\ UNCHANGED <<tabServerVars, tabQueryVars, tabPanelVars, consented, tabCalls, reloads, unseenRow, tabMoves>>
QueueInstall(whole) ==
    /\ TabMove /\ UnaskedTab /\ ~Locked({"queue"})
    /\ Requests("queue", tabDevice, whole) /\ UNCHANGED tabAskVars
Withdraw ==
    /\ TabMove /\ UnaskedTab /\ ~Locked({"cancel"}) /\ tabCache.actions[tabDevice].state = "pending"
    /\ Requests("cancel", tabDevice, FALSE) /\ UNCHANGED tabAskVars

-----------------------------------------------------------------------------
(* The server, for this tab and for others.                                *)

Served(c, stage, run) == tabCalls' = [tabCalls EXCEPT ![c].stage = stage, ![c].run = run]
RowIs(d, state, whole) == waiting' = [waiting EXCEPT ![d] = [state |-> state, whole |-> whole]]
Starts(d, over) ==
    /\ Running(d) = {} /\ UnusedRuns # {} /\ runs' = [runs EXCEPT ![NewRun] = [device |-> d, over |-> over]]
\* Two rows that wait are made one, and all updates beat security only.
Merged(d, whole) == whole \/ (waiting[d].state = "pending" /\ waiting[d].whole)

TabCallServed(c) ==
    LET call == tabCalls[c] d == call.device IN
    /\ call.stage = "sent"
    /\ \/ /\ call.kind = "scan" /\ Served(c, "done", 0) /\ UNCHANGED tabServerVars
       \* Not connected by then, the install ends before it starts.
       \/ /\ call.kind = "install" /\ \E over \in BOOLEAN : Starts(d, over)
          /\ Served(c, "done", NewRun) /\ UNCHANGED waiting
       \* Connected, what was queued runs at once unless an install runs.
       \/ /\ call.kind = "queue" /\ Served(c, "done", 0)
          /\ \/ RowIs(d, "pending", Merged(d, call.whole)) /\ UNCHANGED runs
             \/ Starts(d, FALSE) /\ RowIs(d, "dispatched", Merged(d, call.whole))
       \/ /\ call.kind = "cancel" /\ waiting[d].state = "pending" /\ RowIs(d, "cancelled", waiting[d].whole)
          /\ Served(c, "done", 0) /\ UNCHANGED runs
       \/ Served(c, "refused", 0) /\ UNCHANGED tabServerVars
    /\ UNCHANGED <<tabQueryVars, tabPanelVars, tabAskVars, reloads, unseenRow, tabMoves>>

Behind(d) ==
    /\ unseenRow' = unseenRow \cup {d}
    /\ UNCHANGED <<tabQueryVars, tabPanelVars, tabAskVars, tabCalls, reloads>>
OtherInstalls(d) == TabMove /\ Starts(d, FALSE) /\ UNCHANGED waiting /\ Behind(d)
OtherQueues(d, whole) == TabMove /\ RowIs(d, "pending", Merged(d, whole)) /\ UNCHANGED runs /\ Behind(d)
RowRuns(d) ==
    /\ TabMove /\ waiting[d].state = "pending" /\ Starts(d, FALSE) /\ RowIs(d, "dispatched", waiting[d].whole)
    /\ Behind(d)
InstallEnds(r) ==
    LET d == runs[r].device IN
    /\ runs[r] # NoInstall /\ ~runs[r].over /\ runs' = [runs EXCEPT ![r].over = TRUE]
    /\ IF waiting[d].state = "dispatched" THEN RowIs(d, "closed", waiting[d].whole) ELSE UNCHANGED waiting
    /\ UNCHANGED tabMoves /\ Behind(d)

-----------------------------------------------------------------------------
(* Answers, the console's end, timers and the fleet's hints.               *)

\* onSuccess: the list is read anew, of the device the tab last showed.
RowsAfter(call) ==
    /\ InvalidatesTab("actions", call.via)
    /\ unseenRow' = IF call.via # call.device \/ (call.via = tabDevice /\ JoinsTabLoad("actions"))
                     THEN unseenRow \cup {call.device} ELSE unseenRow
TabCallDone(c) ==
    LET call == tabCalls[c] IN
    /\ call.stage = "done" /\ tabCalls' = [tabCalls EXCEPT ![c] = NoTabCall]
    /\ UNCHANGED <<tabServerVars, tabDevice, tabAskVars, tabMoves>>
    /\ CASE call.kind = "install" -> /\ started' = IF call.mine THEN call.run ELSE started
                                     /\ carried' = (carried \/ (call.mine /\ call.device # tabDevice))
                                     /\ UNCHANGED <<tabQueryVars, reloads, unseenRow>>
                                     /\ ConsoleStays(toldRun)
         \* Two timers, of which one at least comes after the report.
         [] call.kind = "scan"    -> /\ reloads[call.device] < 2
                                     /\ reloads' = [reloads EXCEPT ![call.device] = @ + 1]
                                     /\ UNCHANGED <<tabQueryVars, started, carried, toldRun, unseenRow>>
         [] OTHER                 -> RowsAfter(call) /\ UNCHANGED <<started, carried, toldRun, reloads>>
\* Refused, or the answer lost: a toast, and nothing is read anew.
TabCallFails(c) ==
    LET call == tabCalls[c] IN
    /\ call.stage \in {"done", "refused"} /\ tabCalls' = [tabCalls EXCEPT ![c] = NoTabCall]
    /\ unseenRow' = IF call.stage = "done" THEN unseenRow \cup {call.device} ELSE unseenRow
    /\ UNCHANGED <<tabServerVars, tabQueryVars, tabPanelVars, tabAskVars, reloads, tabMoves>>

\* onFinished, once per run: the updates are loaded 0.8 seconds later.
ReloadsSoon(d) == reloads' = [reloads EXCEPT ![d] = @ + 1]
ConsoleTold ==
    /\ ConsoleRun # 0 /\ runs[ConsoleRun].over /\ toldRun # ConsoleRun /\ toldRun' = ConsoleRun
    /\ reloads[tabDevice] < 3 /\ ReloadsSoon(tabDevice)
    /\ UNCHANGED <<tabServerVars, tabQueryVars, tabDevice, started, carried, tabAskVars, tabCalls, unseenRow, tabMoves>>
ReloadDue(d) ==
    /\ reloads[d] > 0 /\ reloads' = [reloads EXCEPT ![d] = @ - 1] /\ InvalidatesTab("patches", d)
    /\ UNCHANGED <<tabServerVars, tabPanelVars, tabAskVars, tabCalls, unseenRow, tabMoves>>
\* A hint of the fleet reads everything of every device anew.
TabHint ==
    /\ TabMove /\ tabStale' = [q \in TabQuery |-> TabDevice]
    /\ tabLoad' = [q \in TabQuery |-> IF tabDevice = 0 \/ JoinsTabLoad(q) THEN tabLoad[q] ELSE TabLoading]
    /\ UNCHANGED <<tabServerVars, tabCache, tabFailed, tabPanelVars, tabAskVars, tabCalls, reloads, unseenRow>>

UpdatesNext ==
    \/ LeaveTab \/ ScanTab \/ InstallNow \/ InstallNotNow \/ Withdraw \/ ConsoleTold \/ TabHint
    \/ \E q \in TabQuery : TabAsks(q) \/ TabServed(q) \/ TabArrives(q) \/ TabLost(q)
    \/ \E d \in TabDevice : ShowTab(d) \/ SwitchTab(d) \/ OtherInstalls(d) \/ RowRuns(d) \/ ReloadDue(d)
    \/ \E whole \in Scopes : AskInstallNow(whole) \/ QueueInstall(whole)
    \/ \E d \in TabDevice, whole \in Scopes : OtherQueues(d, whole)
    \/ \E c \in TabSlot : TabCallServed(c) \/ TabCallDone(c) \/ TabCallFails(c)
    \/ \E r \in RunId : InstallEnds(r)

UpdatesSpec == UpdatesInit /\ [][UpdatesNext]_tabVars

-----------------------------------------------------------------------------
(* Properties.                                                             *)

\* An install goes to the device and has the scope that were read in the
\* question, whichever device's tab is shown by the time of the answer (install).
AsAsked ==
    \A c \in TabSlot : tabCalls[c].kind = "install" => <<tabCalls[c].device, tabCalls[c].whole>> \in consented

TabSettled(q) ==
    /\ tabDevice # 0 /\ tabDevice \notin tabFailed[q] /\ tabLoad[q] = NoTabLoad
    /\ \A c \in TabSlot : tabCalls[c] = NoTabCall

\* With nothing under way, the list shows what waits for the device as the
\* server has it, unless it changed without this page's doing or before the
\* list had ever come (refresh).
RowsSettle == TabSettled("actions") /\ tabDevice \notin unseenRow => tabCache.actions[tabDevice] = waiting[tabDevice]

\* The console having told the end of a run of the device shown, and what it
\* set off being over, the updates shown were read after that end (onFinished).
EndReloaded ==
    /\ TabSettled("patches") /\ reloads[tabDevice] = 0 /\ ~carried
    /\ toldRun # 0 /\ runs[toldRun].device = tabDevice
    => tabCache.patches[tabDevice] # NotAnswered /\ toldRun \in tabCache.patches[tabDevice].over

\* All three.
UpdatesHonest == AsAsked /\ RowsSettle /\ EndReloaded
=============================================================================
