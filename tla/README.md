# A TLA+ model of the RMM server and its agent

This directory holds a verification development of the program in `src/`: a
remote monitoring and management server for the machines of a household or a
small company (Python, FastAPI, SQLite), the agent that runs on each machine
(Go), and the dashboard in front of it (React).  TLA+ modules model the parts
in which order, concurrency and failure decide whether the program is correct;
TLC checks them on small instances; TLAPS proves theorems about them for all
instances.

`PROJECT.json` maps every definition to the lines of the source it models, and
lists the runs, the mutants that show each property can fail, the hazards of
the code, the findings and the theorems.

## 1. Inventory

One backend process with one asyncio event loop holds all state that is not in
the one SQLite file.  Coroutines interleave at their `await`s; every database
helper opens a connection of its own, so what one helper call does is atomic
(one or two statements, see below) and what two calls do is not.  Agents open
one WebSocket each; the server sends commands over it.

| component | state | operations | talks to | hard parts |
|---|---|---|---|---|
| `action_runner.py` | a lock per device | `run_due`, `on_job_finished`, `housekeeping` | tables, sockets, scan throttle | several callers at once; send before commit; rows read before awaits |
| `pending_actions.py`, `routers/actions.py` | table `pending_actions` | create or widen, cancel, list, dispatch, close, expire | action runner | unguarded UPDATEs by id, SELECT then INSERT |
| `jobs.py`, `routers/jobs.py` | table `jobs`, live output hub | create, start, output, finish, fail, sweep | agent socket, dashboards | sweep against late results; two-step sweep; output by read-modify-write |
| `agents_ws.py`, `routers/agent.py` | registry of live sockets, waiters for logs | connect, supersede, every agent message | all of the above | old and new socket of one device at once |
| `patch_scan.py`, `patches.py`, `routers/patches.py` | last scan request, table `patches` | ask, report, install directly | agent socket, jobs | install on a stale list; direct route without the lock |
| `automation.py` | settings, rules, schedules | patch window, script schedules, rule choice | action runner, jobs | marked as run before the work is done |
| `main.py` | two background loops | cleanup tick, alert tick | most others | one failing step ends the tick |
| agent: `client.go`, `jobs.go`, `patches.go` | connection, outbox, running jobs | serve loop, reader, job goroutines | server | backpressure, cancellation with the socket |
| agent: `update.go` | binary on disk | verify, swap, restart | service manager | crash between two renames |
| `devices.py`, `device_policy.py` | devices, enrollment tokens, inventory | enroll, authenticate, heartbeat, delete | all | token used twice, deletion under open sockets |
| `job_secrets.py`, `credentials.py` | line buffers per job, vault | extract, flush, discard | job output | markers over chunk boundaries |
| `alerts.py`, `notify.py` | table `alerts` | evaluate, fire, resolve, acknowledge, push | automation rules, metrics | failed pushes, maintenance, hysteresis |
| `fleet_ws.py` | subscribers, pending hint | subscribe, broadcast, flush | dashboards | coalescing without losing the last hint |
| `accounts.py`, `auth.py`, `ratelimit.py` | accounts, sessions, attempts | login, TOTP, backup codes, roles | dashboard | one-time codes used twice, the last admin |
| `mdm*.py`, `nanomdm.py` | enrollments, command queue, configurations | queue, retry, results, assign | MDM server, devices | answers that arrive late, twice or never |
| `metrics.py`, `audit.py`, `releases.py`, `persons.py`, settings, health | tables | insert, read, average | – | little |
| infrastructure | – | – | – | deployment |

The dashboard is one page in a browser tab.  What the server says lives in a
query cache with loads, retries and polls of its own; every page keeps dialogs,
selections and requests beside it.  Handlers run to their next `await`; between
two of them an answer, a poll, a hint of the fleet socket, another administrator
or another click may come in.

| part of the dashboard | state | operations | hard parts |
|---|---|---|---|
| `useAuth.ts`, `LoginPage.tsx`, `BootSequence.tsx` | session, form, overlays | check, sign in (two steps), sign out, expiry | answers of the session before; first load against startup |
| `useFleet.ts`, `queryClient.ts` | the fleet's lists, scheduler, socket | poll, hint, refresh, retry | fetches that cut each other off, outages |
| `useJobStream.ts`, `JobConsole.tsx` | output and status of a job | attach, receive, retry, tell the end | reconnects, another job in the same panel |
| `bulk.ts`, `BulkBar.tsx`, `toast.tsx` | plan, workers, trackers, results | ask, run, poll jobs, list results | partial failure, runs that outlive dialog and session |
| `DevicesPage.tsx` and its hooks | address, search box, pages, selection, views | type, filter, sort, select | address rendered late; filter before its list |
| `PatchesPage.tsx`, `patchList.ts` | scope, selection, figures | scan, install, queue | refreshes behind the question; unknown is not zero |
| `AlertsPage.tsx`, `alertList.ts` | tab, rounds, focus | acknowledge one or all | rounds that overlap each other and colleagues |
| `AuditPage.tsx` | filters, search, server pages | filter, search, page, export | rows of the last question under the new one |
| `AdminPage.tsx`, `TwoFactorPanel.tsx` | accounts, dialogs, codes | role, person, reset, delete, create, second factor | list written before the answer |
| `PersonsPage.tsx`, `PersonDetail.tsx` | persons, history entry, dialogs | create, edit, delete, assign | deletion acts on linked accounts |
| `EditDeviceDialog.tsx` | copy of a device | save | sends what the copy says |
| `AutomationPage.tsx`, `ruleText.ts` | window, rules, schedules | save, switch, remove | a rule decided on both sides |
| `ScriptsPage.tsx` and its parts | library, editor, console | read, run, edit, delete | late answers beside another script |
| `UpdatesTab.tsx`, `QueuedActions.tsx` | updates and queued installs of a device | install, scan, queue, withdraw | one component for two devices |
| shell, overview, enrollment, MDM, other tabs | – | – | one request each, or none |

What makes the core components correct:

* an action that is due is carried out once, unless the server failed in between;
* never two patch installs of one device at once, and no restart during one;
* a restart only after an install that was wanted with one and that the agent reported as done;
* the two tables agree: the action's job is the one that was sent for it;
* a job goes from queued to running to one end and stays there;
* the stored output of a job is what it wrote, in order and without a hole, all
  of it once the job counts as done;
* no goroutine of the agent waits for something that never comes, its serve
  loop least of all;
* whatever crashes, every job ends, every dispatched action is closed and the
  lock of the device is free again;
* a tab shows one account what is that account's, and the fleet as it is in the end;
* what a question named is what is done, whatever was refreshed behind it;
* with nothing under way, a list shows what the server has.

## 2. Modules

| module | models | uses |
|---|---|---|
| `JobStatus` | what each UPDATE of `jobs.py` makes of a status | – |
| `JobLife` | abstract specification: the life of a job | `JobStatus` |
| `ActionRunner` | actions, jobs, sockets and everyone who touches them, for one device | `JobStatus`, `JobLife` (refined) |
| `MCActionRunner` | definitions for TLC's configurations | `ActionRunner` |
| `AgentLoop` | the agent's connection: serve loop, reader, outbox, job goroutines | – |
| `JobChannel` | jobs and their output between dashboard, server and agent | `AgentLoop`, `JobStatus`, `JobLife` (refined) |
| `ActionRunnerProofs` | theorems about types, sends, installs, restarts and the life of a job | `ActionRunner` |
| `ActionTablesProofs` | theorems that the two tables agree and restarts are earned | `ActionRunnerProofs` |
| `JobChannelProofs` | theorems about types, the told end and the life of a job | `JobChannel` |
| `JobOutputProofs` | theorems about the stored output | `JobChannelProofs` |
| `SignIn` | the session of a tab, its form, overlays and startup | – |
| `FleetFeed` | what keeps the lists of the fleet fresh | – |
| `JobPanel` | the console of a job | – |
| `FeedProofs` | theorems about the two feeds, and about them on one tab | `MCFeeds` |
| `BulkJobs` | actions on many devices and the results of a session | – |
| `DeviceTable`, `PatchBoard`, `AlertCenter`, `AuditView` | the pages of devices, patches, alerts, audit log | – |
| `PersonDesk`, `AutomationDesk`, `ScriptShelf` | the pages of persons, automation, scripts | – |
| `DeviceUpdates` | the updates tab of a device | – |
| `AccountDesk` | the administration of accounts and the own second factor | – |
| `DeviceOwner` | whose a device is, from two pages | – |
| `PageProofs` | theorems about every page of `MCPages` but the bulk actions | the pages' modules |
| `PeopleProofs` | theorems about the session, accounts and owners, and about their composition | `MCPeople` |
| `MCPagesProofs` | theorems about bulk actions, the types of every page, and the composition | `MCPages`, `PageProofs` |
| `MCFeeds`, `MCPages`, `MCPeople` | compositions of these for TLC | the modules they extend |

### 2.1 ActionRunner

**State.**  `actions` and `jobs` are the two tables, functions from row ids to
records; a row that is not there yet has state `"none"`, and ids are handed out
in order as AUTOINCREMENT does.  `patches` is the set of severities for which
the device has something pending, which is all that `pending_ids` and its
`security_only` tell apart.  `lastScan` is `devices.last_patch_scan_at`.
`scan` is the in-memory request time of `patch_scan.py`, `conn` the entry of
the device in the registry of sockets, `delivered` the jobs the agent has got
over each socket and has not reported.  `lock` is the device's `asyncio.Lock`.
The rest is control: where each coroutine is suspended (`pc`) and the locals it
keeps over its awaits, in particular the rows it has read (`todo`, `cur`,
`arg.found`), which grow stale while it waits.

**Coroutines.**  `Sockets` are receive loops of `agent_ws` (each socket the
device opens has its own, and a superseded one goes on until it sees its end),
`Requests` are `queue_action` handlers, `Installs` are handlers of the direct
install route, `Windows` is the alert loop in its patch window tick and
`Cleanup` the cleanup loop.

**Steps.**  An action is what runs between two awaits at which another
coroutine could see or change something: one helper call to the database, or
one send.  `run_due` is `Acquire`, `List`, then per row `PickInstall`,
`PickScript` or `PickReboot`, `Ids`, `Insert`, `Send`, and `Mark`, `Undo` or
`Close`; `create` is `Find`, then `Widen` or `Add`; `on_job_finished` is
`Match`, `Settle`, and then `create` for the restart; a cleanup tick is
`Expire`, `Gather`, `NextEnded` and `on_job_finished` per ended job,
`SelectStale`, `Sweep`.  An agent message and the first thing it writes are one
step (`Heartbeat`, `PatchReport`, `JobStarted`, `JobResult`).

**Time** is kept as the outcomes of the comparisons the code makes: `lapsed`
(`expires_at`), `aged` (`REBOOT_DECISION_S`), `old` (the cutoffs of the sweep)
and `scan.fresh` (`REPORT_WAIT_S`), each of which can become true or false at any
moment.  Since a sweep may then come at any time, the model covers every setting
of the timeouts, those included under which the sweep beats the agent.

**Faults** are a statement that raises ("database is locked"), in `run_due` or
`on_job_finished` (caught by their callers, with the lock released on the way
out), in the cleanup tick (caught by the loop) or in the receive loop (which
ends the connection), and a restart of the server, which loses all that is in
memory and with the sockets the jobs the agent was working on.

**History.**  A job's row remembers the end its agent reported (`report`), which
the sweep may have overwritten in `status`; an action's row remembers whether
anybody asked for a restart with it (`asked`), which nobody reads but
`RebootEarned`.

**Simplifications.**

* One device: rows, lock, socket and throttle are all per device.
* `apply_scan` and `mark_patch_scan` are one step; nothing reads one without the other
  in a way the properties tell apart.
* A heartbeat may or may not be past the device's scan slot (`is_due` is open).
* `awaiting_report` compares two timestamps; the model numbers the requests and
  notes which of them the last report came after.
* One script stands for all: the split of open rows by script id is not seen.
* The unlocked head of `run_due` (connected, anything pending) is part of the
  step before it; the lock is taken later and what it saw may be outdated.
* Beyond `MaxActions`, `MaxQueued` and `MaxJobs` an INSERT raises instead of
  blocking, so that the coroutine goes on as it would after an error.
  `MaxQueued` leaves rows for follow-ups.
* `devices.delete_device`, and the purge of rows with it, is not modelled, nor
  are the device classes without an agent, which have no socket.
* The agent is seen through its messages: it works on what it gets over a
  socket, forgets it when that socket ends (`connectAndServe` cancels the
  context of the connection) and reports at most one result per delivery.

### 2.2 AgentLoop and JobChannel

`AgentLoop` is the agent: one connection after another (`conn`), each with a
serve loop (`serve`), a reader goroutine (`reader`, and the `frame` it holds),
an `outbox` and two directions of a wire (`up`, `down`).  A job's goroutine is at
`at[j]` and belongs to the connection `over[j]` it came over; the context of a
connection is cancelled (`Cancelled`) when its loop has returned.  `send` is
the select on room in the outbox and that context, `Write` the loop's write to a
socket that may be dead without anybody knowing (`intact`).  A reply is a state
of the loop of its own, because that is where it could wait for itself.

`JobChannel` puts the server on the other side.  Each connection has a
receive loop (`loop`, with the locals `msg`, `clean` and `current`), and the loop
of an old connection works off its messages while the next is registered
(`reg`).  `append_output` is `ReadOutput`, `UpdateOutput`, `PublishOutput`;
`finish_job` is `FinishJob`, `PublishDone`; the filter of `job_secrets.py` is seen
as pieces it may hold back (`held`) and gives out later, at the result (`flush`)
or never (`discard`).  `Create`, `Dispatch` and the two undo steps are the route
that creates a job, `SelectStale`, `SweepStale`, `PublishStale` the sweep, and
`ReadJob`, `Subscribe`, `Show`, `Leave` a live output socket with its `view` and
its queue in the hub (`events`).

**Faults** are a socket that breaks and takes a part of what was on the wire
with it, an agent that dies, a server that restarts, and a statement that raises
in a receive loop.

**Simplifications.**

* Output is pieces, numbered as the job wrote them; the cap counts pieces, and
  a piece in the middle of which it falls is one that the cap leaves out.
* Heartbeats, inventories and pings change nothing here and count only as
  writes that may fail; what a report or a result does to actions is
  `ActionRunner`.  `patch_scan` and `update` start goroutines of the same
  shape and are left out, and so are status events of the hub.
* The agent reports on its own jobs, so `_JobGate` lets everything pass; the
  refusal of foreign ids is not modelled.
* The backoff of `runAgent` is a delay of any length; `MaxConn` ends the
  reconnecting.

### 2.3 The dashboard

All dashboard modules have the same shape.  The **server** is a variable or two
with what it would answer now.  A **query** is its last answer, whether it
failed, and the load under way: asked, read at the server, arrived or lost, as
three steps, so that an answer may be old when it comes.  A **request** that
changes something is a record in a slot, a set or on a row: sent, served
(which changes the server), and answered or lost, with the handler's code after
the `await` as the last step.  A **dialog** is the question as it was asked; the
world goes on behind it.  Handlers up to their first `await`, effects of one
render, and the callbacks of a query are atomic, as they are in a browser.
History variables, marked in the modules, remember what was confirmed, or what
changed without the page being told, which no client can know.

* `SignIn`: requests carry the cookie of their time and their answers find
  whatever session there is then (`flight`).  `form` is what the login page
  holds, abstracted to whose name and which code was typed; `cached` whose data is
  in the query cache and whether a load, a save or a save answered too late put
  it there; `boot` the
  startup sequence, from the fox's entrance to the shell.
* `FleetFeed`: each list holds the version of the fleet it was read at; `sched`
  is the scheduler's closure (`timer`, in flight, `queued`), `sock` the socket
  with its retry.  Durations are left out, what comes in between is not.
* `JobPanel`: `job` is the table and `heard` what the hub has published of it:
  a commit (`Commit`) and its publication (`Publish`) are two steps, as are the
  read of the row (`SocketReads`) and the subscription (`Subscribe`).  `shown` is
  the stream's state, reset in the render that attaches another job (`Attach`);
  the effects of that render, which close the old socket and open the new one,
  come later (`Rewatch`), and so do those of a render of what has come
  (`PanelEffects`, `mirrored`).  `torn`, `deaf`, `seam` and `misled` are history:
  whether pieces or the end were published in the wrong moment for the socket,
  and what of that, or of another job, is shown.
* `BulkJobs`: `bar` is the dialog with its plan and `runBulk`'s cursor, one
  tracker per action with the jobs still to poll, `results` the list of the
  notification centre, `generation` the counter that a sign-out raises.  `born`
  and `astray` are history: in which session an action was confirmed, and which
  were under way when the account changed.
* `DeviceTable`: `address` is what is rendered, `trail` what the browser
  already has, `navigation` what is between them; `box` the search box, `selected`
  and `anchor` the selection, `pager` with the key that takes it back to page 1.
* `PatchBoard`: `board` is what has loaded of devices and summary, `granted` the
  devices that the accepted question named, `run` the bulk run.
* `AlertCenter`: a round per click, with what it sends, what came back and
  whether the list has been loaded since; `handoff` is the ref of the focus.
* `AuditView`: `auditPages` is the cache by question, `previousPage` what
  `keepPreviousData` keeps, `exported` the rows of the last export.
* `AccountDesk`: the list is written before the answer (`ChangeRole`) and
  written back (`ChangeOver`); the panel of the own second factor shows codes
  that are nowhere else.
* `PersonDesk`: the open person is an entry of the browser's history
  (`visits`, `pops`); `removal` is the deletion of each person from question to
  answer, with what the question told of each account, and `clearing` how far the
  server is with it: the person is committed as gone, the linked accounts are
  read, and each is deleted or unlinked by a commit of its own, until the loop is
  through or fails.  `given` says that the
  last id has been given: ids come from AUTOINCREMENT, so that no person gets the
  id of one deleted before.
* `DeviceOwner`: `fleetOwner` and `copy` are two cached copies of `owner`; the
  dialog is filled from the second.
* `AutomationDesk`: one cached answer with window, rules and schedules, replaced
  whole by every load and every saved window.
* `ScriptShelf`: `console` is the script whose run the console beside the
  script shows, `scriptDraft` the editor with its own request.
* `DeviceUpdates`: `tabCache`, `tabStale`, `tabFailed`, `tabLoad` are the two
  queries of the tab, kept per device after it is left; `started` is `startedJob`,
  `toldRun` the console's `finishedRef`, `reloads` the timers that load again.

**Composition.**  A tab shows one page at a time and leaving it unmounts it, so
`MCPages` lets each behaviour be about one page (`mounted`), `MCPeople` about one
subject and `MCFeeds` about one feed; the other components stay in one initial state.
The views of the first two drop what never changes, so the state spaces add
instead of multiplying.  What crosses pages is inside a module where it
matters: an owner changed on one page and saved on another (`DeviceOwner`), a
tracker that outlives its page and its session (`BulkJobs`), overlays and cache over
a sign-out (`SignIn`).

**Simplifications.**

* Names, texts and fields are members of small sets; a search text is the set
  of what it finds.  Wording, layout and columns are left out; where a phone
  shows a list or its detail, not both, `PersonDesk` has it and `ScriptShelf` not.
* One save of a person at a time (the dialog locks), one run of `runBulk` at a
  time per page; requests beyond `Calls`, `ScriptCalls`, `TabSlots`, `MaxAutoCalls`
  and `MaxOwnerCalls` wait for a free slot.
* `AuditView` renders the address at once; `DeviceTable` has the transition.
* `ScriptShelf` has no filters; `DeviceUpdates` has no viewers (who get no
  buttons) and a device always has updates to install.
* React's batching is taken as documented: one render sees all state set in one handler.

## 3. Runs

| run | instance | question |
|---|---|---|
| `runner_installs` | 1 socket, the patch window; 3 actions (2 queued and a follow-up), 3 jobs, 1 scan | does an install or a restart ever meet a running install, and is every restart earned? |
| `runner_sockets` | 2 sockets, 1 request, 1 direct install; 1 action, 2 jobs | is nothing sent twice with everyone dispatching at once and sockets superseding each other? |
| `runner_liveness` | 1 socket, 1 request, cleanup, 1 fault; 1 action, 1 job | do tables and statuses agree, and does everything end, after any one fault? |
| `two_installs` | 2 direct installs; 2 jobs | does the direct route block a second install?  Refuted |
| `channel_safety` | 1 job, 2 connections, 3 pieces, cap 2, outbox 2, 1 dashboard, sweep, 1 fault | is the stored output whole and in order, is nobody told too early? |
| `channel_liveness` | 1 job, 2 connections, 2 pieces, outbox 1, 1 request for logs, 1 fault | does every part of the agent get on, and the result arrive? |
| `dash_feeds` | 2 lists, 1 change, 1 outage; 1 job of 1 piece, 1 lost socket; 1 account with a second factor, 2 requests | are hints kept, does every way lead out? |
| `dash_console` | 2 jobs of 2 pieces, 1 lost socket | is what comes over a whole stream shown in order, and told of its own job? |
| `dash_people` | 2 accounts, one with a second factor, 2 requests, both kinds of overlays, 1 account reset; 3 accounts to administer, 2 requests, 2 steps; 1 device, 1 person, 2 requests, 2 changes | whose session, whose list, whose device? |
| `dash_pages` | per page 2 or 3 devices, alerts, entries, scripts, persons; 1 to 3 steps of users and world beside what follows from them | does each page do what it said and show what is? |
| `codes_vanish` | 3 accounts, 2 requests, 2 steps | do backup codes stay until they are saved?  Refuted |
| `late_report` | 1 socket, 1 request, cleanup; 1 action, 1 job | does the sweep time out only what never reported?  Refuted |

**The bounds.**  Double dispatch takes two coroutines and one row, a second
install two rows or a row and a job, a restart after an install two rows and two
jobs, superseding two sockets; a stale read takes one coroutine that reads, one
that writes and the first again.  Each instance is the smallest one in which its
case happens, and the mutants (a lock that is not taken, a check left out, an
end not looked at, a lock not released, and so on) are all found in them.
`MCFeeds` takes the feeds a run is about as a constant, `Feeds`, so that the
console alone can be checked with more than fits beside the others.
A second install, or a restart, beside a running one takes rows
of both, so `runner_installs` has room for three; it has no direct route
because its properties are false with it (`two_installs`), and no cleanup
loop: a report and housekeeping still race for one row, and the restart that
follows a job swept meanwhile is left to `RestartIsEarned`.  Sockets are
symmetric in `runner_sockets`, which checks no liveness.  Sweeps and faults are
left to `runner_liveness`, which therefore checks `TypeOK`, `TablesAgree` and
`LifeButLateSweep` too, and to the proofs, which cover any number of them.
In the channel two connections are what it takes for an old loop and a new one
to overlap, three pieces and room for two what it takes to pass the cap with a
batch and with a single piece, an outbox of one place what it takes to block at
once, and one fault is enough to lose a connection and go on.  Jobs share only
the outbox and the wire, both first in first out, so the instances have one.

On the dashboard a stale answer takes a load, a change and a second load or
request; a late one, a request, a step of the user and the answer.  Two or three
moves beside what they set off (answers, timers, effects are not counted) have
all of them.  Three devices, alerts or entries are one to keep, one to leave out
and one to come or go meanwhile; a page of one row and a selection capped at two
reach the second page and the cap.  In `DeviceUpdates` a load that fails and one
that comes from the window getting the focus count as moves, as they may come
at any time; the module was also checked alone with four moves (2.3 million
states).

The runs may stop (`CHECK_DEADLOCK FALSE`) where their bounds end: the channel
when the jobs have ended and the last connection is gone, a page when its moves
are used up and everything has been answered.  The other runs check deadlock.

**Safety.**  `NoDoubleSend`, `OneInstall`, `NoRebootDuringInstall`,
`RebootEarned`, `TablesAgree` and `LifeButLateSweep` are stated at the end of
`ActionRunner` with the reason for each.  `RebootEarned` and `TablesAgree` go by
what the agent reported and what was asked, not by what a sweep or a widening
has since made of the rows.  Two properties are weaker than one might expect,
because the code is: `NoDoubleSend` allows a second send after a crash between
`manager.send` and `mark_dispatched`, and `LifeButLateSweep` is `JobLife` with
one step more, the sweep over an end that was reported after its SELECT.
`JobLife` itself (`FollowsJobLife`) has no such step, and `late_report` refutes it.

Of the channel: `FinishedWhole` says that a job that counts as done did end well
on the machine and that nothing of its output was lost on the way, which takes
the order of outbox and wire, the contexts (a report given up is never followed
by one that arrives), the flush before the end and the sweep to play together.
`OutputInOrder` is its counterpart for jobs under way, `ToldIsOver` relates the
events of the hub to the table, and `LifeButLateSweep` is the same as above.  That
the end told may differ from the table's after a sweep is not excluded: the code
publishes what the agent said.

Of the dashboard, each property at the end of its module:

* `SessionIsOwn`: overlays, and what queries and the session's own saves put into
  the cache, are the signed-in account's own.  A save answered after its session
  is the exception (section 4).
* `CodesGoWhereNamed`: a code goes to the server only with the account that the
  page names beside it, although the fields of both steps stay open while an
  answer is awaited, and no code is left over from another account's step.
* `HintKept`, `PanelFaithful` and `JobsAccounted` are about what concurrency
  could lose or double: hints, pieces of output, devices of a bulk action.
  `PanelFaithful` speaks of output that came over a whole stream and of ends no
  stray message told, `EndIsTold` of a socket that did not miss the end by
  subscribing late, `JobsAccounted` of results of actions whose run was not under
  way at a change of account.  Without these exceptions TLC refutes each of them;
  section 4 says what happens.
* `FateAsTold` holds of a deletion that says it is done, and of each account that
  is touched on the way, whether the deletion gets through or fails half way.
  That one which fails leaves nobody behind does not hold (section 4).
* `KeystrokesStay`, `SelectionOfPerson`, `ExportsMatch`, `FiguresHonest`: what is
  typed, selected, exported and counted, while what it is based on is loading.
* `InstallsAsNamed`, `RoundsHonest`, `FateAsTold`, `AsAsked` (in
  `UpdatesHonest`): what a question named is what is done.
* `ListSettles`, `ShelfHonest`, `UpdatesHonest`: with nothing under way the
  lists show what the server has, unless it changed behind the page's back, and a
  console follows the run of what it stands beside.
* `AssignmentStays`: a save that did not touch the person undoes no assignment, but
  for one from a dialog opened right after its own save (section 4).
* `SameRule`: the rule the dashboard names is the one the server applies, over
  every set of rules that the page can make.  Both read the list they hold: a
  list that is out of date is not the property's matter.
* `ShelfHonest` says of the console that it is the open script's, not that it
  is of the script's newest run.

**Liveness and fairness.**  `FairSpec` assumes that the event loop runs
every coroutine that can go on (weak fairness of `RunDue` per coroutine), that
`asyncio.Lock` wakes its waiters in turn (strong fairness of `Acquire`), that
the cleanup loop ticks (`CleanupStep`; `while True` around a sleep, with every
exception caught) and that time passes (`Age`).  Nothing is assumed of agents,
users or sockets.  A statement or a send that hangs forever is therefore excluded
(it would keep the lock, and the code has no limit against it), one that raises
is not.  The channel's `FairSpec` assumes that the goroutines of the
agent are scheduled and `select` does not pass over a ready case forever, that a
command ends (its limit and its context see to that) and that receive loops and
requests run on.  Sockets, faults and users are free.  `LoopsReturn` and
`JobsReleased` are what the comments of `serve`, `readFrames` and `send` promise.

`MCFeeds` assumes that requests are answered or lost, timers fire, an outage
ends, the server's handlers go on from await to await (what is committed is
published, a socket that has read subscribes), React runs its effects and every
job ends (which `JobEnds` shows of the server).  Two assumptions are strong.  `ListArrives`: a refresh cuts off the fetch
under way, but hints are a gap apart and a user does not press the button
between any two answers forever.  `BootLeaves`: the effect runs in the commit
that renders `ready`, so accounts that come and go cannot overtake it forever.
`CatchesUp` is of a session that lasts, `EndIsTold` of a panel that stays on its
job, is not refused and has not subscribed too late for the end, `TabHandsOver` of any behaviour.

## 4. Findings

* **Two installs at once** (`two_installs`).  The direct route looks for a
  running install and inserts its job awaits later, without the lock.
* **Backup codes vanish** (`codes_vanish`).  `onOwnTotp` writes the cached list of
  accounts and cancels no load; one read before the confirmation arrives after
  it, the panel takes the second factor for off and clears the codes that are
  shown only once.
* **A reported end is swept away** (`late_report`).  `sweep_stale` updates by id
  what it selected before, so a job that reports in between goes from `done` to
  `timeout`, which `jobs.py` keeps for jobs that never reported.

Seen while modelling, allowed by the properties as stated, and worth a look (TLC shows the
first seven as soon as a property is stated without its exception):

* *Asked twice, queued twice.*  `create` looks for an open row and inserts one awaits
  later (`pending_actions.py:147`, `:171`); two who do so at once leave two rows where the
  module promises one.
* *The console's gap.*  Between the read of the row and the subscription
  (`routers/jobs.py:140`) a piece gets lost or, if it was committed before and
  published after, doubled; an end that is published there is never told, and the
  socket stays up, kept alive by pings.  `PanelFaithful` and `EndIsTold` leave out
  streams to which this happened (`torn`, `deaf`).
* *Another job's end.*  The panel is reset in a render and its socket replaced in an
  effect (`useJobStream.ts:52`); a `done` of the old job in between is told as the
  new one's, whose own end is then not told.  `PanelFaithful` leaves out the jobs it
  happened to (`misled`).
* *A save survives its session.*  What `saveWindow` puts into the query cache after
  sign-out (`AutomationPage.tsx:69`) is there for the next account of the tab; in
  `SessionIsOwn` it is what came `late`.
* *Results of somebody else's action.*  Trackers take the session when the run ends,
  not when it began (`toast.tsx:94`, `:160`), so after a change of account the jobs of
  the one before are followed and reported to the next; `JobsAccounted` leaves out
  the runs that were under way then (`astray`).
* *A saved owner is undone.*  After the dialog's own save the device's copy is only
  marked stale (`DevicePage.tsx:266`); opened again at once the dialog sends the old
  person with whatever else is changed.  The persons page guards against exactly
  this (`PersonDetail.tsx:111`).
* *Half a deletion.*  A person's deletion commits the person first
  (`routers/persons.py:109`) and then account by account; failing in between it leaves
  accounts of a person who is gone, and a second attempt is answered 404.
* *Backend.*  A cancelled action is sent when `run_due` has listed it before, and a
  widening of such a row is lost, for states are written by id alone.
  `_JobGate` expects an agent to report the rest of a job over the next socket,
  while the agent cancels its jobs with the connection.  `update_schedule` ignores `script_id`.
* *Signing in.*  The fields of step one stay open while the password is checked.
  A name edited meanwhile is the one the code step then names ("Das Konto … ist
  zusätzlich mit einem Code geschützt") and signs in, although the server asked
  for a code of the account before; so the comment "the password was accepted a
  step ago" (`loginError.ts:46`) need not be true of the password refused.
* *Alerts, audit, devices.*  With a stale total `AuditPage` alternates between two
  pages until an answer agrees; its placeholder says "nothing" before the first
  answer; `setParam` of the devices page builds on the rendered address and
  can drop a change on its way; tags are written as whole lists from a list that
  may be old.
* *Administration, persons.*  A late answer's `setDialog(null)` closes whichever
  dialog is open by then, and a failure after closing is told nowhere; a new
  person's account is unknown to the deletion's question until the accounts are
  loaded again; a device edited after its person's deletion is refused.
* *Automation, scripts.*  Saves of the patch window overlap and cancel no load, the
  Save buttons of both dialogs are not locked; a failed background load of the
  scripts unmounts an open editor; a late save closes another editor; a script
  that became destructive between load and confirmation runs without its name typed.
* *Updates of a device.*  `startedJob` is never reset: after an own install a run
  started elsewhere does not show and the buttons stay off until the tab is
  left, and going back to another device's tab carries console and question
  along; starting an install does not mark the updates stale; queueing before
  the first load joins that load, and the reload after a run may come before the
  agent's report.

## 5. Proofs

### 5.1 Action runner

`ActionRunnerProofs` and `ActionTablesProofs` are checked by TLAPS, for every
value of the constants that satisfies `BoundsAssumption`, `TasksAssumption` and
`WishesAssumption`: any number of sockets, requests, windows, rows, scans and
faults.  The assumptions say that the kinds of coroutines are disjoint
and that requests ask for installs or scripts.

| theorem | states |
|---|---|
| `TypeCorrect` | `Spec => []TypeOK` |
| `Invariant` | `Spec => []Inv`, with `Inv == TypeOK /\ SendInv` |
| `SendOnce` | `Spec => []NoDoubleSend` |
| `NoSecondInstall` | without the direct route, `Spec => [](OneInstall /\ InstallInv)` |
| `RestartWaits` | without the direct route, `Spec => NoRebootDuringInstall` |
| `JobsLive` | `Spec => LifeButLateSweep` |
| `JobsLiveInTime` | `Spec => FollowsJobLife`, if no job on the sweep's list reports |
| `Agreement` | `Spec => [](Inv /\ AgreeInv)` |
| `TablesStayTrue` | `Spec => []TablesAgree` |
| `RestartIsEarned` | `Spec => []RebootEarned` |

**The inductive invariant.**  `NoDoubleSend` speaks of finished sends only.
Why it holds is in what the coroutines carry between their awaits:

* `LockInv`: exactly the coroutine inside `run_due` holds the lock;
* `JobInv`: the job a coroutine is about to send or mark exists and belongs to
  the row it works on;
* `RowInv`: the rows still to do are different rows, and different from the
  current one;
* `SentInv`: a row sent since the last fault is not `pending`, except in the
  moment between the send and `mark_dispatched`, in which the lock is held; and
  nothing on the list of a coroutine has been sent.

With these the step `Send` adds a job for an action that has none sent in the
same epoch, and every other step leaves the sent jobs alone.  `Fault` starts a
new epoch.  `InstallInv` is the same idea for installs: from the look for a
running install to the INSERT, and for a restart to its send, there is no
active install, because nobody else inside `run_due` can create one; without
`Installs = {}` it is false.  `JobsLive` needs of `Inv` only that a job
named by a coroutine is in the table; `JobsLiveInTime` adds that the late sweep is
all that stands between the code and `JobLife`.

**The two tables.**  The code keeps `pending_actions` and `jobs` in step with no
transaction around both, so `TablesAgree` and `RebootEarned` rest on what is true
of each suspended coroutine (`AgreeInv`).  Its parts:

* `Unsent`, `OwnJobs`: a job between its INSERT and its send is sent by nobody
  else, and two direct installs do not share one;
* `Carries`: the rows `run_due` has read still have no job, until it writes one
  itself, and the job it is about to mark is of the row's kind;
* `DeliveredInv`: what an agent works on was sent, over this socket only, and is
  not over, unless a sweep has given it up;
* `Ends`: whoever carries the outcome `done` carries it of a job the agent has
  reported as done, and the wish for a restart of a row that was `asked` for one; whoever is about to put down a restart can name the install for it.

Each step is read as moves of a single job, row, delivery, list or coroutine
(`JobMove`, `RowMove`, `SendMove`, `EndMove`, ...); that moves keep `AgreeInv` is
proved once, and of each action only that it makes such moves.  Without `Inv`
(who holds the lock) `Carries` would not last a step.

### 5.2 The job channel

`JobChannelProofs` and `JobOutputProofs` prove of `JobChannel`, for any jobs, connections, dashboards,
amounts of output, requests and faults that satisfy `AgentAssumption` and
`ChannelAssumption`:

| theorem | states |
|---|---|
| `TypeCorrect` | `Spec => []TypeOK` |
| `Invariant` | `Spec => []Inv` |
| `ToldIsTrue` | `Spec => []ToldIsOver` |
| `ChannelLives` | `Spec => LifeButLateSweep` |
| `OutputInvariant` | `Spec => []OutInv` |
| `OutputOrdered` | `Spec => []OutputInOrder` |
| `DoneIsWhole` | `Spec => []FinishedWhole` |

`Inv` is about what a job may be named in.  A command for it is on its way only
once its request is over (`AgentInv`: `Begun \subseteq Sent`), reports about it
only once its goroutine has started, so a loop at work (`LoopInv`) names a job
with a row and says that it is over only after it has written so.  `RowInv` ties
the row to its request, `SweepInv` the rows a sweep has selected to ends it has
written, and `ViewInv` says that each queue and each snapshot that tells of an
end belongs to a job whose row has one, which no later write takes back.
Without the first of these the types fail (a result would name no row), and
without the last a `done` event of an older statement could be untrue.

`OutInv` is about the output, and rests on `Inv`.  Its centre is `ChainInv`: of a
job that is not over and whose receive loop has not ended, `k` pieces are
stored, the loop has those up to `l` in hand, the filter holds those up to `m`,
and what is on the wire and in the outbox (`Pipe`) goes on from `m`, to the last
piece written if the connection stands (`Run` counts along a queue).  A result in
the queue stands behind all pieces, so that a loop that is to finish the job has
all of them behind it (`Ending`).  The rest says why nothing else interferes: a
job reports over the connection it came over and is sent once (`WayInv`,
`FrameInv`), so a single loop writes its output; a closed loop's wire is empty
(`EndInv`); what `append_output` has read is still in the row when it writes
(`UpdateInv`), although its UPDATE does not check.  A loop that ends loses pieces,
but only the last ones, and after that the output is never written again
(`PrefixInv`).  `DoneInv` is `FinishedWhole` and that nobody is about to append.
Steps of the agent are shown to pass all pieces on (`Passed`), whatever the server
does; then each step of the server moves the boundary between two places.

### 5.3 The dashboard's core

For any accounts, slots, overlays, lists, outages, jobs and pieces that satisfy
`SignInAssumption`, `FeedAssumption` and `PanelAssumption`:

| theorem | states |
|---|---|
| `SignTypeCorrect`, `FeedTypeCorrect`, `PanelTypeCorrect` | the type invariants |
| `SignInvariant` | `SignSpec => []SignInv` |
| `NothingInherited` | `SignSpec => []SessionIsOwn` |
| `CodesGoRight` | `SignSpec => []CodesGoWhereNamed` |
| `NoHintLost` | `FeedSpec => []HintKept` |
| `PanelShowsItsJob` | `PanelSpec => []PanelFaithful` |
| `FeedParts`, `FeedsCorrect` | the same of `MCFeeds` (section 5.5) |

`SignInv` adds to the two properties what each request under way means: whose
cookie it carried, that a load belongs to the session that is there (leaving
one cancels the loads), that there is one login and one session check at a time,
and that while a sign-in is under way the form waits and, if it sent a code,
still stands where the code was typed.  `FeedInv` needs one conjunct of its own, that a
queued load has one before it.  `PanelInv` says that what is on the wire continues
what is shown, if the socket lost and doubled nothing when it subscribed
(`WireFollows`): with `n[i]` pieces shown once message `i` is in, a snapshot sets
the count, a piece is the next one, and the last count is what has been published
of the job, which is at most one change behind the table (`OneBehind`).  Ends on the
wire are those of the job the socket is for, and ends on the screen the panel's
own, unless a stray message put them there (`EndsTrue`).

### 5.4 The pages

For any devices, accounts, persons, alerts, scripts, rules, runs, slots and steps
that satisfy the assumption of the module (the constants are numbers, at least
one where a page or a batch of none would mean nothing):

| theorem | module | states | inductive invariant |
|---|---|---|---|
| `ExportsAreAsked` | `AuditView` | `AuditSpec => []ExportsMatch` | `AuditInv` |
| `ShelfIsHonest` | `ScriptShelf` | `ShelfSpec => []ShelfHonest` | `ShelfInv` |
| `RoundsAreHonest` | `AlertCenter` | `AlertSpec => []RoundsHonest` | `AlertInv` |
| `TypedStays` | `DeviceTable` | `DevSpec => []KeystrokesStay` | `DevInv` |
| `SelectionNarrowed` | `DeviceTable` | `DevSpec => SelectionOfPerson` | `DevInv` |
| `InstallsOnThese` | `PatchBoard` | `PatchSpec => []InstallsAsNamed` | `PatchInv` |
| `FiguresAreHonest` | `PatchBoard` | `PatchSpec => []FiguresHonest` | `BoardTypes` |
| `RuleIsTheServers` | `AutomationDesk` | `AutoSpec => []SameRule` | `AutoInv` |
| `UpdatesAreHonest` | `DeviceUpdates` | `UpdatesSpec => []UpdatesHonest` | `UpdInv` |
| `FateIsTold` | `PersonDesk` | `PersonSpec => FateAsTold` | `PersonInv` |
| `ListIsHonest` | `AccountDesk` | `DeskSpec => []ListSettles` | `DeskInv` |
| `DialogUndoesNothing` | `DeviceOwner` | `OwnerSpec => AssignmentStays` | `OwnerInv` |
| `DevicesAccounted` | `BulkJobs` | `BulkSpec => []JobsAccounted` | `BulkInv` |

**Lists that settle.**  `ListSettles`, `ShelfHonest` and `UpdatesHonest` say nothing
while anything is under way.  Their invariants say what each thing under way
still owes: unless a request waits whose answer will load the list anew
(`Awaiting`, `Unread`, `Changing`) or the list changed behind the page's back, a
load that has been answered carries what the server has, and with no load the
list itself does.  A load that was only asked owes nothing, as it will be read
later.  `AccountDesk` adds that a role shown before its answer is awaited until it
is answered or put back.  `UpdInv` says this per device, because the queries of a
device outlive its tab: what is kept is marked stale or failed (`RowKnown`,
`EndRead`), or it is true; and after the end of a run a timer is still to come,
or the updates were read since (`EndOf`).

**Questions.**  `InstallsAsNamed`, `RoundsHonest`, `FateAsTold` and `AsAsked` follow what was
named from the question to the last answer: `PatchInv`, `RoundTrue` (what a round
has seen acknowledged stays so, and the handoff of the focus belongs to the round
that set it), `InstallFor`, and `QuestionFine`: as long as nobody else touched an
account, what was told of it is what the list says, and the list says what the
server would do (`SaysRight`).  While a deletion goes from commit to commit, each
account is as it was read and told, or treated as told (`LoopFine`).

**Copies.**  `OwnerInv` is about devices whose changes neither overlapped nor got
lost (the others are outside the property): their copy is the server's unless a
change is served and not yet answered, a dialog in which nobody touched the person
holds the copy's, and whatever it sends names the owner, or somebody deleted, whom
the server refuses (`Harmless`).  `AuditInv` is the same idea for a cache: rows kept
under a question answer that question.

**Counting.**  `BulkInv` says that the devices a run has taken from its plan are in
exactly one of under way, done and failed, those of a tracker in exactly one of
waiting, polled and finished (`Parts`), and that neither plan nor queue names a
device twice; so no list of results depends on which worker was faster.  What is running
or followed for the session was asked for in it, unless its run saw a change of
account (`AskedStays`).
`FiguresHonest` is about every state of well-formed data, so its invariant is no
more than that; the argument is in the lemmas.  The devices of the four systems are
disjoint and make up the fleet (`FourWays`, by the cardinality of unions), and so
are their open updates; and of `n` devices `c` are 100 % rounded down only if `c = n`
(`WholeIsHundred`).

**Order.**  `SameRule` compares a stable sort with a maximum by age.  They agree
because every list of rules is oldest first, on the server and in every answer,
backup and cache of the page (`OrderedPlan`), and ids are given in ascending order
(`IdsGiven`).  `SelectionOfPerson` needs that sorting and cutting into pages
(`RowsFit`) bring in nothing that the filters left out.

Sets in a given order (`Shown`, `InTurn`) are chosen as the ascending function over
the set, since the library's sort is recursive.  That there is one (`SortedExists`)
is shown through a smallest counterexample: `LeastOf` says that every set of
naturals that is not empty has a least element, which follows from the well-foundedness
of `<` without an operator as parameter.

**What the proofs changed.**  `EndReloaded` once asked of the updates shown that they
were read after any run's end; of a run of another device that is false, as the
attempt to prove its invariant showed and TLC confirmed with two devices and two runs.
It is about a run of the device shown.
`PersonDesk` let a deleted person's id be given again, which the invariant
exposed and `persons.py:26` excludes.  `ScriptShelf` took away the back button while a question
is open and the choice of no device at all; the theorem covers both.
`PatchBoard` counts the open updates as the set of them, because what a fold adds up
takes an induction that the prover lacks.  Proving that the figures need both queries
showed cases that overlap, of which TLA+ says nothing and TLC takes the first: such a choice
is an `IF` now, here and in `AlertCenter`, `DeviceTable` and `SignIn`; that an error is
shown before a load (`PatchesPage.tsx:611`); and that the chips, the reset
and the header's scan do not wait for the summary.

### 5.5 Types of the pages, and the compositions

The runs check compositions, so what they check is proved of the compositions
(`PeopleProofs`, `MCPagesProofs`, `FeedProofs`), under the assumptions of all
the modules together:

| theorem | states |
|---|---|
| `PeopleParts` | `MCPeople!Spec => SignSpec /\ DeskSpec /\ OwnerSpec` |
| `PeopleTypeCorrect`, `PeopleCorrect` | `[]PeopleTypeOK` and every other property of `dash_people` |
| `PageParts` | `MCPages!Spec` implies the specification of each of the nine pages |
| `PagesTypeCorrect`, `PagesCorrect` | `[]PagesTypeOK` and every other property of `dash_pages` |
| `FeedParts`, `FeedsCorrect` | `MCFeeds!Spec => FeedSpec /\ PanelSpec /\ SignSpec`, and the safety properties of `dash_feeds` and `dash_console` |
| `DeskTypeCorrect`, `OwnerTypeCorrect`, `BulkTypeCorrect`, `ScriptTypeCorrect`, `AutoTypeCorrect`, `DevTypeCorrect`, `PatchTypeCorrect`, `AlertTypeCorrect`, `AuditTypeCorrect`, `PersonTypeCorrect`, `UpdatesTypeCorrect` | the type invariant of each part |

That a composition implies its parts is the argument for putting them next to
each other at all: a step of one is no step of the others, so what is proved of
a part alone is true of it there.  The `Parts` theorems say this, and the rest
follows from them and from what `mounted` and `about` may be.

Most types follow from the invariants above, which need them.  What those leave
out is an invariant of its own (`DevRest`, `PatchRest`, `AuditRest`, ...), with
one lemma per group of actions.  Some of these say more than the word type
suggests.  A page of the audit log has no more rows than the total that came with
it, and the pager stands on a page that the log could have, however the log grows
or is cut off at the old end while an answer is under way (`AnswerTyped`,
`PagerTyped`).  The list of views stays within its limit although a view is
added first and the oldest dropped afterwards (`SaveTyped`), and dropping the one
it replaces only makes it shorter (`OtherViewsTyped`).  What is selected on the
patches page is of the devices with agent, as nothing is selected that is not
shown (`ChooseRest`).  Yes is said only to a question about a device
(`ConsentStep`).

For these proofs two definitions were given a form that can be reasoned about:
the views that a save keeps (`OtherViews` in `DeviceTable`) by their
places, and the devices shown (`ShownIds` in `PatchBoard`) as the set
that the code keeps of them (`PatchesPage.tsx:346`), from which the rows are
sorted.  Two assumptions became explicit: the audit log and its pages hold
at least one entry (`AuditAssumption`), and the limit on views is a number
(`TableAssumption`).

### 5.6 Only model-checked

The liveness properties, which are beyond the prover (fairness and ENABLED).
What `SelectSeq`, a sort of the library or a fold returns, which takes induction
with an operator as parameter: no proof depends on it.  Everything else that
a passing run checks is stated by a theorem.

## 6. Not modelled

What is missing, in the order in which it would be worth adding:

1. Patch scan slots over daylight saving changes, the patch window and the
   schedules that are marked as run before they run (`patch_scan.py`,
   `automation.py:350`, `:566`): a crash in between skips devices for a week.
2. Enrollment tokens, deletion of a device with open sockets (`devices.py:317`,
   `:728`), the waiter for logs of which there is one per device (`agents_ws.py:30`).
3. The evaluation of alerts and failed pushes (`alerts.py:271`), the hub behind the
   fleet socket (`fleet_ws.py:49`), markers split over chunks (`job_secrets.py:246`),
   backup codes used once and the last administrator (`accounts.py`).
4. The MDM server's command queue and its views.
5. The agent's self-update (`update.go:65`), a scan that fails on the agent
   (`patches.go:38`).
6. Of the dashboard: the command palette, overview, enrollment dialog, the
   other tabs of a device, sessions and settings in the administration.

These are hazards too; `PROJECT.json` lists those that a property is about.

Beyond models of this kind: payloads, scripts, patch ids, notes; HTTP and roles
around the handlers; SQLite beyond "a helper call is atomic or raises"; layout,
wording and accessibility; deployment.  `PROJECT.json` says for every component
how far it is modelled.
