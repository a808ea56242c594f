----------------------------- MODULE AlertCenter -----------------------------
(***************************************************************************)
(* The alert centre: tabs over the alerts, acknowledging one row or all    *)
(* that the filter shows, and what happens to the focus when a row leaves  *)
(* (pages/alerts); with the server's acknowledgement (backend alerts.ack). *)
(*                                                                         *)
(* A round is one click: a request per alert, and then the list anew.      *)
(***************************************************************************)
EXTENDS Naturals, Sequences, FiniteSets, SequencesExt

CONSTANTS
    Alerts,       \* how many alerts there are
    Critical,     \* those of devices in a critical state
    OfAnna,       \* those on devices of the one person
    MaxRounds,    \* rounds of this visit
    MaxAlertMoves \* steps of user and fleet

ASSUME AlertAssumption == Alerts \in Nat /\ MaxRounds \in Nat

VARIABLES
    alertState,   \* server: "none", "offen", "quittiert", "behoben"
    listed,       \* the list as last loaded
    listLoad,     \* "pending", "error", "success"
    view,         \* tab and person in the address
    named,        \* the alerts that the open confirmation names
    rounds,       \* of this visit
    handoff,      \* alerts whose leaving moves the focus on, and the round that set it
    needless,     \* history: sent though the list knew better
    report,       \* the last round's report
    alertMoves

alertVars == <<alertState, listed, listLoad, view, named, rounds, handoff,
               needless, report, alertMoves>>

-----------------------------------------------------------------------------
AlertId == 1 .. Alerts
Tab == {"offen", "quittiert", "behoben"}
AlertState == Tab \cup {"none"}
NoDialog == {}
NoHandoff == [round |-> 0, ids |-> {}]
\* stage: "sending" its requests, "loading" the list, "over".
AckRound == [sends: SUBSET AlertId, left: SUBSET AlertId, ok: SUBSET AlertId, gone: SUBSET AlertId,
             broken: SUBSET AlertId, asked: SUBSET AlertId, bulk: BOOLEAN,
             stage: {"sending", "loading", "over"}]

AlertTypeOK ==
    /\ alertState \in [AlertId -> AlertState]
    /\ listed \in [AlertId -> AlertState] /\ listLoad \in {"pending", "error", "success"}
    /\ view \in [tab: Tab, person: {"none", "anna"}]
    /\ named \subseteq AlertId /\ rounds \in Seq(AckRound)
    /\ handoff \in [round: 0 .. MaxRounds, ids: SUBSET AlertId]
    /\ needless \subseteq AlertId /\ report \in {"none", "success", "info", "error"}

AlertInit ==
    /\ alertState = [a \in AlertId |-> IF a = Alerts THEN "none" ELSE "offen"]
    /\ listed = [a \in AlertId |-> "none"] /\ listLoad = "pending"
    /\ view \in {[tab |-> "offen", person |-> p] : p \in {"none", "anna"}}
    /\ named = NoDialog /\ rounds = <<>> /\ handoff = NoHandoff /\ needless = {}
    /\ report = "none" /\ alertMoves = 0

-----------------------------------------------------------------------------
(* alertList.ts and what the page shows.                                   *)

Narrow(S) == IF view.person = "none" THEN S ELSE S \cap OfAnna
TabOf(a) == listed[a]

\* urgency, then the newest; among the resolved only the newest.
Urgency(a) == IF a \in Critical \/ TabOf(a) = "behoben" THEN 0 ELSE 2
MoreUrgent(a, b) == Urgency(a) < Urgency(b) \/ (Urgency(a) = Urgency(b) /\ a > b)
InTab == Narrow({a \in AlertId : TabOf(a) = view.tab})
ShownAlerts == SetToSortSeq(InTab, MoreUrgent)

\* The effect on rows and buttons: over when none of its rows is left.
Handoff(h) == IF h.ids \cap InTab' = {} THEN NoHandoff ELSE h

\* listState: an empty list means something only once one has arrived.
ListState ==
    IF listLoad = "success" \/ \E a \in AlertId : listed[a] # "none" THEN "ready"
    ELSE IF listLoad = "error" THEN "failed" ELSE "loading"

AlertView ==
    IF ListState # "ready" THEN ListState ELSE IF ShownAlerts = <<>> THEN "empty" ELSE "rows"

\* An alert's button is busy from its round's start to its end.
AckBusy == UNION {rounds[i].sends : i \in {j \in 1 .. Len(rounds) : rounds[j].stage # "over"}}
BulkRunning == \E i \in 1 .. Len(rounds) : rounds[i].bulk /\ rounds[i].stage # "over"

\* Of the alerts a confirmation named, the ones to send once it comes back.
AllNamed(S) == S
StillToAck(S) == {a \in S : TabOf(a) = "offen" /\ a \notin AckBusy}

AlertMove == alertMoves < MaxAlertMoves /\ alertMoves' = alertMoves + 1

-----------------------------------------------------------------------------
(* Tabs and the person.                                                    *)

ViewIs(v) ==
    /\ AlertMove /\ named = NoDialog /\ v # view /\ view' = v
    /\ UNCHANGED <<alertState, listed, listLoad, named, rounds, needless, report>>
    /\ handoff' = Handoff(handoff)

ChooseTab(t) == ViewIs([view EXCEPT !.tab = t])
ShowPerson(p) == ViewIs([view EXCEPT !.person = p])

-----------------------------------------------------------------------------
(* Acknowledging.                                                          *)

\* The focus is going to move on when the round's rows leave.
StartRound(S, asked, bulk) ==
    /\ Len(rounds) < MaxRounds
    /\ rounds' = Append(rounds, [sends |-> S, left |-> S, ok |-> {}, gone |-> {}, broken |-> {},
                                 asked |-> asked, bulk |-> bulk, stage |-> "sending"])
    /\ handoff' = IF S \cap InTab = {} THEN NoHandoff ELSE [round |-> Len(rounds'), ids |-> S]
    /\ needless' = needless \cup {a \in S : TabOf(a) # "offen" \/ a \in AckBusy}

AckRow(a) ==
    /\ AlertMove /\ named = NoDialog /\ view.tab = "offen" /\ AlertView = "rows"
    /\ a \in InTab \ AckBusy
    /\ StartRound({a}, {a}, FALSE)
    /\ UNCHANGED <<alertState, listed, listLoad, view, named, report>>

AckAll ==
    LET targets == StillToAck(InTab) IN
    /\ AlertMove /\ named = NoDialog /\ view.tab = "offen" /\ AlertView = "rows"
    /\ Cardinality(InTab) > 1 /\ ~BulkRunning /\ targets # {}
    /\ named' = targets
    /\ UNCHANGED <<alertState, listed, listLoad, view, rounds, handoff, needless, report>>

\* The dialog may have stood open across a poll, or across the end of a
\* row's own acknowledge.
ConfirmAll ==
    /\ named # NoDialog /\ named' = NoDialog
    /\ StartRound(StillToAck(named), named, TRUE)
    /\ UNCHANGED <<alertState, listed, listLoad, view, report, alertMoves>>

CancelAll ==
    /\ named # NoDialog /\ named' = NoDialog
    /\ UNCHANGED <<alertState, listed, listLoad, view, rounds, handoff, needless, report, alertMoves>>

\* alerts.ack: the first to acknowledge is on record, a repeat changes
\* nothing, a resolved alert is not found.
Ack(a) == alertState' = [alertState EXCEPT ![a] = "quittiert"]

AckServed(i, a) ==
    /\ a \in rounds[i].left
    /\ IF alertState[a] = "behoben"
         THEN /\ rounds' = [rounds EXCEPT ![i].left = @ \ {a}, ![i].gone = @ \cup {a}]
              /\ UNCHANGED alertState
         ELSE Ack(a) /\ rounds' = [rounds EXCEPT ![i].left = @ \ {a}, ![i].ok = @ \cup {a}]
    /\ UNCHANGED <<listed, listLoad, view, named, handoff, needless, report, alertMoves>>

\* Lost, on the way there or back, or refused.
AckFails(i, a) ==
    /\ a \in rounds[i].left /\ alertState[a] # "behoben"
    /\ rounds' = [rounds EXCEPT ![i].left = @ \ {a}, ![i].broken = @ \cup {a}]
    /\ Ack(a) \/ UNCHANGED alertState
    /\ UNCHANGED <<listed, listLoad, view, named, handoff, needless, report, alertMoves>>

AllSettled(i) ==
    /\ rounds[i].stage = "sending" /\ rounds[i].left = {}
    /\ rounds' = [rounds EXCEPT ![i].stage = "loading"]
    /\ UNCHANGED <<alertState, listed, listLoad, view, named, handoff, needless, report, alertMoves>>

\* What leaves the open list in a round's wake.
Leaving(r) == r.ok \cup r.gone

\* ackReport.
AckReport(r) == IF r.broken # {} THEN "error" ELSE IF r.ok = {} THEN "info" ELSE "success"

\* The list has come, or has failed to; the buttons are free again.  A newer
\* round owns the handoff.
RoundOver(i) ==
    LET r == rounds[i] IN
    /\ r.stage = "loading"
    /\ listed' \in {alertState, listed} /\ rounds' = [rounds EXCEPT ![i].stage = "over"]
    /\ UNCHANGED <<alertState, listLoad, view, named, needless, alertMoves>>
    /\ handoff' = Handoff(IF handoff.round = i THEN [round |-> i, ids |-> Leaving(r)] ELSE handoff)
    /\ report' = AckReport(r)

-----------------------------------------------------------------------------
(* What arrives, and what others do.                                       *)

AlertsLoad ==
    /\ listLoad' = "success" /\ listed' = alertState /\ <<listed, listLoad>>' # <<listed, listLoad>>
    /\ UNCHANGED <<alertState, view, named, rounds, needless, report, alertMoves>>
    /\ handoff' = Handoff(handoff)

AlertsFail ==
    /\ listLoad = "pending" /\ listLoad' = "error"
    /\ UNCHANGED <<alertState, listed, view, named, rounds, handoff, needless, report, alertMoves>>

\* It fires, a colleague acknowledges it, or its cause is gone.
AlertChanges(a) ==
    /\ AlertMove
    /\ \/ alertState[a] = "none" /\ alertState' = [alertState EXCEPT ![a] = "offen"]
       \/ alertState[a] = "offen" /\ Ack(a)
       \/ alertState[a] \in {"offen", "quittiert"} /\ alertState' = [alertState EXCEPT ![a] = "behoben"]
    /\ UNCHANGED <<listed, listLoad, view, named, rounds, handoff, needless, report>>

-----------------------------------------------------------------------------
AlertNext ==
    \/ \E t \in Tab : ChooseTab(t)
    \/ \E p \in {"none", "anna"} : ShowPerson(p)
    \/ AckAll \/ ConfirmAll \/ CancelAll \/ AlertsLoad \/ AlertsFail
    \/ \E a \in AlertId : AckRow(a) \/ AlertChanges(a)
    \/ \E i \in 1 .. Len(rounds) :
          AllSettled(i) \/ RoundOver(i) \/ \E a \in AlertId : AckServed(i, a) \/ AckFails(i, a)

AlertSpec == AlertInit /\ [][AlertNext]_alertVars

-----------------------------------------------------------------------------
(* Properties.                                                             *)

\* A confirmation acknowledges what it named and nothing else, and of that
\* nothing that this tab knows to be acknowledged, resolved or under way
\* (ackAll, stillToAck).
AcksAsNamed ==
    needless = {} /\ \A i \in 1 .. Len(rounds) : rounds[i].sends \subseteq rounds[i].asked

\* The handoff of the focus does not outlive its reason: with no round under
\* way it waits only for rows that are going to leave, never for one that
\* failed and stays ("armed forever", AlertsPage).
HandoffEnds == AckBusy = {} => \A a \in handoff.ids : alertState[a] # "offen"

\* Both: what overlapping rounds send, and what they leave behind.
RoundsHonest == AcksAsNamed /\ HandoffEnds
=============================================================================
