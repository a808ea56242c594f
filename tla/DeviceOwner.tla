----------------------------- MODULE DeviceOwner -----------------------------
(***************************************************************************)
(* Whose a device is: assigned and released on the persons page            *)
(* (pages/persons/PersonDetail.tsx), and saved with everything else in the *)
(* device page's edit dialog (pages/device/EditDeviceDialog.tsx).  The     *)
(* device page shows a copy of its own, which outlives it in the cache.    *)
(***************************************************************************)
EXTENDS Naturals, FiniteSets

CONSTANTS
    OwnedDevices,    \* how many devices there are
    Owners,          \* how many persons there are at first
    MaxOwnerCalls,   \* requests under way at once
    MaxOwnerMoves    \* changes begun by the user or made by others

ASSUME OwnerAssumption ==
    OwnedDevices \in Nat /\ Owners \in Nat \ {0} /\ MaxOwnerCalls \in Nat /\ MaxOwnerMoves \in Nat

VARIABLES
    owner,         \* server: per device, its person or 0
    ownersThere,   \* server: the persons not deleted
    fleetOwner,    \* the fleet's list: per device, its person
    fleetLoad,     \* its load
    copy,          \* the device page's copy: its person, NoCopy without one
    copyLoad,      \* the load of the open device
    openDevice,    \* the device page's device, 0 on the persons page
    dialog,        \* the edit dialog
    releasing,     \* the open question on a release: its device, or 0
    calls,         \* requests under way
    unsure,        \* history: devices whose changes overlapped, were not
                   \* answered, or were made by others
    saved,         \* history: devices saved by the dialog and not loaded since
    ownerMoves

ownerVars == <<owner, ownersThere, fleetOwner, fleetLoad, copy, copyLoad, openDevice, dialog, releasing,
               calls, unsure, saved, ownerMoves>>
ownServerVars == <<owner, ownersThere>>

-----------------------------------------------------------------------------
DeviceId == 1 .. OwnedDevices
OwnerId == 1 .. Owners
NoCopy == Owners + 1
NoOwnerLoad == [stage |-> "none", answer |-> 0]
NoFleetLoad == [stage |-> "none", answer |-> [d \in DeviceId |-> 0]]
FleetAsked == [NoFleetLoad EXCEPT !.stage = "asked"]
CopyLoading == [NoOwnerLoad EXCEPT !.stage = "asked"]
NoEditDialog == [open |-> FALSE, person |-> 0, touched |-> FALSE, afterSave |-> FALSE,
                 busy |-> FALSE, n |-> 0]
\* person: whose the device is to be, 0 for nobody's.  n tells two alike apart.
OwnerCall == [kind: {"assign", "release", "edit"}, device: DeviceId, person: 0 .. Owners, touched: BOOLEAN,
              afterSave: BOOLEAN, stage: {"sent", "done", "refused"}, n: 0 .. MaxOwnerMoves]

OwnerTypeOK ==
    /\ owner \in [DeviceId -> 0 .. Owners] /\ ownersThere \subseteq OwnerId
    /\ fleetOwner \in [DeviceId -> 0 .. Owners]
    /\ fleetLoad.stage \in {"none", "asked", "answered"} /\ fleetLoad.answer \in [DeviceId -> 0 .. Owners]
    /\ copy \in [DeviceId -> 0 .. NoCopy]
    /\ copyLoad \in [stage: {"none", "asked", "answered"}, answer: 0 .. Owners]
    /\ openDevice \in 0 .. OwnedDevices /\ releasing \in 0 .. OwnedDevices
    /\ dialog \in [open: BOOLEAN, person: 0 .. Owners, touched: BOOLEAN, afterSave: BOOLEAN,
                   busy: BOOLEAN, n: 0 .. MaxOwnerMoves]
    /\ calls \subseteq OwnerCall /\ unsure \subseteq DeviceId /\ saved \subseteq DeviceId

OwnerInit ==
    /\ owner = [d \in DeviceId |-> 1] /\ ownersThere = OwnerId
    /\ fleetOwner = owner /\ fleetLoad = NoFleetLoad
    /\ copy = [d \in DeviceId |-> NoCopy] /\ copyLoad = NoOwnerLoad /\ openDevice = 0
    /\ dialog = NoEditDialog /\ releasing = 0 /\ calls = {} /\ unsure = {} /\ saved = {} /\ ownerMoves = 0

OwnerMove == ownerMoves < MaxOwnerMoves /\ ownerMoves' = ownerMoves + 1

-----------------------------------------------------------------------------
(* The fleet's list, and the copy of the device that is open.              *)

FleetSteps ==
    /\ \/ fleetLoad.stage = "none" /\ fleetLoad' = FleetAsked /\ UNCHANGED fleetOwner
       \/ fleetLoad.stage = "asked" /\ fleetLoad' = [stage |-> "answered", answer |-> owner] /\ UNCHANGED fleetOwner
       \/ fleetLoad.stage = "answered" /\ fleetOwner' = fleetLoad.answer /\ fleetLoad' = NoFleetLoad
       \/ fleetLoad.stage # "none" /\ fleetLoad' = NoFleetLoad /\ UNCHANGED fleetOwner
    /\ UNCHANGED <<ownServerVars, copy, copyLoad, openDevice, dialog, releasing, calls, unsure, saved, ownerMoves>>

OpenPage(d) ==
    /\ openDevice = 0 /\ releasing = 0 /\ openDevice' = d
    /\ UNCHANGED <<ownServerVars, fleetOwner, fleetLoad, copy, copyLoad, dialog, releasing, calls, unsure, saved,
                   ownerMoves>>
\* Nobody reads the copy any more: its load is given up, the copy stays.
LeavePage ==
    /\ openDevice # 0 /\ openDevice' = 0 /\ copyLoad' = NoOwnerLoad /\ dialog' = NoEditDialog
    /\ UNCHANGED <<ownServerVars, fleetOwner, fleetLoad, copy, releasing, calls, unsure, saved, ownerMoves>>

\* Loaded when the page opens on an old copy, and every 15 seconds.
CopySteps ==
    /\ openDevice # 0
    /\ \/ copyLoad.stage = "none" /\ copyLoad' = CopyLoading /\ UNCHANGED <<copy, saved>>
       \/ /\ copyLoad.stage = "asked" /\ copyLoad' = [stage |-> "answered", answer |-> owner[openDevice]]
          /\ UNCHANGED <<copy, saved>>
       \/ /\ copyLoad.stage = "answered" /\ copy' = [copy EXCEPT ![openDevice] = copyLoad.answer]
          /\ copyLoad' = NoOwnerLoad /\ saved' = saved \ {openDevice}
       \/ copyLoad.stage # "none" /\ copyLoad' = NoOwnerLoad /\ UNCHANGED <<copy, saved>>
    /\ UNCHANGED <<ownServerVars, fleetOwner, fleetLoad, openDevice, dialog, releasing, calls, unsure, ownerMoves>>

\* invalidateQueries: loaded anew at once where the page is open.
Invalidates(d) == copyLoad' = IF openDevice = d THEN CopyLoading ELSE copyLoad

-----------------------------------------------------------------------------
(* The requests.                                                           *)

UnderWay(d) == {d} \cap {c.device : c \in calls}
Sends(k, d, p, touched, afterSave, n) ==
    /\ Cardinality(calls) < MaxOwnerCalls
    /\ calls' = calls \cup {[kind |-> k, device |-> d, person |-> p, touched |-> touched,
                             afterSave |-> afterSave, stage |-> "sent", n |-> n]}
    /\ unsure' = unsure \cup UnderWay(d)

\* AssignDialog offers what the list has elsewhere.
Assign(d, p) ==
    /\ OwnerMove /\ openDevice = 0 /\ releasing = 0 /\ fleetOwner[d] # p
    /\ Sends("assign", d, p, TRUE, FALSE, ownerMoves')
    /\ UNCHANGED <<ownServerVars, fleetOwner, fleetLoad, copy, copyLoad, openDevice, dialog, releasing, saved>>
\* "Lösen" asks first.
AskRelease(d) ==
    /\ OwnerMove /\ openDevice = 0 /\ releasing = 0 /\ fleetOwner[d] # 0 /\ releasing' = d
    /\ UNCHANGED <<ownServerVars, fleetOwner, fleetLoad, copy, copyLoad, openDevice, dialog, calls, unsure, saved>>
AnswerRelease(yes) ==
    /\ releasing # 0 /\ releasing' = 0
    /\ IF yes THEN Sends("release", releasing, 0, TRUE, FALSE, ownerMoves) ELSE UNCHANGED <<calls, unsure>>
    /\ UNCHANGED <<ownServerVars, fleetOwner, fleetLoad, copy, copyLoad, openDevice, dialog, saved, ownerMoves>>

\* The dialog starts from the copy, and sends its person whether it was
\* changed or not.
OpenDialog ==
    /\ OwnerMove /\ openDevice # 0 /\ copy[openDevice] # NoCopy /\ ~dialog.open
    /\ dialog' = [open |-> TRUE, person |-> copy[openDevice], touched |-> FALSE, afterSave |-> openDevice \in saved,
                busy |-> FALSE, n |-> ownerMoves']
    /\ unsure' = unsure \cup UnderWay(openDevice)
    /\ UNCHANGED <<ownServerVars, fleetOwner, fleetLoad, copy, copyLoad, openDevice, releasing, calls, saved>>
CloseDialog ==
    /\ dialog.open /\ dialog' = NoEditDialog
    /\ UNCHANGED <<ownServerVars, fleetOwner, fleetLoad, copy, copyLoad, openDevice, releasing, calls, unsure, saved,
                   ownerMoves>>
PickOwner(p) ==
    /\ dialog.open /\ dialog' = [dialog EXCEPT !.person = p, !.touched = TRUE]
    /\ UNCHANGED <<ownServerVars, fleetOwner, fleetLoad, copy, copyLoad, openDevice, releasing, calls, unsure, saved,
                   ownerMoves>>
\* Locked while its own request runs; closed and opened again, it is not.
SubmitDialog ==
    /\ dialog.open /\ ~dialog.busy /\ dialog' = [dialog EXCEPT !.busy = TRUE]
    /\ Sends("edit", openDevice, dialog.person, dialog.touched, dialog.afterSave, dialog.n)
    /\ UNCHANGED <<ownServerVars, fleetOwner, fleetLoad, copy, copyLoad, openDevice, releasing, saved, ownerMoves>>

\* PATCH /devices/{id}: a person who is gone is refused.
CallServed(c) ==
    /\ c.stage = "sent"
    /\ \/ /\ c.person \in ownersThere \cup {0} /\ owner' = [owner EXCEPT ![c.device] = c.person]
          /\ calls' = (calls \ {c}) \cup {[c EXCEPT !.stage = "done"]}
       \/ UNCHANGED owner /\ calls' = (calls \ {c}) \cup {[c EXCEPT !.stage = "refused"]}
    /\ UNCHANGED <<ownersThere, fleetOwner, fleetLoad, copy, copyLoad, openDevice, dialog, releasing, unsure, saved,
                   ownerMoves>>

\* deviceChanged: the answer goes into the device page's copy, or that page
\* would go on with the old person; then both are loaded anew.
DeviceOnlyMarked(c) ==
    /\ UNCHANGED copy /\ Invalidates(c.device) /\ fleetLoad' = FleetAsked
DeviceChanged(c) ==
    /\ copy' = [copy EXCEPT ![c.device] = IF @ = NoCopy THEN NoCopy ELSE c.person]
    /\ Invalidates(c.device) /\ fleetLoad' = FleetAsked

AssignDone(c) ==
    /\ c.stage = "done" /\ c.kind # "edit" /\ calls' = calls \ {c} /\ DeviceChanged(c)
    /\ saved' = saved \ {c.device}
    /\ UNCHANGED <<ownServerVars, fleetOwner, openDevice, dialog, releasing, unsure, ownerMoves>>
\* The dialog's: closes what is open by now, and loads both anew.
EditDone(c) ==
    /\ c.stage = "done" /\ c.kind = "edit" /\ calls' = calls \ {c} /\ dialog' = NoEditDialog
    /\ Invalidates(c.device) /\ fleetLoad' = FleetAsked /\ saved' = saved \cup {c.device}
    /\ UNCHANGED <<ownServerVars, fleetOwner, copy, openDevice, releasing, unsure, ownerMoves>>
\* Refused, or the answer lost: the change may or may not have been made.
CallFails(c) ==
    /\ c.stage \in {"done", "refused"} /\ calls' = calls \ {c}
    /\ unsure' = IF c.stage = "done" THEN unsure \cup {c.device} ELSE unsure
    /\ dialog' = IF c.kind = "edit" /\ dialog.n = c.n THEN [dialog EXCEPT !.busy = FALSE] ELSE dialog
    /\ UNCHANGED <<ownServerVars, fleetOwner, fleetLoad, copy, copyLoad, openDevice, releasing, saved, ownerMoves>>

\* Another technician assigns a device; a person is deleted, here or there.
OthersAssign(d, p) ==
    /\ OwnerMove /\ p \in ownersThere \ {owner[d]} /\ owner' = [owner EXCEPT ![d] = p] /\ unsure' = unsure \cup {d}
    /\ UNCHANGED <<ownersThere, fleetOwner, fleetLoad, copy, copyLoad, openDevice, dialog, releasing, calls, saved>>
PersonDeleted(p) ==
    /\ OwnerMove /\ p \in ownersThere /\ ownersThere' = ownersThere \ {p}
    /\ owner' = [d \in DeviceId |-> IF owner[d] = p THEN 0 ELSE owner[d]]
    /\ UNCHANGED <<fleetOwner, fleetLoad, copy, copyLoad, openDevice, dialog, releasing, calls, unsure, saved>>

OwnerNext ==
    \/ FleetSteps \/ LeavePage \/ CopySteps \/ OpenDialog \/ CloseDialog \/ SubmitDialog
    \/ \E yes \in BOOLEAN : AnswerRelease(yes)
    \/ \E d \in DeviceId : OpenPage(d) \/ AskRelease(d)
    \/ \E d \in DeviceId, p \in OwnerId : Assign(d, p) \/ OthersAssign(d, p)
    \/ \E p \in OwnerId \cup {0} : PickOwner(p)
    \/ \E p \in OwnerId : PersonDeleted(p)
    \/ \E c \in calls : CallServed(c) \/ AssignDone(c) \/ EditDone(c) \/ CallFails(c)

OwnerSpec == OwnerInit /\ [][OwnerNext]_ownerVars

-----------------------------------------------------------------------------
(* Properties.                                                             *)

\* A save of the dialog in which the person was not touched.
Passing(c) == c.kind = "edit" /\ ~c.touched /\ c.device \notin unsure
Undoes(c) == owner'[c.device] # owner[c.device] /\ c \in calls /\ c \notin calls' /\ c.stage = "sent"

\* "A fresh copy still holds the old person, and the device's edit dialog
\* would quietly undo the change with its next save" (deviceChanged): it
\* never undoes what was assigned or released on the persons page, a person's
\* deletion included.  A dialog opened right after its own save is apart: of
\* that only a mark reaches the copy (DevicePage.onSaved), and it does undo.
AssignmentStays ==
    [][\A c \in calls : Passing(c) /\ ~c.afterSave => ~Undoes(c)]_ownerVars
=============================================================================
