----------------------------- MODULE AccountDesk -----------------------------
(***************************************************************************)
(* The administration page: the list of accounts with roles changed in     *)
(* place, the other changes to an account, the dialogs that make and edit  *)
(* accounts, and the signed-in account's own second factor (pages/admin).  *)
(*                                                                         *)
(* The list is a cached query: a change of role writes to it before the    *)
(* server has answered, and a load may be under way at any time.           *)
(***************************************************************************)
EXTENDS Naturals, FiniteSets

CONSTANTS
    Accounts,     \* how many accounts there may ever be; the first is the signed-in one
    Existing,     \* how many there are at first
    Linked,       \* those of them linked to a person
    Calls,        \* how many requests for accounts may be under way
    MaxDeskMoves  \* steps of the admin and of others

ASSUME DeskAssumption ==
    Accounts \in Nat /\ Existing \in 1 .. Accounts /\ Calls \in Nat /\ MaxDeskMoves \in Nat

VARIABLES
    accounts,     \* server: role, second factor, disabled, linked; NoAccount once deleted
    made,         \* server: how many it has made, which are the ids used
    list,         \* the cached list, NoList before it has come
    listFetch,    \* its load: stage and the server's answer
    lastLoad,     \* "none", "ok", "failed"
    behind,       \* history: since the last answer, an account changed behind the page's
                  \* back: by others, or by a request whose answer was lost
    deskQuestion, \* the open confirmation: NoQuestion or what it asks
    deskForm,     \* the open dialog: NoForm, or what it edits and its own request
    deskCalls,    \* the requests for accounts under way
    busyRows,     \* the accounts whose row takes no change of role
    ownTotp,      \* what the panel reported, if it did
    factorMode,   \* the panel: "idle", "setup", "disable"
    factorCall,   \* its request: what it asks, and how far it is
    codes,        \* it shows backup codes
    afterDelete,  \* the account whose row hands its focus on when it is gone
    deskMoves

serverVars == <<accounts, made>>
listVars == <<list, listFetch, lastLoad>>
callVars == <<deskCalls, busyRows>>
factorVars == <<ownTotp, factorMode, factorCall, codes>>
deskVars == <<serverVars, listVars, behind, deskQuestion, deskForm, callVars, factorVars, afterDelete,
              deskMoves>>

-----------------------------------------------------------------------------
AccountId == 1 .. Accounts
DeskCall == 1 .. Calls
Self == 1
Role == {"viewer", "techniker", "admin"}
NoAccount == [role |-> "viewer", totp |-> FALSE, disabled |-> TRUE, linked |-> FALSE, there |-> FALSE]
AccountRow == [role: Role, totp: BOOLEAN, disabled: BOOLEAN, linked: BOOLEAN, there: BOOLEAN]
NoList == [a \in AccountId |-> NoAccount]
NoFetch == [stage |-> "none", answer |-> NoList]
Fetch == [stage |-> "asked", answer |-> NoList]
RowKind == {"totp", "disable", "enable", "delete"}
FormKind == {"create", "password", "email", "person"}
CallKind == {"none", "role"} \cup RowKind \cup FormKind
NoQuestion == [account |-> 0, kind |-> "none", role |-> "viewer", old |-> "viewer"]
NoForm == [account |-> 0, kind |-> "none", linked |-> FALSE, call |-> 0]
NoRequest == [account |-> 0, kind |-> "none", role |-> "viewer", old |-> "viewer", linked |-> FALSE,
           stage |-> "none"]
NoFactorCall == [kind |-> "idle", stage |-> "none"]

DeskTypeOK ==
    /\ accounts \in [AccountId -> AccountRow] /\ list \in [AccountId -> AccountRow]
    /\ made \in Existing .. Accounts /\ \A a \in AccountId : accounts[a].there => a <= made
    /\ listFetch \in [stage: {"none", "asked", "answered"}, answer: [AccountId -> AccountRow]]
    /\ lastLoad \in {"none", "ok", "failed"} /\ behind \in BOOLEAN
    /\ deskQuestion \in [account: AccountId \cup {0}, kind: CallKind, role: Role, old: Role]
    /\ deskForm \in [account: AccountId \cup {0}, kind: CallKind, linked: BOOLEAN, call: DeskCall \cup {0}]
    /\ deskCalls \in [DeskCall -> [account: AccountId \cup {0}, kind: CallKind, role: Role, old: Role,
                             linked: BOOLEAN, stage: {"none", "sent", "done", "refused", "loading"}]]
    /\ busyRows \subseteq AccountId
    /\ ownTotp \in {"unset", "on", "off"} /\ factorMode \in {"idle", "setup", "disable"}
    /\ factorCall \in [kind: {"idle", "secret", "setup", "disable"}, stage: {"none", "sent", "done", "refused"}]
    /\ codes \in BOOLEAN /\ afterDelete \in AccountId \cup {0}

DeskInit ==
    /\ accounts = [a \in AccountId |->
                       IF a > Existing THEN NoAccount
                       ELSE [role |-> IF a = Self THEN "admin" ELSE "viewer", totp |-> FALSE,
                             disabled |-> FALSE, linked |-> a \in Linked, there |-> TRUE]]
    /\ made = Existing
    /\ list = NoList /\ listFetch = Fetch /\ lastLoad = "none" /\ behind = FALSE
    /\ deskQuestion = NoQuestion /\ deskForm = NoForm /\ deskCalls = [c \in DeskCall |-> NoRequest] /\ busyRows = {}
    /\ ownTotp = "unset" /\ factorMode = "idle" /\ factorCall = NoFactorCall /\ codes = FALSE
    /\ afterDelete = 0 /\ deskMoves = 0

DeskMove == deskMoves < MaxDeskMoves /\ deskMoves' = deskMoves + 1
\* A confirmation and a dialog are modal.
PageFree == deskQuestion = NoQuestion /\ deskForm = NoForm

-----------------------------------------------------------------------------
(* What follows from the list.                                             *)

\* The second factor: the list's word, else the panel's, else the session's.
TotpOn(l, own) == IF l[Self].there THEN l[Self].totp ELSE own = "on"

\* The panel as it follows a second factor that changed under it: codes of a
\* removed one are dead, and a form for the old state is of no use.
PanelFollows(mode, shown) ==
    LET was == TotpOn(list, ownTotp)
        is  == TotpOn(list', ownTotp') IN
    /\ codes' = (shown /\ ~(was /\ ~is))
    /\ factorMode' = IF (mode = "disable" /\ was /\ ~is) \/ (mode = "setup" /\ ~was /\ is)
                       THEN "idle" ELSE mode

\* The focus moves on once the deleted row is gone.
FocusFollows(gone) == afterDelete' = IF gone # 0 /\ ~list'[gone].there THEN 0 ELSE gone

ListIs(l) ==
    /\ list' = l /\ UNCHANGED <<ownTotp, factorCall>>
    /\ PanelFollows(factorMode, codes) /\ FocusFollows(afterDelete)

\* invalidateQueries: what is under way is given up and asked again, except
\* the first load, which is joined.
Joins == list = NoList /\ listFetch # NoFetch
Reload == listFetch' = IF Joins THEN listFetch ELSE Fetch

-----------------------------------------------------------------------------
(* A request: asked, sent, served, over.                                   *)

FreeCall == {c \in DeskCall : deskCalls[c] = NoRequest}
SendCall(call) ==
    \E c \in FreeCall : (\A d \in FreeCall : c <= d) /\ deskCalls' = [deskCalls EXCEPT ![c] = call]

SeesNothing(a, r) == r = "viewer" /\ ~list[a].linked
\* roleChangeText: granting or taking admin, or leaving a viewer without sight.
AsksForRole(a, r) == r = "admin" \/ list[a].role = "admin" \/ SeesNothing(a, r)

RoleInList(a, r) == IF list[a].there THEN [list EXCEPT ![a].role = r] ELSE list

\* The list shows the new role at once; a load under way would bring the old
\* one back.
SendRole(a, r, old) ==
    /\ listFetch' = NoFetch
    /\ ListIs(RoleInList(a, r))
    /\ SendCall([NoRequest EXCEPT !.account = a, !.kind = "role", !.role = r, !.old = old, !.stage = "sent"])
    /\ busyRows' = busyRows \cup {a}

SendChange(a, k) ==
    /\ SendCall([NoRequest EXCEPT !.account = a, !.kind = k, !.stage = "sent"])
    /\ busyRows' = busyRows \cup {a} /\ afterDelete' = IF k = "delete" THEN a ELSE afterDelete
    /\ UNCHANGED <<list, listFetch, factorVars>>

\* The row's menu: the own account cannot be disabled or deleted, and only a
\* second factor there is can be reset.
InMenu(a, k) ==
    CASE k = "totp"    -> list[a].totp
      [] k = "enable"  -> list[a].disabled
      [] k = "disable" -> ~list[a].disabled /\ a # Self
      [] k = "delete"  -> a # Self
      [] k = "person"  -> list[a].role = "viewer" \/ list[a].linked
      [] OTHER         -> TRUE

\* The select of a row: an account that is busyRows takes no change of role.
ChangeRole(a, r) ==
    /\ DeskMove /\ PageFree /\ list[a].there /\ a \notin busyRows /\ a # Self /\ r # list[a].role
    /\ IF AsksForRole(a, r)
         THEN /\ deskQuestion' = [account |-> a, kind |-> "role", role |-> r, old |-> list[a].role]
              /\ UNCHANGED <<list, listFetch, callVars, factorVars, afterDelete>>
         ELSE SendRole(a, r, list[a].role) /\ UNCHANGED deskQuestion
    /\ UNCHANGED <<serverVars, lastLoad, behind, deskForm>>

\* Enabling an account asks nothing.
ChooseInMenu(a, k) ==
    /\ DeskMove /\ PageFree /\ list[a].there /\ InMenu(a, k)
    /\ IF k # "enable"
         THEN /\ deskQuestion' = [NoQuestion EXCEPT !.account = a, !.kind = k]
              /\ UNCHANGED <<list, listFetch, callVars, factorVars, afterDelete>>
         ELSE SendChange(a, k) /\ UNCHANGED deskQuestion
    /\ UNCHANGED <<serverVars, lastLoad, behind, deskForm>>

ConfirmChange ==
    /\ deskQuestion # NoQuestion /\ deskQuestion' = NoQuestion
    /\ LET q == deskQuestion IN
       IF q.kind = "role" THEN SendRole(q.account, q.role, q.old) ELSE SendChange(q.account, q.kind)
    /\ UNCHANGED <<serverVars, lastLoad, behind, deskForm, deskMoves>>
DeclineChange ==
    /\ deskQuestion # NoQuestion /\ deskQuestion' = NoQuestion
    /\ UNCHANGED <<serverVars, listVars, behind, deskForm, callVars, factorVars, afterDelete, deskMoves>>

\* The dialogs: a new account, and a password, an e-mail address or a person
\* for one there is.  What they edit is the account as it was in the list.
OpenForm(a, k) ==
    /\ DeskMove /\ PageFree
    /\ IF k = "create" THEN a = 0 ELSE a # 0 /\ list[a].there /\ InMenu(a, k)
    /\ deskForm' = [NoForm EXCEPT !.account = a, !.kind = k, !.linked = (k = "person" /\ list[a].linked)]
    /\ UNCHANGED <<serverVars, listVars, behind, deskQuestion, callVars, factorVars, afterDelete>>
\* Its request, if it has sent one, goes on.
CloseForm ==
    /\ deskForm # NoForm /\ deskForm' = NoForm
    /\ UNCHANGED <<serverVars, listVars, behind, deskQuestion, callVars, factorVars, afterDelete, deskMoves>>

\* draftReady: a new viewer has its person; create leaves any other role
\* without.
NewAccounts == {[NoRequest EXCEPT !.role = r, !.linked = (r = "viewer")] : r \in Role}
\* A person, or none for an account that had one.
PersonChoices(had) == {[NoRequest EXCEPT !.linked = p] : p \in {TRUE, ~had}}
Fillings ==
    CASE deskForm.kind = "create" -> NewAccounts
      [] deskForm.kind = "person" -> PersonChoices(deskForm.linked)
      [] OTHER                -> {NoRequest}
SubmitForm(filled) ==
    /\ deskForm # NoForm /\ deskForm.call = 0
    /\ SendCall([filled EXCEPT !.account = deskForm.account, !.kind = deskForm.kind, !.stage = "sent"])
    /\ deskForm' = [deskForm EXCEPT !.call = CHOOSE c \in FreeCall : \A d \in FreeCall : c <= d]
    /\ UNCHANGED <<serverVars, listVars, behind, deskQuestion, busyRows, factorVars, afterDelete, deskMoves>>

\* accounts_admin: the row as the request leaves it.
Changed(call) ==
    LET row == accounts[call.account] IN
    CASE call.kind = "role"    -> [row EXCEPT !.role = call.role]
      [] call.kind = "totp"    -> [row EXCEPT !.totp = FALSE]
      [] call.kind = "disable" -> [row EXCEPT !.disabled = TRUE]
      [] call.kind = "enable"  -> [row EXCEPT !.disabled = FALSE]
      [] call.kind = "person"  -> [row EXCEPT !.linked = call.linked]
      [] call.kind = "delete"  -> NoAccount
      [] OTHER                 -> row

\* It is done, or refused: for what it asks, or because the account is gone.
ChangeServed(c) ==
    /\ deskCalls[c].stage = "sent"
    /\ \/ /\ deskCalls[c].kind = "create" /\ made < Accounts /\ made' = made + 1
          /\ accounts' = [accounts EXCEPT ![made + 1] =
                 [NoAccount EXCEPT !.role = deskCalls[c].role, !.linked = deskCalls[c].linked,
                                   !.disabled = FALSE, !.there = TRUE]]
          /\ deskCalls' = [deskCalls EXCEPT ![c].stage = "done"]
       \/ /\ deskCalls[c].kind # "create" /\ accounts[deskCalls[c].account].there
          /\ accounts' = [accounts EXCEPT ![deskCalls[c].account] = Changed(deskCalls[c])]
          /\ deskCalls' = [deskCalls EXCEPT ![c].stage = "done"] /\ UNCHANGED made
       \/ UNCHANGED serverVars /\ deskCalls' = [deskCalls EXCEPT ![c].stage = "refused"]
    /\ UNCHANGED <<listVars, behind, deskQuestion, deskForm, busyRows, factorVars, afterDelete, deskMoves>>

\* What an answer, or "done" and the answer lost, does to the list.  A role
\* that was not changed is rolled back, and the list is loaded anew either
\* way; after the other changes only if they worked, and a password is not in
\* it.
ReloadsIfDone(call, ok) == IF ok /\ call.kind # "password" THEN Reload ELSE UNCHANGED listFetch
ReloadsAfter(call, ok) ==
    IF (ok /\ call.kind # "password") \/ call.kind = "role" THEN Reload ELSE UNCHANGED listFetch
BehindAfter(call, ok) ==
    IF ok THEN Joins ELSE call.stage = "done" /\ call.kind # "role"

\* The change of a row: but for a role it keeps the row busyRows until that load
\* has ended.
ChangeOver(c, ok) ==
    LET call == deskCalls[c]
        stays == ok /\ call.kind # "role" IN
    /\ call.kind \notin FormKind /\ call.stage \in {"done", "refused"} /\ (ok => call.stage = "done")
    /\ deskCalls' = [deskCalls EXCEPT ![c] = IF stays THEN [@ EXCEPT !.stage = "loading"] ELSE NoRequest]
    /\ busyRows' = IF stays THEN busyRows ELSE busyRows \ {call.account}
    /\ ReloadsAfter(call, ok) /\ behind' = (behind \/ BehindAfter(call, ok))
    /\ list' = IF call.kind = "role" /\ ~ok THEN RoleInList(call.account, call.old) ELSE list
    /\ UNCHANGED <<ownTotp, factorCall>> /\ PanelFollows(factorMode, codes)
    /\ afterDelete' = IF call.kind = "delete" /\ ~ok THEN 0 ELSE afterDelete
    /\ UNCHANGED <<serverVars, lastLoad, deskQuestion, deskForm, deskMoves>>
ChangeLoaded(c) ==
    /\ deskCalls[c].stage = "loading" /\ listFetch = NoFetch
    /\ deskCalls' = [deskCalls EXCEPT ![c] = NoRequest] /\ busyRows' = busyRows \ {deskCalls[c].account}
    /\ UNCHANGED <<serverVars, listVars, behind, deskQuestion, deskForm, factorVars, afterDelete, deskMoves>>

\* The request of a dialog: an answer closes the dialog, whichever is open by
\* then; a failure leaves its own as it is.
FormOver(c, ok) ==
    LET call == deskCalls[c] IN
    /\ call.kind \in FormKind /\ call.stage \in {"done", "refused"} /\ (ok => call.stage = "done")
    /\ deskCalls' = [deskCalls EXCEPT ![c] = NoRequest]
    /\ deskForm' = CASE ok -> NoForm [] ~ok /\ deskForm.call = c -> [deskForm EXCEPT !.call = 0] [] OTHER -> deskForm
    /\ ReloadsAfter(call, ok) /\ behind' = (behind \/ BehindAfter(call, ok))
    /\ UNCHANGED <<serverVars, list, lastLoad, deskQuestion, busyRows, factorVars, afterDelete, deskMoves>>

-----------------------------------------------------------------------------
(* The list's load: refetched on focus too.                                *)

LoadUnchanged == UNCHANGED <<serverVars, deskQuestion, deskForm, callVars, deskMoves>>

AccountsAsked ==
    /\ listFetch = NoFetch /\ listFetch' = Fetch
    /\ UNCHANGED <<list, lastLoad, behind, factorVars, afterDelete>> /\ LoadUnchanged
AccountsServed ==
    /\ listFetch.stage = "asked" /\ listFetch' = [stage |-> "answered", answer |-> accounts]
    /\ behind' = FALSE
    /\ UNCHANGED <<list, lastLoad, factorVars, afterDelete>> /\ LoadUnchanged
AccountsArrive ==
    /\ listFetch.stage = "answered" /\ listFetch' = NoFetch /\ lastLoad' = "ok"
    /\ ListIs(listFetch.answer)
    /\ UNCHANGED behind /\ LoadUnchanged
AccountsLost ==
    /\ listFetch # NoFetch /\ listFetch' = NoFetch /\ lastLoad' = "failed"
    /\ UNCHANGED <<list, behind, factorVars, afterDelete>> /\ LoadUnchanged

\* Another admin changes a role or deletes an account.
OtherAdmin(a) ==
    /\ DeskMove /\ accounts[a].there /\ a # Self /\ behind' = TRUE
    /\ \/ \E r \in Role \ {accounts[a].role} : accounts' = [accounts EXCEPT ![a].role = r]
       \/ accounts' = [accounts EXCEPT ![a] = NoAccount]
    /\ UNCHANGED <<made, listVars, deskQuestion, deskForm, callVars, factorVars, afterDelete>>

-----------------------------------------------------------------------------
(* TwoFactorPanel: set up with a secret and a code, off with a code.       *)

FactorUnchanged == UNCHANGED <<listVars, behind, deskQuestion, deskForm, callVars, afterDelete>>

\* "Einrichten" asks the server for a secret first and is locked while a
\* request runs; "Abschalten" opens its form.
OpenFactor ==
    LET on == TotpOn(list, ownTotp) IN
    /\ DeskMove /\ PageFree /\ factorMode = "idle" /\ (on \/ factorCall = NoFactorCall)
    /\ factorMode' = IF on THEN "disable" ELSE factorMode
    /\ factorCall' = IF on THEN factorCall ELSE [kind |-> "secret", stage |-> "sent"]
    /\ UNCHANGED <<serverVars, ownTotp, codes>> /\ FactorUnchanged
CloseFactor ==
    /\ PageFree /\ factorMode # "idle" /\ factorMode' = "idle"
    /\ UNCHANGED <<serverVars, ownTotp, factorCall, codes, deskMoves>> /\ FactorUnchanged

SubmitCode ==
    /\ PageFree /\ factorMode # "idle" /\ factorCall = NoFactorCall
    /\ factorCall' = [kind |-> factorMode, stage |-> "sent"]
    /\ UNCHANGED <<serverVars, ownTotp, factorMode, codes, deskMoves>> /\ FactorUnchanged

FactorServed ==
    /\ factorCall.stage = "sent"
    /\ \/ /\ accounts[Self].totp = (factorCall.kind = "disable")
          /\ accounts' = IF factorCall.kind = "secret" THEN accounts ELSE [accounts EXCEPT ![Self].totp = ~@]
          /\ factorCall' = [factorCall EXCEPT !.stage = "done"]
       \/ UNCHANGED accounts /\ factorCall' = [factorCall EXCEPT !.stage = "refused"]
    /\ UNCHANGED <<made, ownTotp, factorMode, codes, deskMoves>> /\ FactorUnchanged

\* The secret opens the form, whatever has happened since.
SecretComes ==
    /\ factorCall = [kind |-> "secret", stage |-> "done"]
    /\ factorCall' = NoFactorCall /\ factorMode' = "setup"
    /\ UNCHANGED <<serverVars, ownTotp, codes, deskMoves>> /\ FactorUnchanged

\* Whether its form is still open or not, the panel closes it, shows the
\* codes of a new second factor, and tells the list (onOwnTotp).
FactorDone ==
    LET on == factorCall.kind = "setup" IN
    /\ factorCall.kind # "secret" /\ factorCall.stage = "done" /\ factorCall' = NoFactorCall
    /\ ownTotp' = (IF on THEN "on" ELSE "off")
    /\ list' = IF list[Self].there THEN [list EXCEPT ![Self].totp = on] ELSE list
    /\ PanelFollows("idle", codes \/ on)
    /\ UNCHANGED <<serverVars, listFetch, lastLoad, behind, deskQuestion, deskForm, callVars, afterDelete, deskMoves>>

\* Refused, or lost on the way back.
FactorFails ==
    /\ factorCall.stage \in {"done", "refused"} /\ factorCall' = NoFactorCall
    /\ UNCHANGED <<serverVars, ownTotp, factorMode, codes, deskMoves>> /\ FactorUnchanged

\* "Gesichert".
CodesSaved ==
    /\ PageFree /\ codes /\ codes' = FALSE
    /\ UNCHANGED <<serverVars, ownTotp, factorMode, factorCall, deskMoves>> /\ FactorUnchanged

DeskNext ==
    \/ ConfirmChange \/ DeclineChange \/ CloseForm
    \/ AccountsAsked \/ AccountsServed \/ AccountsArrive \/ AccountsLost
    \/ OpenFactor \/ CloseFactor \/ SubmitCode \/ FactorServed \/ SecretComes \/ FactorDone
    \/ FactorFails \/ CodesSaved
    \/ \E filled \in Fillings : SubmitForm(filled)
    \/ \E k \in FormKind, a \in AccountId \cup {0} : OpenForm(a, k)
    \/ \E a \in AccountId :
          \/ \E r \in Role : ChangeRole(a, r)
          \/ \E k \in RowKind : ChooseInMenu(a, k)
          \/ OtherAdmin(a)
    \/ \E c \in DeskCall :
          \/ ChangeServed(c) \/ ChangeLoaded(c)
          \/ \E ok \in BOOLEAN : ChangeOver(c, ok) \/ FormOver(c, ok)

DeskSpec == DeskInit /\ [][DeskNext]_deskVars

-----------------------------------------------------------------------------
(* Properties.                                                             *)

Settled == listFetch = NoFetch /\ lastLoad = "ok" /\ ~behind /\ \A c \in DeskCall : deskCalls[c] = NoRequest

\* With nothing under way, the list shows every account as the server has it,
\* whatever became of the changes and dialogs and in whichever order they
\* were served and answered, unless it changed behind the page's back
\* (AdminPage: update, changeRole, remove, create).  Its own second factor is
\* CodesKept's.
ListSettles ==
    Settled => \A a \in AccountId : [list[a] EXCEPT !.totp = FALSE] = [accounts[a] EXCEPT !.totp = FALSE]

\* "The list says so at once" (onOwnTotp): the codes that are shown only now
\* stay until they are saved, or the second factor is removed.
CodesKept == [][codes /\ ~codes' => CodesSaved \/ ~accounts[Self].totp]_deskVars
=============================================================================
