------------------------------ MODULE PersonDesk ------------------------------
(***************************************************************************)
(* The persons page: the list, the open person as an entry of the          *)
(* browser's history, creating and editing a person, and deleting one      *)
(* together with the accounts linked to it (pages/persons); with what the  *)
(* server does to them (backend routers/persons.py).                       *)
(***************************************************************************)
EXTENDS Naturals, Sequences, FiniteSets, SequencesExt

CONSTANTS
    Persons,         \* how many persons there may be; the last is not made yet
    Attention,       \* those with a device that wants a look
    Deviceless,      \* those without a device
    PersonHits,      \* those the typed search finds
    PersonAccounts,  \* how many accounts there may be; the last is not made yet
    MaxPersonMoves   \* steps of the user and of others

ASSUME PersonAssumption == Persons \in Nat /\ Persons >= 2 /\ PersonAccounts \in Nat \ {0}

VARIABLES
    people,        \* server: the persons there are
    given,         \* server: the last id has been given, and no id is twice
    logins,        \* server: per account, its person and role
    personList,        \* the cached persons
    listedFetch,   \* their load
    known,         \* the cached accounts
    knownFetch,    \* their load
    behind,        \* history: an account was made or changed since `known' was
                   \* answered, and since the answer on its way
    visits,         \* the page's entries in the browser's history, the last is open
    pops,          \* steps back asked for and not yet taken
    stacked,       \* a narrow screen: the list or the person, not both
    narrow,        \* filter and search
    deletion,      \* the open question
    removal,       \* per person, its deletion
    clearing,      \* server: per person, how far delete_person is with it
    draft,         \* the dialog of a person: 0 is a new one
    saving,        \* its save
    created,       \* the dialog with the new login
    personMoves

personVars == <<people, given, logins, personList, listedFetch, known, knownFetch, behind, visits, pops, stacked, narrow,
                deletion, removal, clearing, draft, saving, created, personMoves>>
peopleVars == <<people, given, logins>>
cacheVars == <<personList, listedFetch, known, knownFetch, behind>>
wayVars == <<visits, pops, stacked, narrow>>
deleteVars == <<deletion, removal, clearing>>
draftVars == <<draft, saving, created>>

-----------------------------------------------------------------------------
PersonId == 1 .. Persons
LoginId == 1 .. PersonAccounts
Fate == {"deleted", "unlinked", "kept"}
Login == [person: 0 .. Persons, viewer: BOOLEAN, there: BOOLEAN]
NoLogin == [person |-> 0, viewer |-> TRUE, there |-> FALSE]
NoLogins == [a \in LoginId |-> NoLogin]
NotLoading == [stage |-> "none", answer |-> {}]
Loading == [stage |-> "asked", answer |-> {}]
NotAsking == [stage |-> "none", answer |-> NoLogins]
Asking == [stage |-> "asked", answer |-> NoLogins]
NotLoaded == [loaded |-> FALSE, rows |-> NoLogins]
\* An entry; fromList: pushed while no person was open.
Visit == [person: 0 .. Persons, fromList: BOOLEAN]
\* A deletion: what it was told to do, whether that was certain, and the
\* address the page had when it was asked.
Removal == [stage: {"none", "asked", "sent", "done", "refused"}, told: [LoginId -> Fate], sure: BOOLEAN,
            person: 0 .. Persons, at: Visit]
NoRemoval == [stage |-> "none", told |-> [a \in LoginId |-> "kept"], sure |-> FALSE, person |-> 0,
              at |-> [person |-> 0, fromList |-> FALSE]]
\* A person who is gone, and then the accounts that are still to be gone through.
NoClearing == [stage |-> "none", rows |-> NoLogins]
NoDraft == [open |-> FALSE, id |-> 0]
NoSaving == [stage |-> "none", id |-> 0, made |-> 0, login |-> FALSE, selected |-> 0]
NoLoginShown == [open |-> FALSE, copied |-> FALSE, asking |-> FALSE]

PersonTypeOK ==
    /\ people \subseteq PersonId /\ given \in BOOLEAN /\ logins \in [LoginId -> Login] /\ personList \subseteq PersonId
    /\ listedFetch \in [stage: {"none", "asked", "answered"}, answer: SUBSET PersonId]
    /\ known \in [loaded: BOOLEAN, rows: [LoginId -> Login]]
    /\ knownFetch.stage \in {"none", "asked", "answered"} /\ knownFetch.answer \in [LoginId -> Login]
    /\ behind \in [known: BOOLEAN, answer: BOOLEAN]
    /\ visits \in Seq(Visit) /\ pops \in Nat /\ stacked \in BOOLEAN
    /\ narrow \in [filter: {"alle", "befund", "ohne"}, typed: BOOLEAN]
    /\ deletion \in Removal /\ removal \in [PersonId -> Removal]
    /\ clearing \in [PersonId -> [stage: {"none", "gone", "loop"}, rows: [LoginId -> Login]]]
    /\ draft \in [open: BOOLEAN, id: 0 .. Persons]
    /\ saving \in [stage: {"none", "sent", "done", "refused"}, id: 0 .. Persons, made: 0 .. Persons,
                   login: BOOLEAN, selected: 0 .. Persons]
    /\ created \in [open: BOOLEAN, copied: BOOLEAN, asking: BOOLEAN]

\* The first person has every account there is; a person may be opened by a link.
PersonInit ==
    /\ people = 1 .. Persons - 1 /\ given = FALSE
    /\ logins = [a \in LoginId |-> IF a = PersonAccounts THEN NoLogin
                                   ELSE [person |-> 1, viewer |-> a > 1, there |-> TRUE]]
    /\ personList = {} /\ listedFetch = Loading /\ known = NotLoaded /\ knownFetch = Asking
    /\ behind = [known |-> FALSE, answer |-> FALSE]
    /\ \E p \in {0, 1} : visits = <<[person |-> p, fromList |-> FALSE]>>
    /\ pops = 0 /\ stacked \in BOOLEAN /\ narrow = [filter |-> "alle", typed |-> FALSE]
    /\ deletion = NoRemoval /\ removal = [p \in PersonId |-> NoRemoval]
    /\ clearing = [p \in PersonId |-> NoClearing]
    /\ draft = NoDraft /\ saving = NoSaving /\ created = NoLoginShown /\ personMoves = 0

-----------------------------------------------------------------------------
(* What the page shows.                                                    *)

Here == visits # <<>>
OpenPerson == Last(visits).person
\* matchesPerson.
Visible == {p \in personList : /\ narrow.filter = "befund" => p \in Attention
                               /\ narrow.filter = "ohne" => p \in Deviceless
                               /\ narrow.typed => p \in PersonHits}
Chosen == IF OpenPerson \in personList THEN OpenPerson ELSE 0
\* Side by side, the detail is never blank while the list shows someone.
ShownPerson ==
    IF Chosen # 0 THEN Chosen
    ELSE IF stacked \/ Visible = {} THEN 0 ELSE CHOOSE p \in Visible : \A o \in Visible : p <= o
ListShown == ~(stacked /\ Chosen # 0)
NoDialogOpen == deletion = NoRemoval /\ ~draft.open /\ ~created.open
PersonMove == Here /\ personMoves < MaxPersonMoves /\ personMoves' = personMoves + 1

-----------------------------------------------------------------------------
(* The way to a person and back.                                           *)

ReplaceLast(t, v) == [t EXCEPT ![Len(t)] = v]

\* select: an entry of its own, and it knows whether the list is before it.
Goes(p, selected) ==
    visits' = Append(visits, [person |-> p, fromList |-> selected = 0])

\* leaveDetail, with the address its caller last saw.
LeaveDetail(at) ==
    IF at.fromList THEN pops' = pops + 1 /\ UNCHANGED visits
                   ELSE visits' = ReplaceLast(visits, [person |-> 0, fromList |-> FALSE]) /\ UNCHANGED pops

SelectPerson(p) ==
    /\ PersonMove /\ NoDialogOpen /\ ListShown /\ p \in Visible /\ Goes(p, OpenPerson)
    /\ UNCHANGED <<peopleVars, cacheVars, pops, stacked, narrow, deleteVars, draftVars>>
\* "Alle Personen".
BackToList ==
    /\ PersonMove /\ NoDialogOpen /\ stacked /\ Chosen # 0 /\ LeaveDetail(Last(visits))
    /\ UNCHANGED <<peopleVars, cacheVars, stacked, narrow, deleteVars, draftVars>>
\* The step back that the page asked for.
StepsBack ==
    /\ Here /\ pops > 0 /\ pops' = pops - 1 /\ visits' = Front(visits)
    /\ UNCHANGED <<peopleVars, cacheVars, stacked, narrow, deleteVars, draftVars, personMoves>>
\* The browser's, which dialogs do not stop.
BrowserBack ==
    /\ PersonMove /\ visits' = Front(visits)
    /\ UNCHANGED <<peopleVars, cacheVars, pops, stacked, narrow, deleteVars, draftVars>>
\* The filter is put into the open entry, which loses its mark.
NarrowList ==
    /\ PersonMove /\ NoDialogOpen /\ ListShown
    /\ \/ \E f \in {"alle", "befund", "ohne"} :
             /\ narrow' = [narrow EXCEPT !.filter = f]
             /\ visits' = ReplaceLast(visits, [person |-> OpenPerson, fromList |-> FALSE])
       \/ narrow' = [narrow EXCEPT !.typed = ~@] /\ UNCHANGED visits
    /\ UNCHANGED <<peopleVars, cacheVars, pops, stacked, deleteVars, draftVars>>

-----------------------------------------------------------------------------
(* The two lists.                                                          *)

\* afterChange: both anew; what is under way is given up.
AfterChange == listedFetch' = Loading /\ knownFetch' = Asking

Fetches ==
    /\ Here
    /\ \/ listedFetch.stage = "none" /\ listedFetch' = Loading /\ UNCHANGED knownFetch
       \/ knownFetch.stage = "none" /\ knownFetch' = Asking /\ UNCHANGED listedFetch
    /\ UNCHANGED <<peopleVars, personList, known, behind, wayVars, deleteVars, draftVars, personMoves>>
ListsServed ==
    /\ \/ /\ listedFetch.stage = "asked" /\ listedFetch' = [stage |-> "answered", answer |-> people]
          /\ UNCHANGED <<knownFetch, behind>>
       \/ /\ knownFetch.stage = "asked" /\ knownFetch' = [stage |-> "answered", answer |-> logins]
          /\ behind' = [behind EXCEPT !.answer = FALSE] /\ UNCHANGED listedFetch
    /\ UNCHANGED <<peopleVars, personList, known, wayVars, deleteVars, draftVars, personMoves>>
ListedArrives ==
    /\ Here /\ listedFetch.stage = "answered" /\ personList' = listedFetch.answer /\ listedFetch' = NotLoading
    /\ UNCHANGED <<peopleVars, known, knownFetch, behind, wayVars, deleteVars, draftVars, personMoves>>
KnownArrives ==
    /\ Here /\ knownFetch.stage = "answered" /\ known' = [loaded |-> TRUE, rows |-> knownFetch.answer]
    /\ knownFetch' = NotAsking /\ behind' = [behind EXCEPT !.known = behind.answer]
    /\ UNCHANGED <<peopleVars, personList, listedFetch, wayVars, deleteVars, draftVars, personMoves>>
ListsLost ==
    /\ \/ listedFetch.stage # "none" /\ listedFetch' = NotLoading /\ UNCHANGED knownFetch
       \/ knownFetch.stage # "none" /\ knownFetch' = NotAsking /\ UNCHANGED listedFetch
    /\ UNCHANGED <<peopleVars, personList, known, behind, wayVars, deleteVars, draftVars, personMoves>>

\* What was said of the accounts is no longer certain.
AccountsMove ==
    /\ behind' = [known |-> TRUE, answer |-> TRUE]
    /\ deletion' = [deletion EXCEPT !.sure = FALSE]
    /\ removal' = [p \in PersonId |-> [removal[p] EXCEPT !.sure = FALSE]]

\* Another admin gives an account another role or person.
OtherAdminActs(a) ==
    /\ PersonMove /\ logins[a].there
    /\ \/ logins' = [logins EXCEPT ![a].viewer = ~@]
       \/ \E p \in (people \cup {0}) \ {logins[a].person} : logins' = [logins EXCEPT ![a].person = p]
    /\ AccountsMove
    /\ UNCHANGED <<people, given, personList, listedFetch, known, knownFetch, clearing, wayVars, draftVars>>

-----------------------------------------------------------------------------
(* Deleting a person.                                                      *)

\* accountsOf: every account linked to the person, not just the first.
FirstAccountOf(rows, p) ==
    {a \in LoginId : rows[a].there /\ rows[a].person = p
                        /\ \A b \in LoginId : rows[b].there /\ rows[b].person = p => a <= b}
AccountsOf(rows, p) == {a \in LoginId : rows[a].there /\ rows[a].person = p}
\* accountFate.
FateOf(rows, p, a) ==
    IF a \notin AccountsOf(rows, p) THEN "kept" ELSE IF rows[a].viewer THEN "deleted" ELSE "unlinked"

AskDeletion ==
    /\ PersonMove /\ NoDialogOpen /\ ShownPerson # 0
    /\ deletion' = [stage |-> "asked", told |-> [a \in LoginId |-> FateOf(known.rows, ShownPerson, a)],
                    sure |-> known.loaded /\ ~behind.known, person |-> ShownPerson, at |-> Last(visits)]
    /\ UNCHANGED <<peopleVars, cacheVars, wayVars, removal, clearing, draftVars>>
DeclineDeletion ==
    /\ Here /\ deletion.stage = "asked" /\ deletion' = NoRemoval
    /\ UNCHANGED <<peopleVars, cacheVars, wayVars, removal, clearing, draftVars, personMoves>>
ConfirmDeletion ==
    /\ Here /\ deletion.stage = "asked" /\ deletion' = NoRemoval /\ removal[deletion.person].stage = "none"
    /\ removal' = [removal EXCEPT ![deletion.person] = [deletion EXCEPT !.stage = "sent"]]
    /\ UNCHANGED <<peopleVars, cacheVars, wayVars, clearing, draftVars, personMoves>>

\* delete_person: the person first, and for good; a person who is gone is refused.
PersonDeleted(p) ==
    /\ removal[p].stage = "sent" /\ clearing[p].stage = "none"
    /\ \/ /\ p \in people /\ people' = people \ {p} /\ clearing' = [clearing EXCEPT ![p].stage = "gone"]
          /\ UNCHANGED removal
       \/ removal' = [removal EXCEPT ![p].stage = "refused"] /\ UNCHANGED <<people, clearing>>
    /\ UNCHANGED <<given, logins, cacheVars, wayVars, deletion, draftVars, personMoves>>
\* users_for_person, which is then gone through as it was read.
LinkedRead(p) ==
    /\ clearing[p].stage = "gone"
    /\ clearing' = [clearing EXCEPT ![p] = [stage |-> "loop",
          rows |-> [a \in LoginId |-> IF logins[a].there /\ logins[a].person = p THEN logins[a] ELSE NoLogin]]]
    /\ UNCHANGED <<peopleVars, cacheVars, wayVars, deletion, removal, draftVars, personMoves>>

\* A viewer has nothing left to see and goes along; any other account is only
\* unlinked.  Whoever the account was given to meanwhile, it goes all the same.
Left(p) == {a \in LoginId : clearing[p].rows[a].there}
AccountServed(p, a) ==
    /\ clearing[p].stage = "loop" /\ a \in Left(p) /\ \A b \in Left(p) : a <= b
    /\ clearing' = [clearing EXCEPT ![p].rows[a] = NoLogin]
    /\ logins' = [logins EXCEPT ![a] = IF ~logins[a].there \/ clearing[p].rows[a].viewer THEN NoLogin
                                       ELSE [logins[a] EXCEPT !.person = 0]]
    /\ IF logins[a].there /\ logins[a].person # p THEN AccountsMove ELSE UNCHANGED <<behind, deletion, removal>>
    /\ UNCHANGED <<people, given, personList, listedFetch, known, knownFetch, wayVars, draftVars, personMoves>>

\* The loop is through; or a statement raises or the server goes down on the
\* way, and nobody takes up what is left: asked again, the person is unknown.
DeletionServed(p) ==
    /\ clearing[p].stage # "none" /\ clearing' = [clearing EXCEPT ![p] = NoClearing]
    /\ \/ clearing[p].stage = "loop" /\ Left(p) = {} /\ removal' = [removal EXCEPT ![p].stage = "done"]
       \/ removal' = [removal EXCEPT ![p].stage = "refused"]
    /\ UNCHANGED <<peopleVars, cacheVars, wayVars, deletion, draftVars, personMoves>>

\* Gone from the list at once; the open person is left if it was the one
\* that was open when the question came up.
DeletionOver(p, ok) ==
    /\ Here /\ removal[p].stage \in {"done", "refused"} /\ (ok => removal[p].stage = "done")
    /\ removal' = [removal EXCEPT ![p] = NoRemoval]
    /\ IF ok
         THEN /\ personList' = personList \ {p} /\ AfterChange
              /\ IF removal[p].at.person = p THEN LeaveDetail(removal[p].at) ELSE UNCHANGED <<visits, pops>>
         ELSE UNCHANGED <<personList, listedFetch, knownFetch, visits, pops>>
    /\ UNCHANGED <<peopleVars, known, behind, stacked, narrow, deletion, clearing, draftVars, personMoves>>

-----------------------------------------------------------------------------
(* Creating and editing one.                                               *)

OpenDraft(id) ==
    /\ PersonMove /\ NoDialogOpen /\ (id = 0 \/ id = ShownPerson) /\ draft' = [open |-> TRUE, id |-> id]
    /\ UNCHANGED <<peopleVars, cacheVars, wayVars, deleteVars, saving, created>>
CloseDraft ==
    /\ Here /\ draft.open /\ draft' = NoDraft
    /\ UNCHANGED <<peopleVars, cacheVars, wayVars, deleteVars, saving, created, personMoves>>
\* The dialog is locked while its save runs; another one opened meanwhile is
\* not, but here one save runs at a time.
SaveDraft ==
    /\ Here /\ draft.open /\ saving = NoSaving
    /\ saving' = [NoSaving EXCEPT !.stage = "sent", !.id = draft.id, !.selected = OpenPerson]
    /\ UNCHANGED <<peopleVars, cacheVars, wayVars, deleteVars, draft, created, personMoves>>

\* A new person gets a viewer account where that works.
PersonSaved ==
    /\ saving.stage = "sent"
    /\ \/ /\ saving.id = 0 /\ ~given /\ given' = TRUE /\ people' = people \cup {Persons}
          /\ \E login \in BOOLEAN :
                /\ logins' = IF ~login THEN logins ELSE
                        [logins EXCEPT ![PersonAccounts] = [person |-> Persons, viewer |-> TRUE, there |-> TRUE]]
                /\ behind' = IF login THEN [known |-> TRUE, answer |-> TRUE] ELSE behind
                /\ saving' = [saving EXCEPT !.stage = "done", !.made = Persons, !.login = login]
       \/ /\ saving.id \in people /\ saving' = [saving EXCEPT !.stage = "done"] /\ UNCHANGED <<peopleVars, behind>>
       \/ saving' = [saving EXCEPT !.stage = "refused"] /\ UNCHANGED <<peopleVars, behind>>
    /\ UNCHANGED <<personList, listedFetch, known, knownFetch, wayVars, deleteVars, draft, created, personMoves>>

\* The new person joins the list at once and is opened, and its login shown;
\* a dialog open by then is closed.
SaveDone ==
    /\ Here /\ saving.stage = "done" /\ saving' = NoSaving /\ draft' = NoDraft /\ AfterChange
    /\ IF saving.made # 0
         THEN /\ personList' = personList \cup {saving.made} /\ Goes(saving.made, saving.selected)
              /\ created' = IF saving.login THEN [NoLoginShown EXCEPT !.open = TRUE] ELSE created
         ELSE UNCHANGED <<personList, visits, created>>
    /\ UNCHANGED <<peopleVars, known, behind, pops, stacked, narrow, deleteVars, personMoves>>
\* Refused, or lost: the dialog stays with what was typed.
SaveFails ==
    /\ Here /\ saving.stage \in {"done", "refused"} /\ saving' = NoSaving
    /\ UNCHANGED <<peopleVars, cacheVars, wayVars, deleteVars, draft, created, personMoves>>

\* CredentialsDialog: "Fertig" closes; in passing it asks until the login was
\* copied, and either answer ends the question.
LoginCopied ==
    /\ Here /\ created.open /\ ~created.asking /\ created' = [created EXCEPT !.copied = TRUE]
    /\ UNCHANGED <<peopleVars, cacheVars, wayVars, deleteVars, draft, saving, personMoves>>
LoginClosed(inPassing) ==
    /\ Here /\ created.open /\ ~created.asking
    /\ created' = IF inPassing /\ ~created.copied THEN [created EXCEPT !.asking = TRUE] ELSE NoLoginShown
    /\ UNCHANGED <<peopleVars, cacheVars, wayVars, deleteVars, draft, saving, personMoves>>
LoginGivenUp(yes) ==
    /\ Here /\ created.asking
    /\ created' = IF yes THEN NoLoginShown ELSE [created EXCEPT !.asking = FALSE]
    /\ UNCHANGED <<peopleVars, cacheVars, wayVars, deleteVars, draft, saving, personMoves>>

PersonNext ==
    \/ BackToList \/ StepsBack \/ BrowserBack \/ NarrowList \/ Fetches \/ ListsServed \/ ListedArrives
    \/ KnownArrives \/ ListsLost \/ AskDeletion \/ DeclineDeletion \/ ConfirmDeletion \/ CloseDraft \/ SaveDraft
    \/ PersonSaved \/ SaveDone \/ SaveFails \/ LoginCopied
    \/ \E a \in LoginId : OtherAdminActs(a)
    \/ \E p \in PersonId : SelectPerson(p) \/ \E ok \in BOOLEAN : DeletionOver(p, ok)
    \/ \E p \in PersonId : PersonDeleted(p) \/ LinkedRead(p) \/ DeletionServed(p)
    \/ \E p \in PersonId, a \in LoginId : AccountServed(p, a)
    \/ \E id \in PersonId \cup {0} : OpenDraft(id)
    \/ \E b \in BOOLEAN : LoginClosed(b) \/ LoginGivenUp(b)

PersonSpec == PersonInit /\ [][PersonNext]_personVars

-----------------------------------------------------------------------------
(* Properties.                                                             *)

\* What the question said of each account has been done when the deletion says
\* it is done; and each account that it touches on the way, also of a deletion
\* that fails half way and tells an error, is deleted or unlinked as was said.
\* If the list of accounts was there and none was made, changed or moved since
\* (accountsOf, accountFate against delete_person's commits one by one).
FateAsTold ==
    [][\A p \in PersonId : removal[p].sure =>
          \A a \in LoginId :
             /\ removal[p].stage = "sent" /\ removal'[p].stage = "done" =>
                   CASE removal[p].told[a] = "deleted"  -> ~logins[a].there
                     [] removal[p].told[a] = "unlinked" -> logins[a].there /\ logins[a].person = 0
                     [] removal[p].told[a] = "kept"     -> TRUE
             /\ clearing'[p] # clearing[p] /\ logins'[a] # logins[a] =>
                   removal[p].told[a] = (IF logins'[a].there THEN "unlinked" ELSE "deleted")]_personVars
=============================================================================
