------------------------------- MODULE SignIn -------------------------------
(***************************************************************************)
(* The session of one browser tab: useAuth with the login page, the        *)
(* requests of api/client.ts and what their answers do, the fleet query's  *)
(* first load, the overlays of App and the startup sequence.               *)
(*                                                                         *)
(* A request is a record in a slot: what it asks, whose cookie it carried  *)
(* and the server's answer, "none" until there is one.  Answers come in    *)
(* any order, or never ("down").  What was typed is abstracted to whom it  *)
(* belongs to and whether it is right.                                     *)
(***************************************************************************)
EXTENDS Naturals, FiniteSets

CONSTANTS
    Account,    \* accounts that sign in on this tab
    TwoFactor,  \* those with a second factor
    NoOne,      \* nobody
    Slots,      \* requests in flight at once
    MaxRefused, \* accounts that are reset or disabled meanwhile
    OverlayName \* the overlays looked at

ASSUME SignInAssumption ==
    /\ TwoFactor \subseteq Account /\ NoOne \notin Account /\ Slots \in Nat \ {0} /\ MaxRefused \in Nat
    \* App's palette and more sheet close on navigation, its enrollment dialog
    \* and shortcut list do not; one of each kind.
    /\ OverlayName \subseteq {"palette", "enroll"}

VARIABLES
    live,       \* server: accounts with a session that counts
    refused,    \* server: accounts reset or disabled
    cookie,     \* browser: whose session the cookie names
    status, user,  \* useAuth
    form,       \* LoginPage
    cached,     \* the query cache: whose data, and what put it there: a query, a
                \* save, or a save that was answered in another's session or in none
    loadFailed, \* did the fleet's first load end in an error?
    flight,     \* requests in flight
    overlays,   \* App's open overlays, with the account that opened them
    boot        \* BootSequence

server   == <<live, refused>>
session  == <<status, user, form, cached, loadFailed, overlays>>
signVars == <<server, cookie, session, flight, boot>>

-----------------------------------------------------------------------------
Slot == 1 .. Slots
Free == [kind |-> "free"]
Code == {"none", "right", "wrong"}
\* What stands in the two fields of step one.
Entry == {"empty", "wrong"} \cup Account

Request == [kind: {"me", "login", "logout", "load", "save"}, as: Account \cup {NoOne},
            who: Entry, code: Code, tries: 0 .. 2,
            answer: {"none", "ok", "401", "totp_required", "code_rejected", "429", "down"}]

BlankForm == [step |-> "credentials", entry |-> "empty", code |-> "none",
              busy |-> FALSE]
Overlay == [name: OverlayName, by: Account]

SignTypeOK ==
    /\ live \subseteq Account /\ refused \subseteq Account
    /\ cookie \in Account \cup {NoOne}
    /\ status \in {"loading", "authed", "anon"} /\ user \in Account \cup {NoOne}
    /\ form \in [step: {"credentials", "code"}, entry: Entry, code: Code, busy: BOOLEAN]
    /\ cached \subseteq [owner: Account, via: {"load", "save", "late"}]
    /\ loadFailed \in BOOLEAN
    /\ flight \in [Slot -> {Free} \cup Request]
    /\ overlays \subseteq Overlay
    /\ boot \in {"intro", "waiting", "leaving", "done"}

-----------------------------------------------------------------------------
InFlight(kind) == {s \in Slot : flight[s].kind = kind}
Sent(kind, who, code) ==
    [kind |-> kind, as |-> cookie, who |-> who, code |-> code, tries |-> 0, answer |-> "none"]
Put(f, r) == LET s == CHOOSE s \in Slot : f[s] = Free IN [f EXCEPT ![s] = r]
HasRoom == \E s \in Slot : flight[s] = Free

\* fleet.loading: the query is enabled and has neither data nor an error.
FleetLoadingUnlessData == user # NoOne /\ \A c \in cached : c.via # "load"
FleetLoading == user # NoOne /\ ~loadFailed /\ \A c \in cached : c.via # "load"
BootReady == status # "loading" /\ (status = "anon" \/ ~FleetLoading)

SignInit ==
    /\ live \in SUBSET Account /\ refused = {} /\ cookie \in Account \cup {NoOne}
    /\ status = "loading" /\ user = NoOne /\ form = BlankForm
    /\ cached = {} /\ loadFailed = FALSE
    /\ flight = [s \in Slot |-> IF s = 1 THEN Sent("me", "empty", "none") ELSE Free]
    /\ overlays = {}
    /\ boot = "intro"

-----------------------------------------------------------------------------
(* useAuth and App: who is signed in.                                      *)

\* App resets its overlays while rendering for another account than before.
SetUserKeeps(u) == user' = u /\ UNCHANGED overlays
SetUser(u) == user' = u /\ overlays' = IF u = user THEN overlays ELSE {}

\* BootSequence moves to another place in the tree once useAuth has an
\* answer, so React mounts it anew: what it knew of the intro is gone.
SetStatus(st) ==
    /\ status' = st
    /\ boot' = IF status = "loading" /\ st # "loading" /\ boot # "done" THEN "intro" ELSE boot

\* The login page is mounted while nobody is signed in.
MountLogin == form' = IF status = "anon" THEN form ELSE BlankForm

\* signedOut: the cache is cleared, which cancels the queries in flight.  What
\* put is written into it right after.
SignedOutThen(f, put) ==
    /\ cached' = put /\ loadFailed' = FALSE
    /\ flight' = [s \in Slot |-> IF f[s].kind = "load" THEN Free ELSE f[s]]
    /\ SetUser(NoOne) /\ SetStatus("anon")
SignedOut(f) == SignedOutThen(f, {})

SignedIn(u, f) ==
    /\ flight' = f /\ SetUser(u) /\ SetStatus("authed")
    /\ form' = BlankForm /\ UNCHANGED <<cached, loadFailed>>

-----------------------------------------------------------------------------
(* The login page.                                                         *)

\* The fields stay open while an answer is awaited; only what submits and what
\* leads back to step one wait for it.
TypeCredentials(e) ==
    /\ status = "anon" /\ form.step = "credentials" /\ form.entry # e
    /\ form' = [form EXCEPT !.entry = e]
    /\ UNCHANGED <<server, cookie, status, user, cached, loadFailed, flight, overlays, boot>>

TypeCode(c) ==
    /\ status = "anon" /\ form.step = "code" /\ form.code # c
    /\ form' = [form EXCEPT !.code = c]
    /\ UNCHANGED <<server, cookie, status, user, cached, loadFailed, flight, overlays, boot>>

\* What the page itself finds wrong it says without asking the server.
Filled ==
    IF form.step = "credentials" THEN form.entry # "empty" ELSE form.code # "none"

Submit ==
    /\ status = "anon" /\ ~form.busy /\ Filled /\ HasRoom
    /\ form' = [form EXCEPT !.busy = TRUE]
    /\ flight' = Put(flight, Sent("login", form.entry, IF form.step = "code" THEN form.code ELSE "none"))
    /\ UNCHANGED <<server, cookie, status, user, cached, loadFailed, overlays, boot>>

\* The step a sign-in was sent from, which is the only one to send a code.
StepOf(r) == IF r.code = "none" THEN "credentials" ELSE "code"

BackForm(f) == [f EXCEPT !.step = "credentials", !.code = "none"]

BackAnyway ==
    /\ status = "anon" /\ form.step = "code"
    /\ form' = BackForm(form)
    /\ UNCHANGED <<server, cookie, status, user, cached, loadFailed, flight, overlays, boot>>
Back ==
    /\ status = "anon" /\ ~form.busy /\ form.step = "code"
    /\ form' = BackForm(form)
    /\ UNCHANGED <<server, cookie, status, user, cached, loadFailed, flight, overlays, boot>>

\* Switching between app and backup code, which busy does not disable.
ToggleBackup ==
    /\ status = "anon" /\ form.step = "code"
    /\ form' = [form EXCEPT !.code = "none"]
    /\ UNCHANGED <<server, cookie, status, user, cached, loadFailed, flight, overlays, boot>>

\* describeLoginFailure: what the form should do about a refused sign-in.
FailureKind(answer, step) ==
    CASE answer = "totp_required" -> "second-factor"
      [] answer = "down"          -> "unreachable"
      [] answer = "429"           -> "throttled"
      [] OTHER                    -> IF step = "code" /\ answer = "code_rejected" THEN "code" ELSE "credentials"

AfterFailure(f, kind, step) ==
    CASE kind = "second-factor" -> [f EXCEPT !.code = "none", !.step = "code"]
      [] kind = "credentials"   -> IF step = "code" THEN BackForm(f) ELSE f
      [] kind = "code"          -> [f EXCEPT !.code = "none"]
      [] OTHER                  -> f

-----------------------------------------------------------------------------
(* Answers.  Every 401 of any request signs the tab out (client.fail).     *)

Unauthorized(answer) == answer \in {"401", "totp_required", "code_rejected"}
Done(s) == [flight EXCEPT ![s] = Free]
Arrived(s, kind) == flight[s].kind = kind /\ flight[s].answer # "none"

MeArrives(s) ==
    /\ Arrived(s, "me")
    /\ IF flight[s].answer = "ok"
         THEN SignedIn(flight[s].as, Done(s))
         ELSE /\ SetUser(NoOne) /\ SetStatus("anon") /\ MountLogin
              /\ flight' = Done(s) /\ UNCHANGED <<cached, loadFailed>>
    /\ UNCHANGED <<server, cookie>>

LoginArrives(s) ==
    /\ Arrived(s, "login")
    /\ LET r == flight[s]
           step == StepOf(r)
       IN
       IF r.answer = "ok"
         THEN SignedIn(r.who, Done(s)) /\ cookie' = r.who
         ELSE /\ form' = [AfterFailure(form, FailureKind(r.answer, step), step) EXCEPT !.busy = FALSE]
              /\ IF Unauthorized(r.answer)
                   THEN SignedOut(Done(s))
                   ELSE flight' = Done(s) /\ UNCHANGED <<status, user, cached, loadFailed, overlays, boot>>
              /\ UNCHANGED cookie
    /\ UNCHANGED server

\* logout: the tab is signed out whatever the answer is, and only then.
LogoutArrives(s) ==
    /\ Arrived(s, "logout")
    /\ SignedOut(Done(s)) /\ MountLogin
    /\ cookie' = IF flight[s].answer = "ok" THEN NoOne ELSE cookie
    /\ UNCHANGED server

\* The fleet's query: a 4xx is final, a network error is retried twice.
RetriedOnceMore(n) == n <= 2
Retried(n) == n < 2
LoadArrives(s) ==
    /\ Arrived(s, "load")
    /\ CASE flight[s].answer = "ok" ->
              /\ cached' = cached \cup {[owner |-> flight[s].as, via |-> "load"]}
              /\ loadFailed' = FALSE /\ flight' = Done(s)
              /\ UNCHANGED <<status, user, form, overlays, boot>>
         [] flight[s].answer = "401" -> SignedOut(Done(s)) /\ MountLogin
         [] OTHER ->
              /\ IF Retried(flight[s].tries)
                   THEN /\ flight' = [flight EXCEPT ![s] = [Sent("load", "empty", "none")
                                                       EXCEPT !.tries = flight[s].tries + 1]]
                        /\ UNCHANGED loadFailed
                   ELSE flight' = Done(s) /\ loadFailed' = TRUE
              /\ UNCHANGED <<status, user, form, cached, overlays, boot>>
    /\ UNCHANGED <<server, cookie>>

\* A page's mutation that puts what it has into the cache: NtfyPanel's save
\* the answer, AutomationPage's saveWindow the answer or, whatever refuses it,
\* what was there before.  Nothing cancels it.
Saved(r, u) == [owner |-> r.as, via |-> IF r.as = u THEN "save" ELSE "late"]

SaveArrives(s) ==
    /\ Arrived(s, "save")
    /\ \E puts \in BOOLEAN :
          /\ flight[s].answer = "ok" => puts
          /\ IF flight[s].answer = "401"
               THEN /\ SignedOutThen(Done(s), IF puts THEN {Saved(flight[s], NoOne)} ELSE {})
                    /\ MountLogin
               ELSE /\ cached' = IF puts THEN cached \cup {Saved(flight[s], user)} ELSE cached
                    /\ flight' = Done(s) /\ UNCHANGED <<status, user, form, loadFailed, overlays, boot>>
    /\ UNCHANGED <<server, cookie>>

-----------------------------------------------------------------------------
(* The signed-in shell.                                                    *)

Logout ==
    /\ user # NoOne /\ HasRoom
    /\ flight' = Put(flight, Sent("logout", "empty", "none"))
    /\ UNCHANGED <<server, cookie, session, boot>>

\* useFleet fetches nothing before a session exists.
Load ==
    /\ user # NoOne /\ InFlight("load") = {} /\ HasRoom
    /\ flight' = Put(flight, Sent("load", "empty", "none"))
    /\ UNCHANGED <<server, cookie, session, boot>>

\* On a page that has read what it saves; that reading is not looked at.
Save ==
    /\ user # NoOne /\ InFlight("save") = {} /\ HasRoom
    /\ flight' = Put(flight, Sent("save", "empty", "none"))
    /\ UNCHANGED <<server, cookie, session, boot>>

OpenOverlay(name) ==
    /\ user # NoOne
    /\ overlays' = overlays \cup {[name |-> name, by |-> user]}
    /\ UNCHANGED <<server, cookie, status, user, form, cached, loadFailed, flight, boot>>

CloseOverlay(name) ==
    /\ \E o \in overlays : o.name = name
    /\ overlays' = {o \in overlays : o.name # name}
    /\ UNCHANGED <<server, cookie, status, user, form, cached, loadFailed, flight, boot>>

\* Going to a page closes what must never hang over the new one.
GoPage ==
    /\ \E o \in overlays : o.name = "palette"
    /\ overlays' = {o \in overlays : o.name # "palette"}
    /\ UNCHANGED <<server, cookie, status, user, form, cached, loadFailed, flight, boot>>

-----------------------------------------------------------------------------
(* The startup sequence.                                                   *)

\* The intro is over, or a key, a click or the button skipped it.
IntroEnds ==
    /\ boot = "intro" /\ boot' = "waiting"
    /\ UNCHANGED <<server, cookie, session, flight>>

BootLeaves ==
    /\ boot = "waiting" /\ BootReady /\ boot' = "leaving"
    /\ UNCHANGED <<server, cookie, session, flight>>

BootEnds ==
    /\ boot = "leaving" /\ boot' = "done"
    /\ UNCHANGED <<server, cookie, session, flight>>

-----------------------------------------------------------------------------
(* The server (routers/auth.py) and the network.                           *)

LoginAnswer(r) ==
    IF r.who \notin Account \ refused THEN "401"
    ELSE IF r.who \in TwoFactor /\ r.code = "none" THEN "totp_required"
    ELSE IF r.who \in TwoFactor /\ r.code = "wrong" THEN "code_rejected" ELSE "ok"

Answer(s) ==
    /\ flight[s] # Free /\ flight[s].answer = "none"
    /\ LET r == flight[s] IN
       CASE r.kind = "login" ->
              \E a \in {LoginAnswer(r), "429"} :
                 /\ flight' = [flight EXCEPT ![s].answer = a]
                 /\ live' = IF a = "ok" THEN (live \ {r.as}) \cup {r.who} ELSE live
         [] r.kind = "logout" ->
              /\ flight' = [flight EXCEPT ![s].answer = "ok"] /\ live' = live \ {r.as}
         [] OTHER ->
              /\ flight' = [flight EXCEPT ![s].answer = IF r.as \in live THEN "ok" ELSE "401"]
              /\ UNCHANGED live
    /\ UNCHANGED <<refused, cookie, session, boot>>

\* The request, or the answer to it, is lost.
Lose(s) ==
    /\ flight[s] # Free /\ flight[s].answer # "down"
    /\ flight' = [flight EXCEPT ![s].answer = "down"]
    /\ UNCHANGED <<server, cookie, session, boot>>

\* A session runs out or is revoked; an account is disabled or reset.
Expire(a) ==
    /\ a \in live /\ live' = live \ {a}
    /\ UNCHANGED <<refused, cookie, session, flight, boot>>

Refuse(a) ==
    /\ a \notin refused /\ Cardinality(refused) < MaxRefused
    /\ refused' = refused \cup {a} /\ live' = live \ {a}
    /\ UNCHANGED <<cookie, session, flight, boot>>

-----------------------------------------------------------------------------
Arrive(s) == MeArrives(s) \/ LoginArrives(s) \/ LogoutArrives(s) \/ LoadArrives(s) \/ SaveArrives(s)

SignNext ==
    \/ \E e \in Entry : TypeCredentials(e)
    \/ \E c \in Code \ {"none"} : TypeCode(c)
    \/ Submit \/ Back \/ ToggleBackup
    \/ \E s \in Slot : Arrive(s) \/ Answer(s) \/ Lose(s)
    \/ Logout \/ Load \/ Save \/ GoPage
    \/ \E name \in OverlayName : OpenOverlay(name) \/ CloseOverlay(name)
    \/ IntroEnds \/ BootLeaves \/ BootEnds
    \/ \E a \in Account : Expire(a) \/ Refuse(a)

SignSpec == SignInit /\ [][SignNext]_signVars

-----------------------------------------------------------------------------
(* Properties.                                                             *)

\* No overlay outlives the session that opened it: not the enrollment
\* dialog of an administrator for the viewer who signs in next (App).
OverlaysAreOwn == \A o \in overlays : o.by = user

\* What is in the cache is the signed-in account's own: leaving a session
\* cancels its queries and forgets the rest, whatever answers come late.  Only
\* the save of one account that is answered after its session is not stopped
\* (useAuth.signedOut).
DataIsOwn == \A c \in cached : c.via # "late" => c.owner = user

\* Neither the dialogs of one account are there for the next, nor data that
\* queries or its own session's saves have brought.
SessionIsOwn == OverlaysAreOwn /\ DataIsOwn

\* A code goes to the server only with the account that the code step names,
\* though the fields stay open while answers are under way: one sign-in at a
\* time, nobody signed in meanwhile, the form waits and cannot go back to where
\* the account could be changed; and no code is left over from the code step
\* of another account (LoginPage.submit, back).
CodesGoWhereNamed ==
    /\ \A s \in InFlight("login") :
          /\ status = "anon" /\ form.busy /\ InFlight("login") = {s}
          /\ flight[s].code # "none" => form.step = "code" /\ flight[s].who = form.entry
    /\ form.step = "credentials" => form.code = "none"

\* Whatever becomes of the requests, the tab comes through: a form that has
\* been sent is usable again, and the startup sequence hands over; no lost
\* request, expired session or skipped animation leaves the fox on the screen
\* (LoginPage.submit, App, BootSequence).
FormComesBack == form.busy ~> ~form.busy
BootHandsOver == <>(boot = "done")
TabComesThrough == FormComesBack /\ BootHandsOver
=============================================================================
