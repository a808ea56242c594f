---------------------------- MODULE PeopleProofs ----------------------------
(***************************************************************************)
(* Proofs about the people of the dashboard (MCPeople): types; that no     *)
(* session inherits what another one opened or loaded and codes go where   *)
(* they belong (SignIn); that the account list, once it has settled, is    *)
(* the server's (AccountDesk); that a dialog undoes no assignment          *)
(* (DeviceOwner); each for any accounts, devices, owners and requests in   *)
(* flight, and then all of them of the composition.                        *)
(***************************************************************************)
EXTENDS MCPeople, SequenceTheorems, FiniteSetTheorems, TLAPS

-----------------------------------------------------------------------------

\* Who is signed in, and whose cookie the browser holds then.
Session ==
    /\ user # NoOne <=> status = "authed"
    /\ status = "authed" => cookie = user

\* What a request in flight says of the tab (st, u, ck, f: status, user,
\* cookie, form).  Only authMe is under way before its answer; a sign-in is
\* under way only while its form waits for it; the queries belong to the
\* account that is signed in, and a mutation to one that was.
MeHolds(r, st, ck) ==
    r.kind = "me" => st = "loading" /\ r.as = ck /\ (r.answer = "ok" => r.as # NoOne)
LoginHolds(r, st, f) ==
    r.kind = "login" =>
        /\ st = "anon" /\ f.busy
        /\ r.code # "none" => f.step = "code" /\ f.entry = r.who
        /\ r.answer = "ok" => r.who \in Account
LoadHolds(r, u) == r.kind = "load" => u # NoOne /\ r.as = u
SaveHolds(r) == r.kind = "save" => r.as # NoOne
FirstIsMe(r, st) == st = "loading" => r.kind \in {"free", "me"}
Holds(r, st, u, ck, f) ==
    MeHolds(r, st, ck) /\ LoginHolds(r, st, f) /\ LoadHolds(r, u) /\ SaveHolds(r) /\ FirstIsMe(r, st)
Flights == \A s \in Slot : Holds(flight[s], status, user, cookie, form)

\* One authMe, one sign-in at a time.
OneOfEach ==
    \A s, t \in Slot : flight[s].kind = flight[t].kind /\ flight[s].kind \in {"me", "login"} => s = t

\* No code is typed where none is asked for.
CodeBlank == form.step = "credentials" => form.code = "none"

SignInv ==
    /\ SignTypeOK /\ Session /\ Flights /\ OneOfEach /\ CodeBlank
    /\ DataIsOwn /\ OverlaysAreOwn

-----------------------------------------------------------------------------
(* Types and requests.                                                     *)

Form == [step: {"credentials", "code"}, entry: Entry, code: Code, busy: BOOLEAN]
Answers == {"none", "ok", "401", "totp_required", "code_rejected", "429", "down"}
Boots == {"intro", "waiting", "leaving", "done"}
Statuses == {"loading", "authed", "anon"}

LEMMA FlightTyped ==
  ASSUME SignInv, NEW s \in Slot
  PROVE  /\ flight[s] \in {Free} \cup Request
         /\ flight[s].kind # "free" => flight[s] \in Request
         /\ flight[s] # Free => flight[s] \in Request
  BY DEF SignInv, SignTypeOK, Free

LEMMA FreeHolds ==
  ASSUME NEW st, NEW u, NEW ck, NEW f PROVE Holds(Free, st, u, ck, f) /\ Free.kind = "free"
  BY DEF Holds, MeHolds, LoginHolds, LoadHolds, SaveHolds, FirstIsMe, Free

LEMMA BlankTyped ==
  BlankForm \in Form /\ BlankForm.step = "credentials" /\ BlankForm.code = "none"
  BY DEF BlankForm, Form, Entry, Code

LEMMA BackTyped ==
  ASSUME NEW f \in Form
  PROVE  BackForm(f) \in Form /\ BackForm(f).code = "none"
  BY DEF BackForm, Form, Code

\* A request is put into a slot that is free.
LEMMA PutIntoFree ==
  ASSUME HasRoom, NEW r
  PROVE  \E s \in Slot : flight[s] = Free /\ Put(flight, r) = [flight EXCEPT ![s] = r]
<1>. DEFINE s == CHOOSE s \in Slot : flight[s] = Free
<1>1. s \in Slot /\ flight[s] = Free
  BY DEF HasRoom
<1>2. Put(flight, r) = [flight EXCEPT ![s] = r]
  BY DEF Put
<1>3. QED
  BY <1>1, <1>2

\* What is asked anew is a request, with the cookie of the moment.
LEMMA SentTyped ==
  ASSUME SignInv, NEW k \in {"me", "login", "logout", "load", "save"}, NEW w \in Entry, NEW c \in Code
  PROVE  /\ Sent(k, w, c) \in Request
         /\ Sent(k, w, c).kind = k /\ Sent(k, w, c).as = cookie /\ Sent(k, w, c).who = w
         /\ Sent(k, w, c).code = c /\ Sent(k, w, c).answer = "none"
  BY DEF Sent, Request, SignInv, SignTypeOK

-----------------------------------------------------------------------------
(* Steps that leave the session as it is.                                  *)

\* The form may change as long as a sign-in under way still fits it.
FormFits ==
    /\ form' \in Form /\ CodeBlank'
    /\ form.busy =>
          form'.busy /\ (form.step = "code" => form'.step = "code" /\ form'.entry = form.entry)

LEMMA HoldsStill ==
  ASSUME UNCHANGED <<status, user, cookie>>, FormFits \/ UNCHANGED form, NEW r,
         Holds(r, status, user, cookie, form)
  PROVE  Holds(r, status', user', cookie', form')
  BY DEF Holds, MeHolds, LoginHolds, LoadHolds, SaveHolds, FirstIsMe, FormFits

\* One slot is filled anew: with nothing, with a request that holds as the
\* one there did, or with one of a kind that is not under way.
LEMMA OneSlotChanges ==
  ASSUME SignInv, UNCHANGED <<status, user, cookie, cached>>,
         FormFits \/ UNCHANGED form,
         NEW s \in Slot, NEW r \in {Free} \cup Request, flight' = [flight EXCEPT ![s] = r],
         Holds(r, status', user', cookie', form'),
         r.kind \in {"me", "login"} =>
            r.kind = flight[s].kind \/ (\A t \in Slot : flight[t].kind # r.kind)
  PROVE  Flights' /\ OneOfEach' /\ flight' \in [Slot -> {Free} \cup Request]
<1>1. flight \in [Slot -> {Free} \cup Request]
  BY DEF SignInv, SignTypeOK
<1>2. flight'[s] = r /\ \A t \in Slot \ {s} : flight'[t] = flight[t]
  BY <1>1
<1>3. Flights'
  BY <1>2, HoldsStill DEF Flights, SignInv
<1>4. OneOfEach'
  BY <1>2 DEF OneOfEach, SignInv
<1>5. QED
  BY <1>1, <1>3, <1>4

\* The rest of the invariant when session, overlays and startup stay.
LEMMA RestStays ==
  ASSUME SignInv, UNCHANGED <<cookie, status, user, cached, overlays>>,
         loadFailed' \in BOOLEAN, live' \subseteq Account, refused' \subseteq Account, boot' \in Boots,
         FormFits \/ UNCHANGED form, Flights', OneOfEach', flight' \in [Slot -> {Free} \cup Request]
  PROVE  SignInv'
<1>1. SignTypeOK'
  BY DEF SignInv, SignTypeOK, FormFits, Form, Boots
<1>2. CodeBlank' /\ Session' /\ DataIsOwn' /\ OverlaysAreOwn'
  BY DEF SignInv, CodeBlank, FormFits, Session, DataIsOwn, OverlaysAreOwn
<1>3. QED
  BY <1>1, <1>2 DEF SignInv

\* Nothing in flight changes.
LEMMA OnlyForm ==
  ASSUME SignInv, FormFits, UNCHANGED <<server, cookie, status, user, cached, loadFailed, flight, overlays, boot>>
  PROVE  SignInv'
<1>1. Flights' /\ OneOfEach'
  BY HoldsStill DEF Flights, OneOfEach, SignInv
<1>2. QED
  BY <1>1, RestStays DEF SignInv, SignTypeOK, server, Boots

LEMMA OnlyBoot ==
  ASSUME SignInv, boot' \in Boots, live' \subseteq Account, refused' \subseteq Account,
         UNCHANGED <<cookie, session, flight>>
  PROVE  SignInv'
<1>1. Flights' /\ OneOfEach'
  BY DEF Flights, OneOfEach, SignInv, session
<1>2. QED
  BY <1>1, RestStays DEF SignInv, SignTypeOK, session

LEMMA OnlyOverlays ==
  ASSUME SignInv, overlays' \subseteq Overlay, OverlaysAreOwn',
         UNCHANGED <<server, cookie, status, user, form, cached, loadFailed, flight, boot>>
  PROVE  SignInv'
<1>1. Flights' /\ OneOfEach' /\ CodeBlank' /\ Session' /\ DataIsOwn'
  BY DEF Flights, OneOfEach, CodeBlank, Session, DataIsOwn, SignInv
<1>2. SignTypeOK'
  BY DEF SignInv, SignTypeOK, server
<1>3. QED
  BY <1>1, <1>2 DEF SignInv

-----------------------------------------------------------------------------
(* The user's steps.                                                       *)

LEMMA FormTyped == ASSUME SignInv PROVE form \in Form /\ cookie \in Account \cup {NoOne}
  BY DEF SignInv, SignTypeOK, Form

LEMMA TypeCredentialsKeeps ==
  ASSUME SignInv, NEW e \in Entry, TypeCredentials(e) PROVE SignInv'
<1>1. FormFits
  BY FormTyped DEF TypeCredentials, FormFits, Form, CodeBlank, SignInv
<1>2. QED
  BY <1>1, OnlyForm DEF TypeCredentials

LEMMA TypeCodeKeeps ==
  ASSUME SignInv, NEW c \in Code, TypeCode(c) PROVE SignInv'
<1>1. FormFits
  BY FormTyped DEF TypeCode, FormFits, Form, CodeBlank, SignInv
<1>2. QED
  BY <1>1, OnlyForm DEF TypeCode

LEMMA BackKeeps ==
  ASSUME SignInv, Back PROVE SignInv'
<1>1. FormFits
  BY FormTyped, BackTyped DEF Back, FormFits, CodeBlank
<1>2. QED
  BY <1>1, OnlyForm DEF Back

LEMMA ToggleBackupKeeps ==
  ASSUME SignInv, ToggleBackup PROVE SignInv'
<1>1. FormFits
  BY FormTyped DEF ToggleBackup, FormFits, Form, Code, CodeBlank, SignInv
<1>2. QED
  BY <1>1, OnlyForm DEF ToggleBackup

\* The form locks itself with its request: no second one is under way, and
\* the one there is fits it.
LEMMA SubmitKeeps ==
  ASSUME SignInv, Submit PROVE SignInv'
<1>. DEFINE c == IF form.step = "code" THEN form.code ELSE "none"
            r == Sent("login", form.entry, c)
<1>1. form.entry \in Entry /\ c \in Code /\ form \in Form
  BY FormTyped DEF Form, Code
<1>2. FormFits /\ form' = [form EXCEPT !.busy = TRUE]
  BY <1>1 DEF Submit, FormFits, Form, CodeBlank, SignInv
<1>3. r \in Request /\ r.kind = "login" /\ r.who = form.entry /\ r.code = c /\ r.answer = "none"
  BY <1>1, SentTyped
<1>. HIDE DEF r
<1>4. PICK s \in Slot : flight[s] = Free /\ flight' = [flight EXCEPT ![s] = r]
  BY PutIntoFree DEF Submit, r
<1>5. UNCHANGED <<server, cookie, status, user, cached, loadFailed, overlays, boot>> /\ status = "anon" /\ ~form.busy
  BY DEF Submit
<1>6. form'.busy /\ form'.entry = form.entry /\ form'.step = form.step
      /\ (c # "none" => form.step = "code")
  BY <1>1, <1>2 DEF Form
<1>7. Holds(r, status', user', cookie', form')
  BY <1>3, <1>5, <1>6 DEF Holds, MeHolds, LoginHolds, LoadHolds, SaveHolds, FirstIsMe
<1>8. \A t \in Slot : flight[t].kind # "login"
  BY <1>5 DEF SignInv, Flights, Holds, LoginHolds
<1>9. Flights' /\ OneOfEach' /\ flight' \in [Slot -> {Free} \cup Request]
  BY <1>2, <1>3, <1>4, <1>5, <1>7, <1>8, OneSlotChanges
<1>10. QED
  BY <1>2, <1>5, <1>9, RestStays DEF SignInv, SignTypeOK, server, Boots

\* Requests of the shell: a sign-out, the fleet's load, a mutation.
LEMMA ShellKeeps ==
  ASSUME SignInv, Logout \/ Load \/ Save PROVE SignInv'
<1>1. PICK k \in {"logout", "load", "save"} :
         /\ user # NoOne /\ HasRoom /\ flight' = Put(flight, Sent(k, "empty", "none"))
         /\ UNCHANGED <<server, cookie, session, boot>>
  BY DEF Logout, Load, Save
<1>. DEFINE r == Sent(k, "empty", "none")
<1>2. r \in Request /\ r.kind = k /\ r.as = cookie
  BY SentTyped DEF Entry, Code
<1>. HIDE DEF r
<1>3. PICK s \in Slot : flight' = [flight EXCEPT ![s] = r]
  BY <1>1, PutIntoFree DEF r
<1>4. cookie = user /\ status = "authed"
  BY <1>1 DEF SignInv, Session
<1>5. Holds(r, status', user', cookie', form')
  BY <1>1, <1>2, <1>4 DEF Holds, MeHolds, LoginHolds, LoadHolds, SaveHolds, FirstIsMe, session
<1>6. Flights' /\ OneOfEach' /\ flight' \in [Slot -> {Free} \cup Request]
  BY <1>1, <1>2, <1>3, <1>5, OneSlotChanges DEF session
<1>7. QED
  BY <1>1, <1>6, RestStays DEF SignInv, SignTypeOK, server, session, Boots

LEMMA OverlayKeeps ==
  ASSUME SignInv, GoPage \/ \E name \in OverlayName : OpenOverlay(name) \/ CloseOverlay(name)
  PROVE  SignInv'
<1>1. CASE GoPage \/ \E name \in OverlayName : CloseOverlay(name)
  <2>1. overlays' \subseteq overlays
        /\ UNCHANGED <<server, cookie, status, user, form, cached, loadFailed, flight, boot>>
    BY <1>1 DEF GoPage, CloseOverlay
  <2>2. QED
    BY <2>1, OnlyOverlays DEF SignInv, SignTypeOK, OverlaysAreOwn
<1>2. ASSUME NEW name \in OverlayName, OpenOverlay(name) PROVE SignInv'
  <2>1. [name |-> name, by |-> user] \in Overlay
    BY <1>2 DEF OpenOverlay, Overlay, SignInv, SignTypeOK
  <2>2. overlays' \subseteq Overlay /\ OverlaysAreOwn'
    BY <1>2, <2>1 DEF OpenOverlay, SignInv, SignTypeOK, OverlaysAreOwn
  <2>3. QED
    BY <1>2, <2>2, OnlyOverlays DEF OpenOverlay
<1>3. QED
  BY <1>1, <1>2

-----------------------------------------------------------------------------
(* The server and the network.                                             *)

\* An answer is written on a request; one that says who signs in says it of
\* an account.
LEMMA AnswerWritten ==
  ASSUME SignInv, NEW s \in Slot, flight[s] # Free, NEW a \in Answers,
         flight' = [flight EXCEPT ![s].answer = a], UNCHANGED <<refused, cookie, session, boot>>,
         live' \subseteq Account,
         a = "ok" /\ flight[s].kind = "me" => flight[s].as # NoOne,
         a = "ok" /\ flight[s].kind = "login" => flight[s].who \in Account
  PROVE  SignInv'
<1>. DEFINE r == [flight[s] EXCEPT !.answer = a]
<1>1. flight[s] \in Request
  BY FlightTyped
<1>2. r \in Request /\ r.kind = flight[s].kind /\ r.as = flight[s].as /\ r.who = flight[s].who
      /\ r.code = flight[s].code /\ r.answer = a
  BY <1>1 DEF Request, Answers
<1>3. flight' = [flight EXCEPT ![s] = r]
  BY DEF SignInv, SignTypeOK
<1>. HIDE DEF r
<1>4. Holds(flight[s], status, user, cookie, form)
  BY DEF SignInv, Flights
<1>5. Holds(r, status', user', cookie', form')
  BY <1>2, <1>4 DEF Holds, MeHolds, LoginHolds, LoadHolds, SaveHolds, FirstIsMe, session
<1>6. Flights' /\ OneOfEach' /\ flight' \in [Slot -> {Free} \cup Request]
  BY <1>2, <1>3, <1>5, OneSlotChanges DEF session
<1>7. QED
  BY <1>6, RestStays DEF SignInv, SignTypeOK, session, Boots

LEMMA AnswerKeeps ==
  ASSUME SignInv, NEW s \in Slot, Answer(s) PROVE SignInv'
<1>. DEFINE r == flight[s]
<1>1. r # Free /\ r \in Request /\ live \subseteq Account
  BY FlightTyped DEF Answer, SignInv, SignTypeOK
<1>2. CASE r.kind = "login"
  <2>1. PICK a \in {LoginAnswer(r), "429"} :
           /\ flight' = [flight EXCEPT ![s].answer = a]
           /\ live' = IF a = "ok" THEN (live \ {r.as}) \cup {r.who} ELSE live
    BY <1>2 DEF Answer
  <2>2. a \in Answers /\ (a = "ok" => r.who \in Account)
    BY DEF LoginAnswer, Answers
  <2>3. live' \subseteq Account
    BY <1>1, <2>1, <2>2
  <2>4. QED
    BY <1>1, <1>2, <2>1, <2>2, <2>3, AnswerWritten DEF Answer
<1>3. CASE r.kind = "logout"
  <2>1. flight' = [flight EXCEPT ![s].answer = "ok"] /\ live' \subseteq Account
    BY <1>1, <1>3 DEF Answer
  <2>2. QED
    BY <1>1, <1>3, <2>1, AnswerWritten DEF Answer, Answers
<1>4. CASE r.kind \notin {"login", "logout"}
  <2>1. PICK a \in {"ok", "401"} :
           /\ flight' = [flight EXCEPT ![s].answer = a] /\ live' = live
           /\ a = "ok" => r.as \in live
    BY <1>4 DEF Answer
  <2>2. a = "ok" => r.as # NoOne
    BY <1>1, <2>1, SignInAssumption
  <2>3. QED
    BY <1>1, <1>4, <2>1, <2>2, AnswerWritten DEF Answer, Answers
<1>5. QED
  BY <1>2, <1>3, <1>4

LEMMA LoseKeeps ==
  ASSUME SignInv, NEW s \in Slot, Lose(s) PROVE SignInv'
<1>1. "down" \in Answers /\ live' \subseteq Account
  BY DEF Answers, Lose, server, SignInv, SignTypeOK
<1>2. QED
  BY <1>1, AnswerWritten DEF Lose, server

LEMMA WorldKeeps ==
  ASSUME SignInv,
         \/ \E a \in Account : Expire(a) \/ Refuse(a)
         \/ IntroEnds \/ BootLeaves \/ BootEnds
  PROVE  SignInv'
  BY OnlyBoot DEF Expire, Refuse, IntroEnds, BootLeaves, BootEnds, server, session, Boots, SignInv, SignTypeOK

-----------------------------------------------------------------------------
(* Answers that change the session.                                        *)

\* Only the request that is answered was about the session before.
LEMMA SignedInKeeps ==
  ASSUME SignInv, NEW s \in Slot, NEW u \in Account, user = NoOne, SignedIn(u, Done(s)), cookie' = u,
         \A t \in Slot \ {s} : flight[t].kind \notin {"me", "login", "load"}, UNCHANGED server
  PROVE  SignInv'
<1>1. /\ user' = u /\ overlays' = {} /\ status' = "authed" /\ form' = BlankForm
      /\ UNCHANGED <<cached, loadFailed>> /\ flight' = [flight EXCEPT ![s] = Free]
      /\ boot' \in Boots /\ u # NoOne
  BY SignInAssumption DEF SignedIn, SetUser, SetStatus, Done, SignInv, SignTypeOK, Boots
<1>2. flight' \in [Slot -> {Free} \cup Request] /\ flight'[s] = Free
      /\ \A t \in Slot \ {s} : flight'[t] = flight[t]
  BY <1>1 DEF SignInv, SignTypeOK
<1>3. SignTypeOK'
  BY <1>1, <1>2, BlankTyped DEF SignInv, SignTypeOK, server, Form, Boots
<1>4. Flights' /\ OneOfEach'
  <2>1. \A t \in Slot : flight'[t].kind \notin {"me", "login", "load"}
    BY <1>2, FreeHolds
  <2>2. \A t \in Slot : SaveHolds(flight'[t])
    BY <1>2, FreeHolds DEF SignInv, Flights, Holds
  <2>3. QED
    BY <1>1, <2>1, <2>2 DEF Flights, OneOfEach, Holds, MeHolds, LoginHolds, LoadHolds, FirstIsMe
<1>5. DataIsOwn'
  <2>1. \A c \in cached : c.owner # NoOne
    BY SignInAssumption DEF SignInv, SignTypeOK
  <2>2. QED
    BY <1>1, <2>1 DEF SignInv, DataIsOwn
<1>6. QED
  BY <1>1, <1>3, <1>4, <1>5, BlankTyped DEF SignInv, Session, CodeBlank, OverlaysAreOwn

\* Signing out leaves nothing of the session: not what it loaded, and not its
\* queries in flight either.
LEMMA SignedOutThenKeeps ==
  ASSUME SignInv, NEW put \in SUBSET [owner: Account, via: {"late"}], NEW s \in Slot, flight[s].kind \in {"login", "logout", "load", "save"},
         SignedOutThen(Done(s), put), cookie' \in Account \cup {NoOne}, form' \in Form, CodeBlank',
         \A t \in Slot \ {s} : flight[t].kind = "login" => UNCHANGED form,
         UNCHANGED server
  PROVE  SignInv'
<1>1. /\ cached' = put /\ loadFailed' = FALSE /\ user' = NoOne /\ status' = "anon"
      /\ boot' \in Boots /\ overlays' \subseteq Overlay /\ OverlaysAreOwn'
  BY DEF SignedOutThen, SetUser, SetStatus, SignInv, SignTypeOK, Boots, OverlaysAreOwn
<1>2. \A t \in Slot : flight'[t] = Free
                      \/ (t # s /\ flight[t].kind # "load" /\ flight'[t] = flight[t])
  BY DEF SignedOutThen, Done, SignInv, SignTypeOK
<1>3. flight' \in [Slot -> {Free} \cup Request]
  <2>1. \A t \in Slot : flight'[t] \in {Free} \cup Request
    BY <1>2, FlightTyped
  <2>2. QED
    BY <2>1 DEF SignedOutThen
<1>4. SignTypeOK'
  BY <1>1, <1>3 DEF SignInv, SignTypeOK, server, Form, Boots
<1>5. status # "loading"
  BY DEF SignInv, Flights, Holds, FirstIsMe
<1>6. ASSUME NEW t \in Slot PROVE Holds(flight'[t], status', user', cookie', form')
  <2>1. CASE flight'[t] = Free
    BY <2>1, FreeHolds
  <2>2. CASE t # s /\ flight[t].kind # "load" /\ flight'[t] = flight[t]
    <3>1. Holds(flight[t], status, user, cookie, form)
      BY DEF SignInv, Flights
    <3>2. flight[t].kind = "login" => form' = form
      BY <2>2
    <3>3. QED
      BY <1>1, <1>5, <2>2, <3>1, <3>2 DEF Holds, MeHolds, LoginHolds, LoadHolds, SaveHolds, FirstIsMe
  <2>3. QED
    BY <1>2, <2>1, <2>2
<1>7. OneOfEach'
  BY <1>2, FreeHolds DEF SignInv, OneOfEach
<1>8. QED
  BY <1>1, <1>4, <1>6, <1>7 DEF SignInv, Flights, Session, DataIsOwn

LEMMA SignedOutKeeps ==
  ASSUME SignInv, NEW s \in Slot, flight[s].kind \in {"login", "logout", "load", "save"},
         SignedOut(Done(s)), cookie' \in Account \cup {NoOne}, form' \in Form, CodeBlank',
         \A t \in Slot \ {s} : flight[t].kind = "login" => UNCHANGED form,
         UNCHANGED server
  PROVE  SignInv'
BY SignedOutThenKeeps DEF SignedOut

\* The login page is blank when it mounts, and stays as it is while it is
\* there.
LEMMA MountFits ==
  ASSUME SignInv, MountLogin
  PROVE  /\ form' \in Form /\ CodeBlank'
         /\ \A t \in Slot : flight[t].kind = "login" => UNCHANGED form
  BY BlankTyped, FormTyped DEF MountLogin, CodeBlank, SignInv, Flights, Holds, LoginHolds

\* Done(s) with the session as it is.
LEMMA DoneKeeps ==
  ASSUME SignInv, NEW s \in Slot, flight' = Done(s), loadFailed' \in BOOLEAN,
         UNCHANGED <<server, cookie, status, user, form, cached, overlays, boot>>
  PROVE  SignInv'
<1>1. Flights' /\ OneOfEach' /\ flight' \in [Slot -> {Free} \cup Request]
  BY FreeHolds, OneSlotChanges DEF Done
<1>2. QED
  BY <1>1, RestStays DEF SignInv, SignTypeOK, server, Boots

LEMMA MeArrivesKeeps ==
  ASSUME SignInv, NEW s \in Slot, MeArrives(s) PROVE SignInv'
<1>1. flight[s] \in Request /\ flight[s].kind = "me"
  BY FlightTyped DEF MeArrives, Arrived
<1>2. status = "loading" /\ user = NoOne /\ flight[s].as = cookie
      /\ (flight[s].answer = "ok" => flight[s].as # NoOne)
  BY <1>1 DEF SignInv, Flights, Holds, MeHolds, Session
<1>3. \A t \in Slot \ {s} : flight[t].kind = "free"
  BY <1>1, <1>2 DEF SignInv, Flights, Holds, FirstIsMe, OneOfEach
<1>4. CASE flight[s].answer = "ok"
  BY <1>1, <1>2, <1>3, <1>4, SignedInKeeps DEF MeArrives, Request
<1>5. CASE flight[s].answer # "ok"
  <2>1. /\ user' = NoOne /\ status' = "anon" /\ boot' \in Boots /\ UNCHANGED overlays
        /\ form' = BlankForm /\ flight' = [flight EXCEPT ![s] = Free]
        /\ UNCHANGED <<cached, loadFailed, server, cookie>>
    BY <1>2, <1>5 DEF MeArrives, SetUser, SetStatus, MountLogin, Done, SignInv, SignTypeOK, Boots
  <2>2. flight' \in [Slot -> {Free} \cup Request] /\ \A t \in Slot : flight'[t].kind = "free"
    BY <1>3, <2>1, FreeHolds DEF SignInv, SignTypeOK
  <2>3. SignTypeOK'
    BY <2>1, <2>2, BlankTyped DEF SignInv, SignTypeOK, server, Form, Boots
  <2>4. Flights' /\ OneOfEach'
    BY <2>2 DEF Flights, OneOfEach, Holds, MeHolds, LoginHolds, LoadHolds, SaveHolds, FirstIsMe
  <2>5. QED
    BY <1>2, <2>1, <2>3, <2>4, BlankTyped DEF SignInv, Session, CodeBlank, DataIsOwn, OverlaysAreOwn
<1>6. QED
  BY <1>4, <1>5

\* What a refused sign-in leaves of the form keeps no code for step one.
LEMMA FailureFits ==
  ASSUME SignInv, NEW kind, NEW step, NEW f, f = AfterFailure(form, kind, step)
  PROVE  f \in Form /\ (f.step = "credentials" => f.code = "none")
<1>1. form \in Form /\ CodeBlank
  BY FormTyped DEF SignInv
<1>2. CASE kind = "second-factor"
  BY <1>1, <1>2 DEF AfterFailure, Form, Code
<1>3. CASE kind = "credentials"
  BY <1>1, <1>3, BackTyped DEF AfterFailure, CodeBlank
<1>4. CASE kind = "code"
  BY <1>1, <1>4 DEF AfterFailure, Form, Code
<1>5. CASE kind \notin {"second-factor", "credentials", "code"}
  BY <1>1, <1>5 DEF AfterFailure, CodeBlank
<1>6. QED
  BY <1>2, <1>3, <1>4, <1>5

LEMMA LoginArrivesKeeps ==
  ASSUME SignInv, NEW s \in Slot, LoginArrives(s) PROVE SignInv'
<1>. DEFINE r == flight[s]
<1>1. r \in Request /\ r.kind = "login" /\ status = "anon" /\ (r.answer = "ok" => r.who \in Account)
  BY FlightTyped DEF LoginArrives, Arrived, SignInv, Flights, Holds, LoginHolds
<1>2. user = NoOne
  BY <1>1 DEF SignInv, Session
<1>3. \A t \in Slot \ {s} : flight[t].kind \notin {"me", "login", "load"}
  BY <1>1, <1>2 DEF SignInv, Flights, Holds, MeHolds, LoadHolds, OneOfEach
<1>4. CASE r.answer = "ok"
  BY <1>1, <1>2, <1>3, <1>4, SignedInKeeps DEF LoginArrives
<1>5. CASE r.answer # "ok"
  <2>. DEFINE step == StepOf(r)
              f == AfterFailure(form, FailureKind(r.answer, step), step)
  <2>1. f \in Form /\ (f.step = "credentials" => f.code = "none")
    BY FailureFits
  <2>2. form' = [f EXCEPT !.busy = FALSE] /\ UNCHANGED <<cookie, server>>
    BY <1>5 DEF LoginArrives
  <2>. HIDE DEF f
  <2>3. form' \in Form /\ CodeBlank'
    BY <2>1, <2>2 DEF Form, CodeBlank
  <2>4. CASE Unauthorized(r.answer)
    <3>1. SignedOut(Done(s))
      BY <1>5, <2>4 DEF LoginArrives
    <3>2. cookie' \in Account \cup {NoOne}
      BY <2>2, FormTyped
    <3>3. QED
      BY <1>1, <1>3, <2>2, <2>3, <3>1, <3>2, SignedOutKeeps
  <2>5. CASE ~Unauthorized(r.answer)
    <3>1. flight' = [flight EXCEPT ![s] = Free]
          /\ UNCHANGED <<status, user, cached, loadFailed, overlays, boot>>
      BY <1>5, <2>5 DEF LoginArrives, Done
    <3>2. flight' \in [Slot -> {Free} \cup Request] /\ flight'[s] = Free
          /\ \A t \in Slot \ {s} : flight'[t] = flight[t]
      BY <3>1 DEF SignInv, SignTypeOK
    <3>3. SignTypeOK'
      BY <2>2, <2>3, <3>1, <3>2 DEF SignInv, SignTypeOK, server, Form
    <3>4. \A t \in Slot : flight'[t].kind \notin {"me", "login", "load"}
      BY <1>3, <3>2, FreeHolds
    <3>5. \A t \in Slot : SaveHolds(flight'[t])
      BY <3>2, FreeHolds DEF SignInv, Flights, Holds
    <3>6. Flights' /\ OneOfEach'
      BY <1>1, <3>1, <3>4, <3>5 DEF Flights, OneOfEach, Holds, MeHolds, LoginHolds, LoadHolds, FirstIsMe
    <3>7. QED
      BY <2>2, <2>3, <3>1, <3>3, <3>6 DEF SignInv, Session, DataIsOwn, OverlaysAreOwn
  <2>6. QED
    BY <2>4, <2>5
<1>6. QED
  BY <1>4, <1>5

LEMMA LogoutArrivesKeeps ==
  ASSUME SignInv, NEW s \in Slot, LogoutArrives(s) PROVE SignInv'
<1>1. cookie' \in Account \cup {NoOne}
  BY FormTyped DEF LogoutArrives
<1>2. QED
  BY <1>1, MountFits, SignedOutKeeps DEF LogoutArrives, Arrived

LEMMA LoadArrivesKeeps ==
  ASSUME SignInv, NEW s \in Slot, LoadArrives(s) PROVE SignInv'
<1>. DEFINE r == flight[s]
<1>1. r \in Request /\ r.kind = "load" /\ user # NoOne /\ r.as = user /\ status = "authed" /\ cookie = user
  BY FlightTyped DEF LoadArrives, Arrived, SignInv, Flights, Holds, LoadHolds, Session
<1>2. UNCHANGED <<server, cookie>> /\ cookie' \in Account \cup {NoOne}
  BY FormTyped DEF LoadArrives
<1>3. CASE r.answer = "ok"
  <2>. DEFINE c == [owner |-> r.as, via |-> "load"]
  <2>1. /\ cached' = cached \cup {c} /\ loadFailed' = FALSE /\ flight' = Done(s)
        /\ UNCHANGED <<status, user, form, overlays, boot>>
    BY <1>3 DEF LoadArrives
  <2>2. c \in [owner: Account, via: {"load", "save", "late"}] /\ c.owner = user
    BY <1>1 DEF Request
  <2>3. flight' \in [Slot -> {Free} \cup Request] /\ flight'[s] = Free
        /\ \A t \in Slot \ {s} : flight'[t] = flight[t]
    BY <2>1 DEF SignInv, SignTypeOK, Done
  <2>4. SignTypeOK'
    BY <1>2, <2>1, <2>2, <2>3 DEF SignInv, SignTypeOK, server
  <2>5. Flights' /\ OneOfEach'
    BY <1>2, <2>1, <2>3, FreeHolds DEF SignInv, Flights, OneOfEach
  <2>6. DataIsOwn'
    BY <2>1, <2>2 DEF SignInv, DataIsOwn
  <2>7. QED
    BY <1>2, <2>1, <2>4, <2>5, <2>6 DEF SignInv, Session, CodeBlank, OverlaysAreOwn
<1>4. CASE r.answer = "401"
  BY <1>1, <1>2, <1>4, MountFits, SignedOutKeeps DEF LoadArrives
<1>5. CASE r.answer \notin {"ok", "401"} /\ Retried(r.tries)
  <2>. DEFINE w == Sent("load", "empty", "none")
             n == [w EXCEPT !.tries = r.tries + 1]
  <2>1. w \in Request /\ w.kind = "load" /\ w.as = cookie
    BY SentTyped DEF Entry, Code
  <2>2. r.tries + 1 \in 0 .. 2
    BY <1>1, <1>5 DEF Request, Retried
  <2>. HIDE DEF w
  <2>3. n \in Request /\ n.kind = "load" /\ n.as = user
    BY <1>1, <2>1, <2>2 DEF Request
  <2>4. flight' = [flight EXCEPT ![s] = n]
        /\ UNCHANGED <<loadFailed, status, user, form, cached, overlays, boot>>
    BY <1>5 DEF LoadArrives, w
  <2>. HIDE DEF n
  <2>5. Holds(n, status', user', cookie', form')
    BY <1>1, <2>3, <2>4 DEF Holds, MeHolds, LoginHolds, LoadHolds, SaveHolds, FirstIsMe
  <2>6. Flights' /\ OneOfEach' /\ flight' \in [Slot -> {Free} \cup Request]
    BY <1>2, <2>3, <2>4, <2>5, OneSlotChanges
  <2>7. QED
    BY <1>2, <2>4, <2>6, RestStays DEF SignInv, SignTypeOK, server, Boots
<1>6. CASE r.answer \notin {"ok", "401"} /\ ~Retried(r.tries)
  BY <1>2, <1>6, DoneKeeps DEF LoadArrives
<1>7. QED
  BY <1>3, <1>4, <1>5, <1>6

LEMMA SaveArrivesKeeps ==
  ASSUME SignInv, NEW s \in Slot, SaveArrives(s) PROVE SignInv'
<1>. DEFINE r == flight[s]
<1>1. r \in Request /\ r.kind = "save"
  BY FlightTyped DEF SaveArrives, Arrived
<1>2. UNCHANGED <<server, cookie>> /\ cookie' \in Account \cup {NoOne}
  BY FormTyped DEF SaveArrives
<1>0. r.as \in Account
  BY <1>1 DEF Request, SignInv, Flights, Holds, SaveHolds
<1>3. CASE r.answer = "401"
  <2>1. PICK put \in SUBSET {Saved(r, NoOne)} : SignedOutThen(Done(s), put) /\ MountLogin
    BY <1>3 DEF SaveArrives
  <2>2. Saved(r, NoOne) \in [owner: Account, via: {"late"}]
    BY <1>0, SignInAssumption DEF Saved
  <2>3. QED
    BY <1>1, <1>2, <2>1, <2>2, MountFits, SignedOutThenKeeps
<1>4. CASE r.answer # "401"
  <2>1. /\ cached' \in {cached, cached \cup {Saved(r, user)}}
        /\ flight' = Done(s) /\ UNCHANGED <<status, user, form, loadFailed, overlays, boot>>
    BY <1>4 DEF SaveArrives
  <2>2. flight' \in [Slot -> {Free} \cup Request] /\ flight'[s] = Free
        /\ \A t \in Slot \ {s} : flight'[t] = flight[t]
    BY <2>1 DEF SignInv, SignTypeOK, Done
  <2>3. Saved(r, user) \in [owner: Account, via: {"load", "save", "late"}]
        /\ (Saved(r, user).via # "late" => Saved(r, user).owner = user)
    BY <1>0 DEF Saved
  <2>4. SignTypeOK'
    BY <1>2, <2>1, <2>2, <2>3 DEF SignInv, SignTypeOK, server
  <2>5. Flights' /\ OneOfEach'
    BY <1>2, <2>1, <2>2, FreeHolds DEF SignInv, Flights, OneOfEach
  <2>6. DataIsOwn'
    BY <2>1, <2>3 DEF SignInv, DataIsOwn
  <2>7. QED
    BY <1>2, <2>1, <2>4, <2>5, <2>6 DEF SignInv, Session, CodeBlank, OverlaysAreOwn
<1>5. QED
  BY <1>3, <1>4

-----------------------------------------------------------------------------
LEMMA InitSignInv == SignInit => SignInv
<1>. SUFFICES ASSUME SignInit PROVE SignInv
  OBVIOUS
<1>1. 1 \in Slot
  BY SignInAssumption DEF Slot
<1>. DEFINE r == Sent("me", "empty", "none")
<1>2. r \in Request /\ r.kind = "me" /\ r.as = cookie /\ r.answer = "none"
  BY DEF SignInit, Sent, Request, Entry, Code
<1>. HIDE DEF r
<1>3. flight = [s \in Slot |-> IF s = 1 THEN r ELSE Free]
  BY DEF SignInit, r
<1>4. flight \in [Slot -> {Free} \cup Request]
  BY <1>2, <1>3
<1>5. SignTypeOK
  BY <1>4, BlankTyped DEF SignInit, SignTypeOK, Form
<1>6. \A s \in Slot : flight[s] = (IF s = 1 THEN r ELSE Free)
  BY <1>3
<1>7. Flights
  BY <1>2, <1>6, FreeHolds DEF SignInit, Flights, Holds, MeHolds, LoginHolds, LoadHolds, SaveHolds, FirstIsMe
<1>8. OneOfEach
  BY <1>2, <1>6, FreeHolds DEF OneOfEach
<1>9. QED
  BY <1>5, <1>7, <1>8, BlankTyped DEF SignInit, SignInv, Session, CodeBlank, DataIsOwn, OverlaysAreOwn

LEMMA StepSignInv == SignInv /\ [SignNext]_signVars => SignInv'
<1>. SUFFICES ASSUME SignInv, [SignNext]_signVars PROVE SignInv'
  OBVIOUS
<1>1. CASE \E e \in Entry : TypeCredentials(e)
  BY <1>1, TypeCredentialsKeeps
<1>2. CASE \E c \in Code \ {"none"} : TypeCode(c)
  BY <1>2, TypeCodeKeeps
<1>3. CASE Submit \/ Back \/ ToggleBackup
  BY <1>3, SubmitKeeps, BackKeeps, ToggleBackupKeeps
<1>4. CASE \E s \in Slot : Arrive(s)
  BY <1>4, MeArrivesKeeps, LoginArrivesKeeps, LogoutArrivesKeeps, LoadArrivesKeeps, SaveArrivesKeeps
     DEF Arrive
<1>5. CASE \E s \in Slot : Answer(s) \/ Lose(s)
  BY <1>5, AnswerKeeps, LoseKeeps
<1>6. CASE Logout \/ Load \/ Save
  BY <1>6, ShellKeeps
<1>7. CASE GoPage \/ \E name \in OverlayName : OpenOverlay(name) \/ CloseOverlay(name)
  BY <1>7, OverlayKeeps
<1>8. CASE IntroEnds \/ BootLeaves \/ BootEnds \/ \E a \in Account : Expire(a) \/ Refuse(a)
  BY <1>8, WorldKeeps
<1>9. CASE UNCHANGED signVars
  BY <1>9, OnlyBoot DEF signVars, server, session, SignInv, SignTypeOK, Boots
<1>10. QED
  BY <1>1, <1>2, <1>3, <1>4, <1>5, <1>6, <1>7, <1>8, <1>9 DEF SignNext

-----------------------------------------------------------------------------
\* The invariant, of every behaviour.
THEOREM SignInvariant == SignSpec => []SignInv
  BY InitSignInv, StepSignInv, PTL DEF SignSpec

\* Every variable keeps its type.
THEOREM SignTypeCorrect == SignSpec => []SignTypeOK
<1>1. SignInv => SignTypeOK
  BY DEF SignInv
<1>2. QED
  BY <1>1, SignInvariant, PTL

\* No overlay of one session is there in the next, and no data that a query
\* brought or a save answered within its session, in whatever order requests
\* are sent, answered and lost (useAuth.signedOut, App).  What a save writes
\* that is answered later is apart (AutomationPage.saveWindow).
THEOREM NothingInherited == SignSpec => []SessionIsOwn
<1>1. SignInv => SessionIsOwn
  BY DEF SignInv, SessionIsOwn
<1>2. QED
  BY <1>1, SignInvariant, PTL

\* Whatever is typed while answers are under way, a code goes to the server
\* only with the account that the code step names (LoginPage.submit, back).
THEOREM CodesGoRight == SignSpec => []CodesGoWhereNamed
<1>1. SignInv => CodesGoWhereNamed
  BY DEF SignInv, Flights, Holds, LoginHolds, OneOfEach, InFlight, CodeBlank, CodesGoWhereNamed
<1>2. QED
  BY <1>1, SignInvariant, PTL
-----------------------------------------------------------------------------
(* The accounts: a list that has settled is the server's.  What was done   *)
(* to an account and not yet answered, and a role that the list shows      *)
(* before the server has answered, are what the page still waits for.      *)

DeskRequest == [account: AccountId \cup {0}, kind: CallKind, role: Role, old: Role, linked: BOOLEAN,
            stage: {"none", "sent", "done", "refused", "loading"}]
Question == [account: AccountId \cup {0}, kind: CallKind, role: Role, old: Role]
DeskForm == [account: AccountId \cup {0}, kind: CallKind, linked: BOOLEAN, call: DeskCall \cup {0}]
RowCalls == {"role"} \cup RowKind \cup {"password", "email", "person"}

\* Of whom a request is; nobody deletes the account he is signed in with.
RequestSound(q) ==
    /\ q.kind \in RowCalls => q.account \in AccountId
    /\ q.kind = "delete" => q.account # Self
    /\ q.kind = "none" => q.stage = "none"
    /\ q.kind = "role" => q.stage # "loading"

AccountTypes == accounts \in [AccountId -> AccountRow] /\ made \in Existing .. Accounts /\ accounts[Self].there
AccountListTypes ==
    /\ list \in [AccountId -> AccountRow] /\ (list = NoList \/ list[Self].there)
    /\ listFetch.stage \in {"none", "asked", "answered"} /\ lastLoad \in {"none", "ok", "failed"}
    /\ listFetch.stage = "answered" => listFetch.answer \in [AccountId -> AccountRow] /\ listFetch.answer[Self].there
    /\ behind \in BOOLEAN
AskTypes ==
    /\ deskQuestion \in Question
    /\ deskQuestion # NoQuestion => /\ deskQuestion.kind \in {"role"} \cup RowKind \cup {"password", "email", "person"}
                                    /\ deskQuestion.account \in AccountId
                                    /\ deskQuestion.kind = "delete" => deskQuestion.account # Self
    /\ deskForm \in DeskForm
    /\ deskForm # NoForm => deskForm.kind \in FormKind /\ (deskForm.kind # "create" => deskForm.account \in AccountId)
RequestTypes == deskCalls \in [DeskCall -> DeskRequest] /\ \A c \in DeskCall : RequestSound(deskCalls[c])
RoleListed ==
    /\ deskQuestion.kind = "role" => list # NoList
    /\ \A c \in DeskCall : deskCalls[c].kind = "role" => list # NoList

Alike(x, y) == \A a \in AccountId : /\ x[a].role = y[a].role /\ x[a].disabled = y[a].disabled
                                    /\ x[a].linked = y[a].linked /\ x[a].there = y[a].there
Awaited(q) == (q.stage = "done" /\ q.kind # "password") \/ q.kind = "role"
Awaiting == \E c \in DeskCall : Awaited(deskCalls[c])
ListTrue ==
    ~behind /\ ~Awaiting =>
        /\ listFetch.stage = "answered" => Alike(listFetch.answer, accounts)
        /\ listFetch.stage = "none" /\ lastLoad = "ok" => Alike(list, accounts)

DeskInv == AccountTypes /\ AccountListTypes /\ AskTypes /\ RequestTypes /\ RoleListed /\ ListTrue

LEMMA SelfThere == Self \in AccountId /\ 0 \notin AccountId /\ NoList \in [AccountId -> AccountRow] /\ ~NoList[Self].there
<1>1. Self \in AccountId /\ 0 \notin AccountId
  BY DeskAssumption DEF Self, AccountId
<1>2. NoAccount \in AccountRow /\ ~NoAccount.there
  BY DEF NoAccount, AccountRow, Role
<1> QED BY <1>1, <1>2 DEF NoList

LEMMA NothingAsked ==
    /\ NoRequest \in DeskRequest /\ RequestSound(NoRequest) /\ ~Awaited(NoRequest)
    /\ NoQuestion \in Question /\ NoQuestion.kind = "none" /\ NoForm \in DeskForm
BY DEF NoRequest, DeskRequest, RequestSound, Awaited, RowCalls, RowKind, CallKind, Role, NoQuestion, Question, NoForm, DeskForm

LEMMA DeskInvInit == DeskInit => DeskInv
<1> SUFFICES ASSUME DeskInit PROVE DeskInv
  OBVIOUS
<1>1. AccountTypes
  <2>1. \A a \in AccountId : accounts[a] \in AccountRow
    <3> SUFFICES ASSUME NEW a \in AccountId PROVE accounts[a] \in AccountRow
      OBVIOUS
    <3>1. NoAccount \in AccountRow
      BY DEF NoAccount, AccountRow, Role
    <3>2. [role |-> IF a = Self THEN "admin" ELSE "viewer", totp |-> FALSE, disabled |-> FALSE,
           linked |-> a \in Linked, there |-> TRUE] \in AccountRow
      BY DEF AccountRow, Role
    <3> QED BY <3>1, <3>2 DEF DeskInit
  <2>2. accounts[Self].there
    BY SelfThere, DeskAssumption DEF DeskInit, Self
  <2>3. made \in Existing .. Accounts
    BY DeskAssumption DEF DeskInit
  <2> QED BY <2>1, <2>2, <2>3 DEF DeskInit, AccountTypes
<1>2. AccountListTypes
  BY SelfThere DEF DeskInit, AccountListTypes, Fetch
<1>3. AskTypes
  BY NothingAsked DEF DeskInit, AskTypes
<1>4. RequestTypes
  BY NothingAsked DEF DeskInit, RequestTypes
<1>5. RoleListed
  BY DEF DeskInit, RoleListed, NoQuestion, NoRequest
<1>6. ListTrue
  BY DEF DeskInit, ListTrue, Fetch
<1> QED BY <1>1, <1>2, <1>3, <1>4, <1>5, <1>6 DEF DeskInv

-----------------------------------------------------------------------------
\* One request is put in a slot, or changed in it.
LEMMA RequestIn ==
    ASSUME RequestTypes, NEW c \in DeskCall, NEW q \in DeskRequest, RequestSound(q),
           deskCalls' = [deskCalls EXCEPT ![c] = q]
    PROVE  /\ RequestTypes'
           /\ Awaiting /\ (Awaited(deskCalls[c]) => Awaited(q)) => Awaiting'
           /\ Awaited(q) => Awaiting'
           /\ Awaiting' => Awaiting \/ Awaited(q)
           /\ (\E d \in DeskCall : deskCalls'[d].kind = "role") =>
                 q.kind = "role" \/ \E d \in DeskCall : deskCalls[d].kind = "role"
<1>1. \A d \in DeskCall : deskCalls'[d] = IF d = c THEN q ELSE deskCalls[d]
  BY DEF RequestTypes
<1>2. RequestTypes'
  BY <1>1 DEF RequestTypes, RequestSound
<1>3. Awaiting /\ (Awaited(deskCalls[c]) => Awaited(q)) => Awaiting'
  <2> SUFFICES ASSUME Awaiting, Awaited(deskCalls[c]) => Awaited(q) PROVE Awaiting'
    OBVIOUS
  <2>1. PICK d \in DeskCall : Awaited(deskCalls[d])
    BY DEF Awaiting
  <2>2. Awaited(deskCalls'[d])
    BY <1>1, <2>1
  <2> QED BY <2>2 DEF Awaiting, Awaited
<1>4. Awaited(q) => Awaiting'
  BY <1>1 DEF Awaiting, Awaited
<1>5. Awaiting' => Awaiting \/ Awaited(q)
  BY <1>1 DEF Awaiting, Awaited
<1>6. (\E d \in DeskCall : deskCalls'[d].kind = "role") =>
                 q.kind = "role" \/ \E d \in DeskCall : deskCalls[d].kind = "role"
  BY <1>1
<1> QED BY <1>2, <1>3, <1>4, <1>5, <1>6

LEMMA AlikeTyped ==
    ASSUME NEW x \in [AccountId -> AccountRow], NEW y \in [AccountId -> AccountRow]
    PROVE  Alike(x, y) <=> \A a \in AccountId : [x[a] EXCEPT !.totp = FALSE] = [y[a] EXCEPT !.totp = FALSE]
<1>1. \A r, s \in AccountRow :
          [r EXCEPT !.totp = FALSE] = [s EXCEPT !.totp = FALSE] <=>
              r.role = s.role /\ r.disabled = s.disabled /\ r.linked = s.linked /\ r.there = s.there
  BY DEF AccountRow
<1> QED BY <1>1 DEF Alike

\* A role in the list leaves it a list.
LEMMA RoleInListTyped ==
    ASSUME DeskInv, NEW a, NEW r \in Role
    PROVE  /\ RoleInList(a, r) \in [AccountId -> AccountRow]
           /\ list = NoList \/ list[Self].there => RoleInList(a, r) = NoList \/ RoleInList(a, r)[Self].there
           /\ list # NoList => RoleInList(a, r) # NoList
<1>1. RoleInList(a, r) \in [AccountId -> AccountRow]
  BY DEF RoleInList, DeskInv, AccountListTypes, AccountRow
<1>2. RoleInList(a, r)[Self].there = list[Self].there
  BY SelfThere DEF RoleInList, DeskInv, AccountListTypes, AccountRow
<1>3. list = NoList => RoleInList(a, r) = NoList \/ RoleInList(a, r)[Self].there
  <2>1. a \in AccountId => ~NoList[a].there
    BY DEF NoList, NoAccount
  <2> QED BY <2>1, SelfThere DEF RoleInList
<1> QED BY <1>1, <1>2, <1>3, SelfThere DEF DeskInv, AccountListTypes

-----------------------------------------------------------------------------
\* Questions and dialogs come and go, and nothing else does.
LEMMA QuietStep ==
    ASSUME DeskInv, UNCHANGED <<accounts, made, list, listFetch, lastLoad, behind, deskCalls>>, AskTypes',
           deskQuestion'.kind = "role" => list # NoList
    PROVE  DeskInv'
BY DEF DeskInv, AccountTypes, AccountListTypes, RequestTypes, RequestSound, RoleListed, ListTrue, Alike, Awaiting, Awaited

\* A request is sent from a question or a row: the list it shows may say so first.
LEMMA SentStep ==
    ASSUME DeskInv, UNCHANGED <<accounts, made, lastLoad, behind>>, AskTypes', deskQuestion'.kind # "role",
           NEW q \in DeskRequest, RequestSound(q), SendCall(q),
           \/ q.kind # "role" /\ UNCHANGED <<list, listFetch>>
           \/ /\ q.kind = "role" /\ listFetch' = NoFetch /\ list # NoList
              /\ \E a \in AccountId, r \in Role : list' = RoleInList(a, r)
    PROVE  DeskInv'
<1>1. PICK c \in FreeCall : deskCalls' = [deskCalls EXCEPT ![c] = q]
  BY DEF SendCall
<1>2. c \in DeskCall /\ deskCalls[c] = NoRequest
  BY DEF FreeCall
<1>3. RequestTypes' /\ (Awaiting => Awaiting') /\ (Awaited(q) => Awaiting')
  BY <1>1, <1>2, RequestIn, NothingAsked DEF DeskInv
<1>4. (\E d \in DeskCall : deskCalls'[d].kind = "role") =>
                 q.kind = "role" \/ \E d \in DeskCall : deskCalls[d].kind = "role"
  BY <1>1, <1>2, RequestIn DEF DeskInv
<1>5. CASE q.kind # "role" /\ UNCHANGED <<list, listFetch>>
  <2>1. AccountTypes' /\ AccountListTypes' /\ RoleListed' /\ ListTrue'
    BY <1>3, <1>4, <1>5 DEF DeskInv, AccountTypes, AccountListTypes, RoleListed, ListTrue, Alike
  <2> QED BY <1>3, <2>1 DEF DeskInv
<1>6. CASE /\ q.kind = "role" /\ listFetch' = NoFetch /\ list # NoList
           /\ \E a \in AccountId, r \in Role : list' = RoleInList(a, r)
  <2>1. AccountListTypes' /\ list' # NoList
    BY <1>6, RoleInListTyped DEF DeskInv, AccountListTypes, NoFetch
  <2>2. ListTrue'
    BY <1>3, <1>6 DEF Awaited, ListTrue
  <2>3. AccountTypes' /\ RoleListed'
    BY <2>1 DEF DeskInv, AccountTypes, RoleListed
  <2> QED BY <1>3, <2>1, <2>2, <2>3 DEF DeskInv
<1> QED BY <1>5, <1>6

LEMMA RoleSent ==
    ASSUME DeskInv, NEW a \in AccountId, NEW r \in Role, NEW old \in Role, SendRole(a, r, old), list # NoList,
           UNCHANGED <<accounts, made, lastLoad, behind>>, AskTypes', deskQuestion'.kind # "role"
    PROVE  DeskInv'
<1> DEFINE q == [NoRequest EXCEPT !.account = a, !.kind = "role", !.role = r, !.old = old, !.stage = "sent"]
<1>1. q \in DeskRequest /\ RequestSound(q) /\ q.kind = "role"
  BY DEF NoRequest, DeskRequest, RequestSound, CallKind
<1>2. SendCall(q) /\ listFetch' = NoFetch /\ list' = RoleInList(a, r)
  BY DEF SendRole, ListIs
<1> HIDE DEF q
<1> QED BY <1>1, <1>2, SentStep

LEMMA ChangeSent ==
    ASSUME DeskInv, NEW a \in AccountId, NEW k \in RowKind \cup {"password", "email", "person"}, SendChange(a, k),
           k = "delete" => a # Self,
           UNCHANGED <<accounts, made, lastLoad, behind>>, AskTypes', deskQuestion'.kind # "role"
    PROVE  DeskInv'
<1> DEFINE q == [NoRequest EXCEPT !.account = a, !.kind = k, !.stage = "sent"]
<1>1. q \in DeskRequest /\ RequestSound(q) /\ q.kind # "role"
  BY DEF NoRequest, DeskRequest, RequestSound, CallKind, RowKind, FormKind, Role
<1>2. SendCall(q) /\ UNCHANGED <<list, listFetch>>
  BY DEF SendChange
<1> HIDE DEF q
<1> QED BY <1>1, <1>2, SentStep

LEMMA ChangeRoleStep == ASSUME DeskInv, NEW a \in AccountId, NEW r \in Role, ChangeRole(a, r) PROVE DeskInv'
<1>1. UNCHANGED <<accounts, made, lastLoad, behind, deskForm>> /\ list[a].there /\ list[a].role \in Role
      /\ deskQuestion = NoQuestion
  BY DEF ChangeRole, serverVars, PageFree, DeskInv, AccountListTypes, AccountRow
<1>2. list # NoList
  BY <1>1 DEF NoList, NoAccount
<1>3. CASE AsksForRole(a, r)
  <2>1. deskQuestion' = [account |-> a, kind |-> "role", role |-> r, old |-> list[a].role]
        /\ UNCHANGED <<list, listFetch, deskCalls>>
    BY <1>3 DEF ChangeRole, callVars
  <2>2. deskQuestion' \in Question /\ deskQuestion'.kind = "role" /\ deskQuestion'.account = a
    BY <1>1, <2>1 DEF Question, CallKind
  <2>3. AskTypes'
    BY <1>1, <2>2 DEF DeskInv, AskTypes
  <2> QED BY <1>1, <1>2, <2>1, <2>3, QuietStep
<1>4. CASE ~AsksForRole(a, r)
  <2>1. SendRole(a, r, list[a].role) /\ deskQuestion' = NoQuestion
    BY <1>1, <1>4 DEF ChangeRole
  <2>2. AskTypes' /\ deskQuestion'.kind # "role"
    BY <1>1, <2>1, NothingAsked DEF DeskInv, AskTypes
  <2> QED BY <1>1, <1>2, <2>1, <2>2, RoleSent
<1> QED BY <1>3, <1>4

LEMMA ChooseInMenuStep == ASSUME DeskInv, NEW a \in AccountId, NEW k \in RowKind, ChooseInMenu(a, k) PROVE DeskInv'
<1>1. UNCHANGED <<accounts, made, lastLoad, behind, deskForm>> /\ deskQuestion = NoQuestion
      /\ (k = "delete" => a # Self)
  BY DEF ChooseInMenu, serverVars, PageFree, InMenu
<1>2. CASE k # "enable"
  <2>1. deskQuestion' = [NoQuestion EXCEPT !.account = a, !.kind = k] /\ UNCHANGED <<list, listFetch, deskCalls>>
    BY <1>2 DEF ChooseInMenu, callVars
  <2>2. deskQuestion' \in Question /\ deskQuestion'.kind = k /\ deskQuestion'.account = a /\ k # "role"
    BY <2>1 DEF Question, NoQuestion, CallKind, RowKind, Role
  <2>3. AskTypes'
    BY <1>1, <2>2 DEF DeskInv, AskTypes
  <2> QED BY <1>1, <2>1, <2>2, <2>3, QuietStep
<1>3. CASE k = "enable"
  <2>1. SendChange(a, k) /\ deskQuestion' = NoQuestion
    BY <1>1, <1>3 DEF ChooseInMenu
  <2>2. AskTypes' /\ deskQuestion'.kind # "role"
    BY <1>1, <2>1, NothingAsked DEF DeskInv, AskTypes
  <2> QED BY <1>1, <2>1, <2>2, ChangeSent
<1> QED BY <1>2, <1>3

LEMMA ConfirmChangeStep == ASSUME DeskInv, ConfirmChange PROVE DeskInv'
<1>1. UNCHANGED <<accounts, made, lastLoad, behind, deskForm>> /\ deskQuestion # NoQuestion /\ deskQuestion' = NoQuestion
  BY DEF ConfirmChange, serverVars
<1>2. AskTypes' /\ deskQuestion'.kind # "role"
  BY <1>1, NothingAsked DEF DeskInv, AskTypes
<1>3. /\ deskQuestion.kind \in {"role"} \cup RowKind \cup {"password", "email", "person"}
      /\ deskQuestion.account \in AccountId /\ deskQuestion.role \in Role /\ deskQuestion.old \in Role
      /\ deskQuestion.kind = "delete" => deskQuestion.account # Self
  BY <1>1 DEF DeskInv, AskTypes, Question
<1>4. CASE deskQuestion.kind = "role"
  <2>1. SendRole(deskQuestion.account, deskQuestion.role, deskQuestion.old) /\ list # NoList
    BY <1>4 DEF ConfirmChange, DeskInv, RoleListed
  <2> QED BY <1>1, <1>2, <1>3, <2>1, RoleSent
<1>5. CASE deskQuestion.kind # "role"
  <2>1. SendChange(deskQuestion.account, deskQuestion.kind)
    BY <1>5 DEF ConfirmChange
  <2>2. deskQuestion.kind \in RowKind \cup {"password", "email", "person"}
    BY <1>3, <1>5
  <2> QED BY <1>1, <1>2, <1>3, <2>1, <2>2, ChangeSent
<1> QED BY <1>4, <1>5

LEMMA DialogSteps ==
    ASSUME DeskInv, NEW a \in AccountId \cup {0}, NEW k \in FormKind,
           DeclineChange \/ CloseForm \/ OpenForm(a, k)
    PROVE  DeskInv'
<1>1. UNCHANGED <<accounts, made, list, listFetch, lastLoad, behind, deskCalls>>
  BY DEF DeclineChange, CloseForm, OpenForm, serverVars, listVars, callVars
<1>2. AskTypes' /\ (deskQuestion'.kind = "role" => list # NoList)
  <2>1. CASE DeclineChange
    BY <2>1, NothingAsked DEF DeclineChange, DeskInv, AskTypes
  <2>2. CASE CloseForm
    BY <2>2, NothingAsked DEF CloseForm, DeskInv, AskTypes, RoleListed
  <2>3. CASE OpenForm(a, k)
    <3>1. k = "person" => list[a].linked \in BOOLEAN
      BY <2>3 DEF OpenForm, DeskInv, AccountListTypes, AccountRow
    <3>2. deskForm' \in DeskForm /\ deskForm'.kind = k /\ deskForm'.account = a
      BY <2>3, <3>1 DEF OpenForm, NoForm, DeskForm, CallKind
    <3>3. k # "create" => a \in AccountId
      BY <2>3 DEF OpenForm
    <3> QED BY <2>3, <3>2, <3>3 DEF OpenForm, DeskInv, AskTypes, RoleListed
  <2> QED BY <2>1, <2>2, <2>3
<1> QED BY <1>1, <1>2, QuietStep

LEMMA SubmitStep == ASSUME DeskInv, NEW filled \in Fillings, SubmitForm(filled) PROVE DeskInv'
<1> DEFINE q == [filled EXCEPT !.account = deskForm.account, !.kind = deskForm.kind, !.stage = "sent"]
<1>1. filled \in DeskRequest
  <2>1. NoRequest \in DeskRequest /\ deskForm.linked \in BOOLEAN
    BY NothingAsked DEF DeskInv, AskTypes, DeskForm
  <2>2. ASSUME NEW r \in Role PROVE [NoRequest EXCEPT !.role = r, !.linked = (r = "viewer")] \in DeskRequest
    BY <2>1 DEF DeskRequest
  <2>3. ASSUME NEW p \in BOOLEAN PROVE [NoRequest EXCEPT !.linked = p] \in DeskRequest
    BY <2>1 DEF DeskRequest
  <2>4. filled \in NewAccounts \/ filled \in PersonChoices(deskForm.linked) \/ filled = NoRequest
    BY DEF Fillings
  <2>5. filled \in NewAccounts => filled \in DeskRequest
    BY <2>2 DEF NewAccounts
  <2>6. filled \in PersonChoices(deskForm.linked) => filled \in DeskRequest
    BY <2>1, <2>3 DEF PersonChoices
  <2> QED BY <2>1, <2>4, <2>5, <2>6
<1>2. deskForm \in DeskForm /\ deskForm.kind \in FormKind /\ (deskForm.kind # "create" => deskForm.account \in AccountId)
  BY DEF SubmitForm, DeskInv, AskTypes
<1>3. q \in DeskRequest /\ RequestSound(q) /\ q.kind # "role"
  BY <1>1, <1>2 DEF DeskRequest, RequestSound, DeskForm, RowCalls, RowKind, FormKind
<1>4. UNCHANGED <<accounts, made, lastLoad, behind, deskQuestion, list, listFetch>> /\ SendCall(q)
  BY DEF SubmitForm, serverVars, listVars
<1> HIDE DEF q
<1>5. FreeCall # {} /\ deskForm' = [deskForm EXCEPT !.call = CHOOSE c \in FreeCall : \A d \in FreeCall : c <= d]
  BY <1>4 DEF SubmitForm, SendCall
<1>6. (CHOOSE c \in FreeCall : \A d \in FreeCall : c <= d) \in DeskCall
  BY <1>4 DEF SendCall, FreeCall
<1>7. AskTypes'
  <2>1. deskForm' \in DeskForm /\ deskForm'.kind = deskForm.kind /\ deskForm'.account = deskForm.account
    BY <1>2, <1>5, <1>6 DEF DeskForm
  <2> QED BY <1>2, <1>4, <2>1 DEF DeskInv, AskTypes
<1>8. CASE deskQuestion.kind # "role"
  BY <1>3, <1>4, <1>7, <1>8, SentStep
<1>9. CASE deskQuestion.kind = "role"
  <2>1. PICK c \in FreeCall : deskCalls' = [deskCalls EXCEPT ![c] = q]
    BY <1>4 DEF SendCall
  <2>2. c \in DeskCall /\ deskCalls[c] = NoRequest
    BY DEF FreeCall
  <2>3. RequestTypes' /\ (Awaiting => Awaiting')
    BY <1>3, <2>1, <2>2, RequestIn, NothingAsked DEF DeskInv
  <2>4. AccountTypes' /\ AccountListTypes' /\ RoleListed' /\ ListTrue'
    BY <1>4, <1>9, <2>3 DEF DeskInv, AccountTypes, AccountListTypes, RoleListed, ListTrue, Alike
  <2> QED BY <1>7, <2>3, <2>4 DEF DeskInv
<1> QED BY <1>8, <1>9

\* The server: what changed an account is awaited from then on.
LEMMA ServedChange == ASSUME DeskInv, NEW c \in DeskCall, ChangeServed(c) PROVE DeskInv'
<1> DEFINE call == deskCalls[c]
<1> DEFINE then == [deskCalls[c] EXCEPT !.stage = "done"]
<1> DEFINE not == [deskCalls[c] EXCEPT !.stage = "refused"]
<1>1. call \in DeskRequest /\ call.stage = "sent" /\ RequestSound(call) /\ deskCalls \in [DeskCall -> DeskRequest]
  BY DEF ChangeServed, DeskInv, RequestTypes
<1>2. /\ then \in DeskRequest /\ RequestSound(then) /\ then.kind = call.kind
      /\ not \in DeskRequest /\ RequestSound(not) /\ not.kind = call.kind
      /\ Awaited(call) => Awaited(then) /\ Awaited(not)
      /\ call.kind # "password" => Awaited(then)
  BY <1>1 DEF DeskRequest, RequestSound, Awaited
<1>3. UNCHANGED <<list, listFetch, lastLoad, behind, deskQuestion, deskForm>>
  BY DEF ChangeServed, listVars
<1>4. /\ deskCalls' = [deskCalls EXCEPT ![c] = then] \/ deskCalls' = [deskCalls EXCEPT ![c] = not]
      /\ AccountTypes'
      /\ accounts' = accounts \/ (deskCalls' = [deskCalls EXCEPT ![c] = then] /\ call.kind # "password")
  <2>1. CASE /\ call.kind = "create" /\ made < Accounts /\ made' = made + 1
             /\ accounts' = [accounts EXCEPT ![made + 1] =
                    [NoAccount EXCEPT !.role = call.role, !.linked = call.linked, !.disabled = FALSE, !.there = TRUE]]
             /\ deskCalls' = [deskCalls EXCEPT ![c].stage = "done"]
    <3>1. made' \in Existing .. Accounts
      BY <2>1, DeskAssumption DEF DeskInv, AccountTypes
    <3>2. [NoAccount EXCEPT !.role = call.role, !.linked = call.linked, !.disabled = FALSE, !.there = TRUE] \in AccountRow
          /\ [NoAccount EXCEPT !.role = call.role, !.linked = call.linked, !.disabled = FALSE, !.there = TRUE].there
      BY <1>1 DEF DeskRequest, NoAccount, AccountRow
    <3>3. AccountTypes'
      BY <2>1, <3>1, <3>2, SelfThere DEF DeskInv, AccountTypes
    <3> QED BY <1>1, <2>1, <3>3
  <2>2. CASE /\ call.kind # "create" /\ accounts[call.account].there
             /\ accounts' = [accounts EXCEPT ![call.account] = Changed(call)]
             /\ deskCalls' = [deskCalls EXCEPT ![c].stage = "done"] /\ UNCHANGED made
    <3>1. call.kind \in RowCalls /\ call.account \in AccountId
      BY <1>1, <2>2 DEF DeskRequest, RequestSound, CallKind, RowCalls, RowKind, FormKind
    <3>2. accounts[call.account] \in AccountRow
      BY <3>1 DEF DeskInv, AccountTypes
    <3>3. Changed(call) \in AccountRow
      <4>1. NoAccount \in AccountRow
        BY DEF NoAccount, AccountRow, Role
      <4> QED BY <1>1, <3>2, <4>1 DEF Changed, DeskRequest, AccountRow
    <3>4. call.account = Self => Changed(call).there
      BY <1>1, <2>2, <3>2 DEF Changed, RequestSound, AccountRow
    <3>5. AccountTypes'
      BY <2>2, <3>1, <3>3, <3>4, SelfThere DEF DeskInv, AccountTypes
    <3>6. call.kind = "password" => accounts' = accounts
      <4> SUFFICES ASSUME call.kind = "password" PROVE accounts' = accounts
        OBVIOUS
      <4>1. Changed(call) = accounts[call.account]
        BY DEF Changed
      <4> QED BY <2>2, <3>1, <4>1 DEF DeskInv, AccountTypes
    <3> QED BY <1>1, <2>2, <3>5, <3>6
  <2>3. CASE UNCHANGED serverVars /\ deskCalls' = [deskCalls EXCEPT ![c].stage = "refused"]
    BY <1>1, <2>3 DEF serverVars, DeskInv, AccountTypes
  <2> QED BY <2>1, <2>2, <2>3 DEF ChangeServed
<1> HIDE DEF then, not
<1>5. RequestTypes' /\ (Awaiting => Awaiting')
  BY <1>2, <1>4, RequestIn DEF DeskInv
<1>6. accounts' = accounts \/ Awaiting'
  BY <1>2, <1>4, RequestIn DEF DeskInv
<1>7. (\E d \in DeskCall : deskCalls'[d].kind = "role") => \E d \in DeskCall : deskCalls[d].kind = "role"
  BY <1>2, <1>4, RequestIn DEF DeskInv
<1>8. RoleListed' /\ AccountListTypes' /\ AskTypes'
  BY <1>3, <1>7 DEF DeskInv, RoleListed, AccountListTypes, AskTypes
<1>9. ListTrue'
  BY <1>3, <1>5, <1>6 DEF DeskInv, ListTrue, Alike
<1> QED BY <1>4, <1>5, <1>8, <1>9 DEF DeskInv

\* The end of a request: what it changed is loaded anew, or the page is behind.
LEMMA OverStep ==
    ASSUME DeskInv, NEW c \in DeskCall, NEW ok \in BOOLEAN, NEW q \in {NoRequest, [deskCalls[c] EXCEPT !.stage = "loading"]},
           deskCalls[c].stage \in {"done", "refused"}, ok => deskCalls[c].stage = "done",
           q # NoRequest => deskCalls[c].kind # "role",
           deskCalls' = [deskCalls EXCEPT ![c] = q],
           UNCHANGED <<accounts, made, lastLoad, deskQuestion>>, AskTypes',
           ReloadsAfter(deskCalls[c], ok), behind' = (behind \/ BehindAfter(deskCalls[c], ok)),
           list' = list \/ (deskCalls[c].kind = "role" /\ list' = RoleInList(deskCalls[c].account, deskCalls[c].old))
    PROVE  DeskInv'
<1> DEFINE call == deskCalls[c]
<1>1. call \in DeskRequest /\ RequestSound(call)
  BY DEF DeskInv, RequestTypes
<1>2. q \in DeskRequest /\ RequestSound(q) /\ ~Awaited(q) /\ q.kind # "role"
  <2>1. CASE q = NoRequest
    BY <2>1, NothingAsked DEF NoRequest
  <2>2. CASE q # NoRequest
    BY <1>1, <2>2 DEF DeskRequest, RequestSound, Awaited
  <2> QED BY <2>1, <2>2
<1>3. RequestTypes'
  BY <1>2, RequestIn DEF DeskInv
<1>4. (\E d \in DeskCall : deskCalls'[d].kind = "role") => \E d \in DeskCall : deskCalls[d].kind = "role"
  BY <1>2, RequestIn DEF DeskInv
<1>5. list' \in [AccountId -> AccountRow] /\ (list' = NoList \/ list'[Self].there) /\ (list # NoList => list' # NoList)
  <2>1. call.kind = "role" => call.old \in Role
    BY <1>1 DEF DeskRequest
  <2> QED BY <2>1, RoleInListTyped DEF DeskInv, AccountListTypes
<1>6. listFetch' \in {listFetch, Fetch} /\ behind' \in BOOLEAN
  <2>1. Joins \in BOOLEAN /\ BehindAfter(call, ok) \in BOOLEAN
    BY DEF Joins, BehindAfter
  <2> QED BY <2>1 DEF ReloadsAfter, Reload, DeskInv, AccountListTypes
<1>7. AccountListTypes'
  BY <1>5, <1>6 DEF DeskInv, AccountListTypes, Fetch
<1>8. RoleListed'
  BY <1>4, <1>5 DEF DeskInv, RoleListed
<1>9. ListTrue'
  <2>1. CASE call.kind = "role"
    <3>1. list # NoList
      BY <2>1 DEF DeskInv, RoleListed
    <3>2. listFetch' = Fetch
      BY <2>1, <3>1 DEF ReloadsAfter, Reload, Joins
    <3> QED BY <3>2 DEF ListTrue, Fetch
  <2>2. CASE call.kind # "role" /\ Awaited(call)
    <3>1. call.stage = "done" /\ call.kind # "password"
      BY <2>2 DEF Awaited
    <3>2. listFetch' = Fetch \/ behind'
      BY <2>2, <3>1 DEF ReloadsAfter, Reload, BehindAfter
    <3> QED BY <3>2 DEF ListTrue, Fetch
  <2>3. CASE call.kind # "role" /\ ~Awaited(call)
    <3>1. Awaiting => Awaiting'
      BY <1>2, <2>3, RequestIn DEF DeskInv
    <3>2. list' = list /\ (behind => behind')
      BY <2>3 DEF DeskInv, AccountListTypes
    <3> QED BY <1>6, <3>1, <3>2 DEF DeskInv, ListTrue, Fetch, Alike
  <2> QED BY <2>1, <2>2, <2>3
<1> QED BY <1>3, <1>7, <1>8, <1>9 DEF DeskInv, AccountTypes

LEMMA ChangeOverStep ==
    ASSUME DeskInv, NEW c \in DeskCall, NEW ok \in BOOLEAN, ChangeOver(c, ok)
    PROVE  DeskInv'
<1> DEFINE q == IF ok /\ deskCalls[c].kind # "role" THEN [deskCalls[c] EXCEPT !.stage = "loading"] ELSE NoRequest
<1>1. deskCalls' = [deskCalls EXCEPT ![c] = q]
  BY DEF ChangeOver
<1>2. q \in {NoRequest, [deskCalls[c] EXCEPT !.stage = "loading"]} /\ (q # NoRequest => deskCalls[c].kind # "role")
  OBVIOUS
<1> HIDE DEF q
<1>3. UNCHANGED <<accounts, made, lastLoad, deskQuestion>> /\ AskTypes'
  BY DEF ChangeOver, serverVars, DeskInv, AskTypes
<1>4. list' = list \/ (deskCalls[c].kind = "role" /\ list' = RoleInList(deskCalls[c].account, deskCalls[c].old))
  BY DEF ChangeOver
<1> QED BY <1>1, <1>2, <1>3, <1>4, OverStep DEF ChangeOver

LEMMA FormOverStep ==
    ASSUME DeskInv, NEW c \in DeskCall, NEW ok \in BOOLEAN, FormOver(c, ok)
    PROVE  DeskInv'
<1>1. UNCHANGED <<accounts, made, lastLoad, deskQuestion, list>>
  BY DEF FormOver, serverVars
<1>2. AskTypes'
  <2>1. deskForm' \in {NoForm, [deskForm EXCEPT !.call = 0], deskForm}
    BY DEF FormOver
  <2>2. CASE deskForm = NoForm
    <3>1. deskForm' = NoForm
      BY <2>1, <2>2 DEF NoForm
    <3> QED BY <1>1, <3>1, NothingAsked DEF DeskInv, AskTypes
  <2>3. CASE deskForm # NoForm
    BY <1>1, <2>1, <2>3, NothingAsked DEF DeskInv, AskTypes, DeskForm
  <2> QED BY <2>2, <2>3
<1> QED BY <1>1, <1>2, OverStep DEF FormOver

LEMMA ChangeLoadedStep == ASSUME DeskInv, NEW c \in DeskCall, ChangeLoaded(c) PROVE DeskInv'
<1>1. UNCHANGED <<accounts, made, list, listFetch, lastLoad, behind, deskQuestion, deskForm>>
  BY DEF ChangeLoaded, serverVars, listVars
<1>2. deskCalls' = [deskCalls EXCEPT ![c] = NoRequest] /\ deskCalls[c].stage = "loading"
  BY DEF ChangeLoaded
<1>3. RequestTypes'
  BY <1>2, RequestIn, NothingAsked DEF DeskInv
<1>4. NoRequest.kind # "role"
  BY DEF NoRequest
<1>5. (\E d \in DeskCall : deskCalls'[d].kind = "role") => \E d \in DeskCall : deskCalls[d].kind = "role"
  BY <1>2, <1>4, RequestIn, NothingAsked DEF DeskInv
<1>6. RoleListed'
  BY <1>1, <1>5 DEF DeskInv, RoleListed
<1>7. AccountTypes' /\ AccountListTypes' /\ AskTypes'
  BY <1>1 DEF DeskInv, AccountTypes, AccountListTypes, AskTypes
<1>8. ListTrue'
  <2>1. ~Awaited(deskCalls[c])
    BY <1>2 DEF Awaited, DeskInv, RequestTypes, RequestSound
  <2>2. Awaiting => Awaiting'
    BY <1>2, <2>1, RequestIn, NothingAsked DEF DeskInv
  <2> QED BY <1>1, <2>2 DEF DeskInv, ListTrue, Alike
<1> QED BY <1>3, <1>6, <1>7, <1>8 DEF DeskInv

LEMMA ListSteps ==
    ASSUME DeskInv, AccountsAsked \/ AccountsServed \/ AccountsArrive \/ AccountsLost
    PROVE  DeskInv'
<1>1. UNCHANGED <<accounts, made, deskQuestion, deskForm, deskCalls>>
  BY DEF AccountsAsked, AccountsServed, AccountsArrive, AccountsLost, LoadUnchanged, serverVars, callVars
<1>2. AccountTypes' /\ AskTypes' /\ RequestTypes' /\ Awaiting' = Awaiting
  BY <1>1 DEF DeskInv, AccountTypes, AskTypes, RequestTypes, RequestSound, Awaiting, Awaited
<1>3. CASE AccountsAsked
  <2>1. listFetch' = Fetch /\ UNCHANGED <<list, lastLoad, behind>>
    BY <1>3 DEF AccountsAsked
  <2> QED BY <1>1, <1>2, <2>1 DEF DeskInv, AccountListTypes, RoleListed, ListTrue, Fetch
<1>4. CASE AccountsServed
  <2>1. listFetch'.stage = "answered" /\ listFetch'.answer = accounts /\ behind' = FALSE /\ UNCHANGED <<list, lastLoad>>
    BY <1>4 DEF AccountsServed
  <2> QED BY <1>1, <1>2, <2>1 DEF DeskInv, AccountTypes, AccountListTypes, RoleListed, ListTrue, Alike
<1>5. CASE AccountsArrive
  <2>1. listFetch'.stage = "none" /\ lastLoad' = "ok" /\ list' = listFetch.answer /\ listFetch.stage = "answered"
        /\ UNCHANGED behind
    BY <1>5 DEF AccountsArrive, ListIs, NoFetch
  <2>2. AccountListTypes' /\ list' # NoList
    BY <2>1, SelfThere DEF DeskInv, AccountListTypes
  <2> QED BY <1>1, <1>2, <2>1, <2>2 DEF DeskInv, RoleListed, ListTrue, Alike
<1>6. CASE AccountsLost
  <2>1. listFetch'.stage = "none" /\ lastLoad' = "failed" /\ UNCHANGED <<list, behind>>
    BY <1>6 DEF AccountsLost, NoFetch
  <2> QED BY <1>1, <1>2, <2>1 DEF DeskInv, AccountListTypes, RoleListed, ListTrue
<1> QED BY <1>3, <1>4, <1>5, <1>6

LEMMA OtherAdminStep == ASSUME DeskInv, NEW a \in AccountId, OtherAdmin(a) PROVE DeskInv'
<1>1. UNCHANGED <<made, list, listFetch, lastLoad, deskQuestion, deskForm, deskCalls>> /\ behind' = TRUE /\ a # Self
  BY DEF OtherAdmin, listVars, callVars
<1>2. AccountTypes'
  <2>1. NoAccount \in AccountRow /\ \A r \in Role : [accounts[a] EXCEPT !.role = r] \in AccountRow
    BY DEF NoAccount, AccountRow, Role, DeskInv, AccountTypes
  <2>2. CASE \E r \in Role \ {accounts[a].role} : accounts' = [accounts EXCEPT ![a].role = r]
    BY <1>1, <2>1, <2>2, SelfThere DEF DeskInv, AccountTypes
  <2>3. CASE accounts' = [accounts EXCEPT ![a] = NoAccount]
    BY <1>1, <2>1, <2>3, SelfThere DEF DeskInv, AccountTypes
  <2> QED BY <2>2, <2>3 DEF OtherAdmin
<1> QED BY <1>1, <1>2 DEF DeskInv, AccountListTypes, AskTypes, RequestTypes, RequestSound, RoleListed, ListTrue

\* The second factor of the own account is none of what the list is held to.
LEMMA FactorSteps ==
    ASSUME DeskInv,
           \/ OpenFactor \/ CloseFactor \/ SubmitCode \/ FactorServed \/ SecretComes \/ FactorDone
           \/ FactorFails \/ CodesSaved
    PROVE  DeskInv'
<1>1. UNCHANGED <<made, listFetch, lastLoad, behind, deskQuestion, deskForm, deskCalls>>
  BY DEF OpenFactor, CloseFactor, SubmitCode, FactorServed, SecretComes, FactorDone, FactorFails, CodesSaved,
         FactorUnchanged, serverVars, listVars, callVars
<1>2. accounts' = accounts \/ accounts' = [accounts EXCEPT ![Self].totp = ~@]
  BY DEF OpenFactor, CloseFactor, SubmitCode, FactorServed, SecretComes, FactorDone, FactorFails, CodesSaved, serverVars
<1>3. list' = list \/ (list[Self].there /\ \E on \in BOOLEAN : list' = [list EXCEPT ![Self].totp = on])
  BY DEF OpenFactor, CloseFactor, SubmitCode, FactorServed, SecretComes, FactorDone, FactorFails, CodesSaved,
         FactorUnchanged, listVars
<1>4. AccountTypes' /\ Alike(accounts, accounts')
  <2>1. CASE accounts' = accounts
    BY <1>1, <2>1 DEF DeskInv, AccountTypes, Alike
  <2>2. CASE accounts' = [accounts EXCEPT ![Self].totp = ~@]
    <3>1. accounts[Self] \in AccountRow /\ [accounts[Self] EXCEPT !.totp = ~@] \in AccountRow
      BY SelfThere DEF DeskInv, AccountTypes, AccountRow
    <3>2. accounts' = [accounts EXCEPT ![Self] = [accounts[Self] EXCEPT !.totp = ~@]]
      BY <2>2
    <3>3. AccountTypes'
      BY <1>1, <3>1, <3>2, SelfThere DEF DeskInv, AccountTypes, AccountRow
    <3>4. Alike(accounts, accounts')
      BY <3>1, <3>2, SelfThere DEF DeskInv, AccountTypes, AccountRow, Alike
    <3> QED BY <3>3, <3>4
  <2> QED BY <1>2, <2>1, <2>2
<1>5. list' \in [AccountId -> AccountRow] /\ Alike(list', list) /\ (list # NoList => list' # NoList)
      /\ (list' = NoList \/ list'[Self].there)
  <2>1. CASE list' = list
    BY <2>1 DEF DeskInv, AccountListTypes, Alike
  <2>2. CASE list[Self].there /\ \E on \in BOOLEAN : list' = [list EXCEPT ![Self].totp = on]
    <3>1. list' \in [AccountId -> AccountRow] /\ Alike(list', list) /\ list'[Self].there
      BY <2>2, SelfThere DEF DeskInv, AccountListTypes, AccountRow, Alike
    <3> QED BY <3>1, SelfThere
  <2> QED BY <1>3, <2>1, <2>2
<1>6. AccountListTypes' /\ RoleListed' /\ AskTypes' /\ RequestTypes' /\ (Awaiting' <=> Awaiting)
  BY <1>1, <1>5 DEF DeskInv, AccountListTypes, RoleListed, AskTypes, RequestTypes, RequestSound, Awaiting, Awaited
<1>7. ListTrue'
  <2>1. \A x : Alike(x, accounts) => Alike(x, accounts')
    BY <1>4 DEF Alike
  <2>2. Alike(list, accounts) => Alike(list', accounts')
    BY <1>4, <1>5 DEF Alike
  <2>3. (~behind /\ ~Awaiting) =>
            /\ listFetch.stage = "answered" => Alike(listFetch.answer, accounts')
            /\ listFetch.stage = "none" /\ lastLoad = "ok" => Alike(list', accounts')
    BY <2>1, <2>2 DEF DeskInv, ListTrue
  <2> QED BY <1>1, <1>6, <2>3 DEF ListTrue, Alike
<1> QED BY <1>4, <1>6, <1>7 DEF DeskInv

LEMMA DeskInvStep == ASSUME DeskInv, [DeskNext]_deskVars PROVE DeskInv'
<1>1. CASE UNCHANGED deskVars
  BY <1>1 DEF deskVars, serverVars, listVars, callVars, DeskInv, AccountTypes, AccountListTypes, AskTypes, RequestTypes,
              RequestSound, RoleListed, ListTrue, Alike, Awaiting, Awaited
<1>2. CASE DeskNext
  <2>1. CASE ConfirmChange
    BY <2>1, ConfirmChangeStep
  <2>2. ASSUME NEW a \in AccountId \cup {0}, NEW k \in FormKind, DeclineChange \/ CloseForm \/ OpenForm(a, k)
        PROVE  DeskInv'
    BY <2>2, DialogSteps
  <2>3. CASE \E filled \in Fillings : SubmitForm(filled)
    BY <2>3, SubmitStep
  <2>4. ASSUME NEW a \in AccountId,
               (\E r \in Role : ChangeRole(a, r)) \/ (\E k \in RowKind : ChooseInMenu(a, k)) \/ OtherAdmin(a)
        PROVE  DeskInv'
    BY <2>4, ChangeRoleStep, ChooseInMenuStep, OtherAdminStep
  <2>5. ASSUME NEW c \in DeskCall,
               ChangeServed(c) \/ ChangeLoaded(c) \/ \E ok \in BOOLEAN : ChangeOver(c, ok) \/ FormOver(c, ok)
        PROVE  DeskInv'
    BY <2>5, ServedChange, ChangeLoadedStep, ChangeOverStep, FormOverStep
  <2>6. 0 \in AccountId \cup {0} /\ "create" \in FormKind
    BY DEF FormKind
  <2> QED BY <1>2, <2>1, <2>2, <2>3, <2>4, <2>5, <2>6, ListSteps, FactorSteps DEF DeskNext
<1> QED BY <1>1, <1>2

\* With nothing under way, the list of accounts shows what the server holds,
\* the second factor apart, which changes elsewhere (AccountManagement: a
\* role set at once, the write, the reload), for any number of accounts and
\* of requests that overlap.
THEOREM ListIsHonest == DeskSpec => []ListSettles
<1>1. DeskInv => ListSettles
  <2> SUFFICES ASSUME DeskInv, Settled PROVE \A a \in AccountId : [list[a] EXCEPT !.totp = FALSE] = [accounts[a] EXCEPT !.totp = FALSE]
    BY DEF ListSettles
  <2>1. ~Awaiting
    BY NothingAsked DEF Settled, Awaiting
  <2>2. listFetch.stage = "none" /\ lastLoad = "ok" /\ ~behind
    BY DEF Settled, NoFetch
  <2>3. Alike(list, accounts)
    BY <2>1, <2>2 DEF DeskInv, ListTrue
  <2> QED BY <2>3, AlikeTyped DEF DeskInv, AccountTypes, AccountListTypes
<1> QED BY DeskInvInit, DeskInvStep, <1>1, PTL DEF DeskSpec


-----------------------------------------------------------------------------
(* What the account page keeps beside its list and its requests.           *)

FetchRow == [stage: {"none", "asked", "answered"}, answer: [AccountId -> AccountRow]]
FactorRow == [kind: {"idle", "secret", "setup", "disable"}, stage: {"none", "sent", "done", "refused"}]
\* Ids are given in order: an account that is there has been made.
IdsMade == \A a \in AccountId : accounts[a].there => a <= made
PanelTypes ==
    /\ ownTotp \in {"unset", "on", "off"} /\ factorMode \in {"idle", "setup", "disable"}
    /\ factorCall \in FactorRow /\ codes \in BOOLEAN
RowTypes == busyRows \subseteq AccountId /\ afterDelete \in AccountId \cup {0}
DeskRest == IdsMade /\ listFetch \in FetchRow /\ PanelTypes /\ RowTypes

LEMMA DeskTyped == DeskInv /\ DeskRest => DeskTypeOK
BY DEF DeskInv, DeskRest, IdsMade, FetchRow, FactorRow, PanelTypes, RowTypes, AccountTypes, AccountListTypes, AskTypes,
       RequestTypes, Question, DeskForm, DeskRequest, DeskTypeOK

LEMMA DeskRestInit == DeskInit => DeskRest
<1> SUFFICES ASSUME DeskInit PROVE DeskRest
  OBVIOUS
<1>1. IdsMade
  <2> SUFFICES ASSUME NEW a \in AccountId, accounts[a].there PROVE a <= made
    BY DEF IdsMade
  <2>1. a > Existing => ~accounts[a].there
    BY DEF DeskInit, NoAccount
  <2> QED BY <2>1, DeskAssumption DEF DeskInit, AccountId
<1>2. listFetch \in FetchRow
  BY SelfThere DEF DeskInit, Fetch, FetchRow
<1> QED BY <1>1, <1>2 DEF DeskInit, DeskRest, PanelTypes, RowTypes, FactorRow, NoFactorCall

\* The load of the list is none, under way, or answered with accounts.
LEMMA FetchTyped ==
    ASSUME DeskInv, DeskRest, NEW ok \in BOOLEAN, NEW call,
           \/ listFetch' \in {listFetch, NoFetch, Fetch}
           \/ Reload \/ ReloadsAfter(call, ok)
           \/ listFetch' = [stage |-> "answered", answer |-> accounts]
    PROVE  listFetch' \in FetchRow
<1>1. /\ NoFetch \in FetchRow /\ Fetch \in FetchRow /\ listFetch \in FetchRow
      /\ [stage |-> "answered", answer |-> accounts] \in FetchRow
  BY SelfThere DEF FetchRow, NoFetch, Fetch, DeskRest, DeskInv, AccountTypes
<1>2. Reload => listFetch' \in {listFetch, Fetch}
  BY DEF Reload
<1>3. ReloadsAfter(call, ok) => Reload \/ listFetch' = listFetch
  BY DEF ReloadsAfter
<1> QED BY <1>1, <1>2, <1>3

\* The panel after the list has changed under it.
LEMMA FollowsTyped ==
    ASSUME PanelTypes, NEW mode \in {"idle", "setup", "disable"}, NEW shown \in BOOLEAN, PanelFollows(mode, shown),
           ownTotp' \in {"unset", "on", "off"}, factorCall' \in FactorRow
    PROVE  PanelTypes'
<1>1. factorMode' \in {"idle", mode}
  BY DEF PanelFollows
<1>2. codes' \in BOOLEAN
  BY DEF PanelFollows
<1> QED BY <1>1, <1>2 DEF PanelTypes, FactorRow

LEMMA ListIsTyped ==
    ASSUME DeskRest, NEW l, ListIs(l)
    PROVE  PanelTypes' /\ afterDelete' \in AccountId \cup {0}
<1>1. ownTotp' = ownTotp /\ factorCall' = factorCall /\ PanelFollows(factorMode, codes) /\ PanelTypes
  BY DEF ListIs, DeskRest
<1>2. PanelTypes'
  BY <1>1, FollowsTyped DEF PanelTypes
<1>3. afterDelete' \in {0, afterDelete}
  BY DEF ListIs, FocusFollows
<1> QED BY <1>2, <1>3 DEF DeskRest, RowTypes

\* Steps of the page that change no account.
LEMMA PageRest ==
    ASSUME DeskRest, UNCHANGED serverVars, listFetch' \in FetchRow, PanelTypes', RowTypes'
    PROVE  DeskRest'
BY DEF DeskRest, IdsMade, serverVars, FetchRow, AccountRow

LEMMA SendRest ==
    ASSUME DeskInv, DeskRest, UNCHANGED serverVars, NEW a \in AccountId,
           \/ \E r, old : SendRole(a, r, old)
           \/ \E k : SendChange(a, k)
    PROVE  DeskRest'
<1>1. listFetch' \in FetchRow
  BY FetchTyped DEF SendRole, SendChange
<1>2. CASE \E r, old : SendRole(a, r, old)
  <2>1. busyRows' = busyRows \cup {a} /\ \E l : ListIs(l)
    BY <1>2 DEF SendRole
  <2>2. PanelTypes' /\ afterDelete' \in AccountId \cup {0}
    BY <2>1, ListIsTyped
  <2>3. RowTypes'
    BY <2>1, <2>2 DEF RowTypes, DeskRest
  <2> QED BY <1>1, <2>2, <2>3, PageRest
<1>3. CASE \E k : SendChange(a, k)
  <2>1. busyRows' = busyRows \cup {a} /\ afterDelete' \in {a, afterDelete} /\ UNCHANGED factorVars
    BY <1>3 DEF SendChange
  <2>2. PanelTypes' /\ RowTypes'
    BY <2>1 DEF DeskRest, PanelTypes, RowTypes, factorVars, FactorRow
  <2> QED BY <1>1, <2>2, PageRest
<1> QED BY <1>2, <1>3

LEMMA AskRest ==
    ASSUME DeskInv, DeskRest, NEW a \in AccountId, NEW r, NEW k, ChangeRole(a, r) \/ ChooseInMenu(a, k) \/ ConfirmChange
    PROVE  DeskRest'
<1>1. UNCHANGED serverVars
  BY DEF ChangeRole, ChooseInMenu, ConfirmChange
<1>2. CASE UNCHANGED <<list, listFetch, callVars, factorVars, afterDelete>>
  BY <1>1, <1>2, PageRest DEF DeskRest, PanelTypes, RowTypes, callVars, factorVars, FetchRow, FactorRow
<1>3. ASSUME ~UNCHANGED <<list, listFetch, callVars, factorVars, afterDelete>>
      PROVE  \E b \in AccountId : (\E s, old : SendRole(b, s, old)) \/ \E j : SendChange(b, j)
  <2>1. CASE ChangeRole(a, r)
    BY <1>3, <2>1 DEF ChangeRole
  <2>2. CASE ChooseInMenu(a, k)
    BY <1>3, <2>2 DEF ChooseInMenu
  <2>3. CASE ConfirmChange
    BY <2>3 DEF ConfirmChange, DeskInv, AskTypes
  <2> QED BY <2>1, <2>2, <2>3
<1> QED BY <1>1, <1>2, <1>3, SendRest

LEMMA DialogRest ==
    ASSUME DeskInv, DeskRest, NEW a, NEW k, NEW filled, DeclineChange \/ CloseForm \/ OpenForm(a, k) \/ SubmitForm(filled)
    PROVE  DeskRest'
<1>1. UNCHANGED <<serverVars, listVars, busyRows, factorVars, afterDelete>>
  BY DEF DeclineChange, CloseForm, OpenForm, SubmitForm, callVars
<1> QED BY <1>1, PageRest DEF DeskRest, PanelTypes, RowTypes, listVars, factorVars, FetchRow, FactorRow

LEMMA ServedRest == ASSUME DeskInv, DeskRest, NEW c \in DeskCall, ChangeServed(c) PROVE DeskRest'
<1>1. UNCHANGED <<listFetch, busyRows, factorVars, afterDelete>>
  BY DEF ChangeServed, listVars
<1>2. IdsMade'
  <2>1. accounts \in [AccountId -> AccountRow] /\ made \in Nat /\ IdsMade
    BY DeskAssumption DEF DeskInv, AccountTypes, DeskRest
  <2>2. CASE made' = made + 1 /\ \E row : accounts' = [accounts EXCEPT ![made + 1] = row]
    <3> SUFFICES ASSUME NEW a \in AccountId, accounts'[a].there PROVE a <= made'
      BY DEF IdsMade
    <3>1. a # made + 1 => accounts'[a] = accounts[a]
      BY <2>1, <2>2
    <3> QED BY <2>1, <2>2, <3>1 DEF IdsMade, AccountId
  <2>3. CASE /\ accounts[deskCalls[c].account].there /\ made' = made
             /\ \E row : accounts' = [accounts EXCEPT ![deskCalls[c].account] = row]
    <3> SUFFICES ASSUME NEW a \in AccountId, accounts'[a].there PROVE a <= made'
      BY DEF IdsMade
    <3>1. a # deskCalls[c].account => accounts'[a] = accounts[a]
      BY <2>1, <2>3
    <3>2. accounts[a].there
      BY <2>3, <3>1
    <3> QED BY <2>1, <2>3, <3>2 DEF IdsMade
  <2>4. CASE UNCHANGED serverVars
    BY <2>1, <2>4 DEF serverVars, IdsMade
  <2> QED BY <2>2, <2>3, <2>4 DEF ChangeServed
<1> QED BY <1>1, <1>2 DEF DeskRest, PanelTypes, RowTypes, factorVars, FetchRow, FactorRow

LEMMA OverRest ==
    ASSUME DeskInv, DeskRest, NEW c \in DeskCall, NEW ok \in BOOLEAN, ChangeOver(c, ok) \/ ChangeLoaded(c) \/ FormOver(c, ok)
    PROVE  DeskRest'
<1>1. UNCHANGED serverVars
  BY DEF ChangeOver, ChangeLoaded, FormOver
<1>2. listFetch' \in FetchRow
  <2>1. listFetch' = listFetch \/ ReloadsAfter(deskCalls[c], ok)
    BY DEF ChangeOver, ChangeLoaded, FormOver, listVars
  <2> QED BY <2>1, FetchTyped
<1>3. RowTypes'
  BY DEF ChangeOver, ChangeLoaded, FormOver, RowTypes, DeskRest
<1>4. PanelTypes'
  <2>1. UNCHANGED factorVars \/ (UNCHANGED <<ownTotp, factorCall>> /\ PanelFollows(factorMode, codes))
    BY DEF ChangeOver, ChangeLoaded, FormOver
  <2>2. PanelTypes
    BY DEF DeskRest
  <2>3. CASE UNCHANGED factorVars
    BY <2>2, <2>3 DEF factorVars, PanelTypes, FactorRow
  <2>4. CASE UNCHANGED <<ownTotp, factorCall>> /\ PanelFollows(factorMode, codes)
    BY <2>2, <2>4, FollowsTyped DEF PanelTypes
  <2> QED BY <2>1, <2>3, <2>4
<1> QED BY <1>1, <1>2, <1>3, <1>4, PageRest

LEMMA LoadRest ==
    ASSUME DeskInv, DeskRest, AccountsAsked \/ AccountsServed \/ AccountsArrive \/ AccountsLost
    PROVE  DeskRest'
<1>1. UNCHANGED serverVars /\ UNCHANGED busyRows
  BY DEF AccountsAsked, AccountsServed, AccountsArrive, AccountsLost, LoadUnchanged, callVars
<1>2. listFetch' \in FetchRow
  BY FetchTyped DEF AccountsAsked, AccountsServed, AccountsArrive, AccountsLost
<1>3. (UNCHANGED <<factorVars, afterDelete>>) \/ \E l : ListIs(l)
  BY DEF AccountsAsked, AccountsServed, AccountsArrive, AccountsLost
<1>4. PanelTypes' /\ afterDelete' \in AccountId \cup {0}
  <2>1. CASE UNCHANGED <<factorVars, afterDelete>>
    BY <2>1 DEF factorVars, PanelTypes, FactorRow, DeskRest, RowTypes
  <2> QED BY <1>3, <2>1, ListIsTyped
<1>5. RowTypes'
  BY <1>1, <1>4 DEF RowTypes, DeskRest
<1> QED BY <1>1, <1>2, <1>4, <1>5, PageRest

LEMMA OtherAdminRest == ASSUME DeskInv, DeskRest, NEW a \in AccountId, OtherAdmin(a) PROVE DeskRest'
<1>1. UNCHANGED <<made, listFetch, busyRows, factorVars, afterDelete>>
  BY DEF OtherAdmin, listVars, callVars
<1>2. IdsMade'
  <2> SUFFICES ASSUME NEW b \in AccountId, accounts'[b].there PROVE accounts[b].there
    BY <1>1 DEF IdsMade, DeskRest
  <2>1. accounts[a].there /\ (b # a => accounts'[b] = accounts[b])
    BY DEF OtherAdmin, DeskInv, AccountTypes
  <2> QED BY <2>1
<1> QED BY <1>1, <1>2 DEF DeskRest, PanelTypes, RowTypes, factorVars, FetchRow, FactorRow

LEMMA FactorRest ==
    ASSUME DeskInv, DeskRest,
           \/ OpenFactor \/ CloseFactor \/ SubmitCode \/ FactorServed \/ SecretComes \/ FactorDone
           \/ FactorFails \/ CodesSaved
    PROVE  DeskRest'
<1>1. UNCHANGED <<made, listFetch, busyRows, afterDelete>>
  BY DEF OpenFactor, CloseFactor, SubmitCode, FactorServed, SecretComes, FactorDone, FactorFails, CodesSaved,
         FactorUnchanged, serverVars, listVars, callVars
<1>2. accounts' = accounts \/ accounts' = [accounts EXCEPT ![Self].totp = ~@]
  BY DEF OpenFactor, CloseFactor, SubmitCode, FactorServed, SecretComes, FactorDone, FactorFails, CodesSaved, serverVars
<1>3. IdsMade'
  <2> SUFFICES ASSUME NEW b \in AccountId, accounts'[b].there PROVE accounts[b].there
    BY <1>1 DEF IdsMade, DeskRest
  <2>1. accounts[Self].there /\ (b # Self => accounts'[b] = accounts[b])
    BY <1>2 DEF DeskInv, AccountTypes
  <2> QED BY <2>1
<1>4. PanelTypes /\ factorCall \in FactorRow /\ NoFactorCall \in FactorRow
  BY DEF DeskRest, PanelTypes, FactorRow, NoFactorCall
<1>5. PanelTypes'
  <2>1. CASE FactorDone
    <3>1. ownTotp' \in {"unset", "on", "off"} /\ factorCall' \in FactorRow
          /\ PanelFollows("idle", codes \/ factorCall.kind = "setup")
      BY <1>4, <2>1 DEF FactorDone
    <3>2. (codes \/ factorCall.kind = "setup") \in BOOLEAN
      BY <1>4 DEF PanelTypes
    <3> QED BY <1>4, <3>1, <3>2, FollowsTyped
  <2>2. CASE OpenFactor
    <3>1. factorCall' \in FactorRow /\ factorMode' \in {"disable", factorMode} /\ UNCHANGED <<ownTotp, codes>>
      BY <1>4, <2>2 DEF OpenFactor, FactorRow
    <3> QED BY <1>4, <3>1 DEF PanelTypes
  <2>5. CASE CloseFactor \/ SecretComes \/ FactorFails \/ CodesSaved
    BY <1>4, <2>5 DEF CloseFactor, SecretComes, FactorFails, CodesSaved, PanelTypes
  <2>3. CASE SubmitCode
    BY <1>4, <2>3 DEF SubmitCode, PanelTypes, FactorRow
  <2>4. CASE FactorServed
    <3>1. [factorCall EXCEPT !.stage = "done"] \in FactorRow /\ [factorCall EXCEPT !.stage = "refused"] \in FactorRow
      BY <1>4 DEF FactorRow
    <3> QED BY <1>4, <2>4, <3>1 DEF FactorServed, PanelTypes
  <2> QED BY <2>1, <2>2, <2>3, <2>4, <2>5
<1> QED BY <1>1, <1>3, <1>5 DEF DeskRest, RowTypes, FetchRow

LEMMA DeskRestStep == ASSUME DeskInv, DeskRest, [DeskNext]_deskVars PROVE DeskRest'
<1>1. CASE UNCHANGED deskVars
  BY <1>1 DEF deskVars, serverVars, listVars, callVars, factorVars, DeskRest, IdsMade, PanelTypes, RowTypes, FetchRow, FactorRow
<1>2. CASE DeskNext
  BY <1>2, SelfThere, AskRest, DialogRest, ServedRest, OverRest, LoadRest, OtherAdminRest, FactorRest DEF DeskNext
<1> QED BY <1>1, <1>2

\* Every variable of the account page keeps its type, and no account is there
\* that was not made.
THEOREM DeskTypeCorrect == DeskSpec => []DeskTypeOK
BY DeskInvInit, DeskInvStep, DeskRestInit, DeskRestStep, DeskTyped, PTL DEF DeskSpec

-----------------------------------------------------------------------------
(* Whose a device is.  Of a device whose changes neither overlapped nor    *)
(* were lost, the copy that the dialog starts from is the server's by the  *)
(* time the dialog may start from it.                                      *)

OwnerTypes ==
    /\ owner \in [DeviceId -> 0 .. Owners] /\ ownersThere \subseteq OwnerId
    /\ copy \in [DeviceId -> 0 .. NoCopy]
    /\ copyLoad.stage = "answered" => copyLoad.answer \in 0 .. Owners
    /\ openDevice \in DeviceId \cup {0} /\ releasing \in DeviceId \cup {0}
    /\ dialog \in [open: BOOLEAN, person: 0 .. Owners, touched: BOOLEAN, afterSave: BOOLEAN,
                   busy: BOOLEAN, n: 0 .. MaxOwnerMoves]
    /\ calls \subseteq OwnerCall /\ ownerMoves \in 0 .. MaxOwnerMoves
\* The dialog is the device page's, the question on a release the persons page's.
OnePage ==
    /\ openDevice = 0 => ~dialog.open /\ copyLoad.stage = "none"
    /\ releasing # 0 => openDevice = 0

\* Whose the device is, or somebody who is gone and whom the server refuses.
Harmless(person, d) == person = owner[d] \/ person \notin ownersThere \cup {0}

OneAtATime(d) == \A c, e \in calls : c.device = d /\ e.device = d => c = e
\* What was saved and not yet answered is what the device now has.
DoneKnown(d) == \A c \in calls : c.device = d /\ c.stage = "done" => Harmless(c.person, d)
CopyTrue(d) ==
    (\A c \in calls : c.device = d => c.stage # "done") =>
        /\ d \notin saved => Harmless(copy[d], d)
        /\ openDevice = d /\ copyLoad.stage = "answered" => Harmless(copyLoad.answer, d)
DialogTrue(d) ==
    dialog.open /\ ~dialog.touched /\ openDevice = d =>
        /\ ~dialog.afterSave => Harmless(dialog.person, d)
        /\ \A c \in calls : c.device = d => c.person = dialog.person
SendsTrue(d) ==
    \A c \in calls : /\ c.device = d /\ c.kind = "edit" /\ c.stage = "sent"
                     /\ ~c.touched /\ ~c.afterSave
                     => Harmless(c.person, d)
DeviceFine(d) == OneAtATime(d) /\ DoneKnown(d) /\ CopyTrue(d) /\ DialogTrue(d) /\ SendsTrue(d)

OwnerInv == OwnerTypes /\ OnePage /\ \A d \in DeviceId \ unsure : DeviceFine(d)

LEMMA OwnerInvInit == OwnerInit => OwnerInv
<1> SUFFICES ASSUME OwnerInit PROVE OwnerInv
  OBVIOUS
<1>1. OwnerTypes
  <2>1. 1 \in 0 .. Owners /\ NoCopy \in 0 .. NoCopy /\ 0 \in 0 .. Owners /\ 0 \in 0 .. MaxOwnerMoves
    BY OwnerAssumption DEF NoCopy
  <2>2. NoEditDialog \in [open: BOOLEAN, person: 0 .. Owners, touched: BOOLEAN, afterSave: BOOLEAN,
                          busy: BOOLEAN, n: 0 .. MaxOwnerMoves]
    BY <2>1 DEF NoEditDialog
  <2> QED BY <2>1, <2>2 DEF OwnerInit, OwnerTypes, NoOwnerLoad
<1>2. OnePage
  BY DEF OwnerInit, OnePage, NoOwnerLoad, NoEditDialog
<1>3. ASSUME NEW d \in DeviceId PROVE DeviceFine(d)
  <2>1. Harmless(copy[d], d)
    BY OwnerAssumption DEF OwnerInit, Harmless, NoCopy, OwnerId
  <2> QED BY <2>1 DEF OwnerInit, NoOwnerLoad, NoEditDialog, DeviceFine, OneAtATime, DoneKnown, CopyTrue, DialogTrue, SendsTrue
<1> QED BY <1>1, <1>2, <1>3 DEF OwnerInv

LEMMA OwnerTypesStep == ASSUME OwnerTypes, OnePage, OwnerNext PROVE OwnerTypes'
<1> DEFINE Dialogs == [open: BOOLEAN, person: 0 .. Owners, touched: BOOLEAN, afterSave: BOOLEAN,
                       busy: BOOLEAN, n: 0 .. MaxOwnerMoves]
<1>0. /\ NoEditDialog \in Dialogs /\ NoOwnerLoad.stage = "none" /\ CopyLoading.stage = "asked"
      /\ 0 \in 0 .. Owners /\ 0 .. Owners \subseteq 0 .. NoCopy /\ NoCopy \in 0 .. NoCopy /\ OwnerId \subseteq 0 .. Owners
  BY OwnerAssumption DEF NoEditDialog, NoOwnerLoad, CopyLoading, NoCopy, OwnerId
<1>1. CASE FleetSteps
  BY <1>1 DEF FleetSteps, OwnerTypes, ownServerVars
<1>2. ASSUME NEW d \in DeviceId, OpenPage(d) PROVE OwnerTypes'
  BY <1>2 DEF OpenPage, OwnerTypes, ownServerVars
<1>3. CASE LeavePage
  BY <1>0, <1>3 DEF LeavePage, OwnerTypes, ownServerVars
<1>4. CASE CopySteps
  <2>1. openDevice \in DeviceId /\ owner[openDevice] \in 0 .. Owners
    BY <1>4 DEF CopySteps, OwnerTypes
  <2> QED BY <1>0, <1>4, <2>1 DEF CopySteps, OwnerTypes, ownServerVars
<1>5. ASSUME NEW k \in {"assign", "release", "edit"}, NEW d \in DeviceId, NEW p \in 0 .. Owners,
             NEW t \in BOOLEAN, NEW f \in BOOLEAN, NEW n \in 0 .. MaxOwnerMoves, Sends(k, d, p, t, f, n)
      PROVE  calls' \subseteq OwnerCall
  BY <1>5 DEF Sends, OwnerTypes, OwnerCall
<1>6. OwnerMove => ownerMoves' \in 0 .. MaxOwnerMoves
  BY OwnerAssumption DEF OwnerMove, OwnerTypes
<1>7. ASSUME NEW d \in DeviceId, NEW p \in OwnerId, Assign(d, p) PROVE OwnerTypes'
  <2>1. calls' \subseteq OwnerCall /\ ownerMoves' \in 0 .. MaxOwnerMoves
    BY <1>0, <1>5, <1>6, <1>7 DEF Assign
  <2> QED BY <1>7, <2>1 DEF Assign, OwnerTypes, ownServerVars
<1>8. ASSUME NEW d \in DeviceId, AskRelease(d) PROVE OwnerTypes'
  BY <1>6, <1>8 DEF AskRelease, OwnerTypes, ownServerVars
<1>9. ASSUME NEW yes \in BOOLEAN, AnswerRelease(yes) PROVE OwnerTypes'
  <2>1. releasing \in DeviceId /\ ownerMoves \in 0 .. MaxOwnerMoves
    BY <1>9 DEF AnswerRelease, OwnerTypes
  <2>2. calls' \subseteq OwnerCall
    BY <1>0, <1>5, <1>9, <2>1 DEF AnswerRelease, OwnerTypes
  <2> QED BY <1>9, <2>2 DEF AnswerRelease, OwnerTypes, ownServerVars
<1>10. CASE OpenDialog
  <2>1. copy[openDevice] \in 0 .. Owners
    BY <1>10, OwnerAssumption DEF OpenDialog, OwnerTypes, NoCopy
  <2>2. ownerMoves' \in 0 .. MaxOwnerMoves
    BY <1>6, <1>10 DEF OpenDialog
  <2>3. dialog' \in Dialogs
    BY <1>10, <2>1, <2>2 DEF OpenDialog
  <2> QED BY <1>10, <2>2, <2>3 DEF OpenDialog, OwnerTypes, ownServerVars
<1>11. CASE CloseDialog
  BY <1>0, <1>11 DEF CloseDialog, OwnerTypes, ownServerVars
<1>12. ASSUME NEW p \in OwnerId \cup {0}, PickOwner(p) PROVE OwnerTypes'
  BY <1>0, <1>12 DEF PickOwner, OwnerTypes, ownServerVars
<1>13. CASE SubmitDialog /\ openDevice # 0
  <2>1. calls' \subseteq OwnerCall
    BY <1>5, <1>13 DEF SubmitDialog, OwnerTypes
  <2> QED BY <1>13, <2>1 DEF SubmitDialog, OwnerTypes, ownServerVars
<1>14. ASSUME NEW c \in calls, CallServed(c) PROVE OwnerTypes'
  <2>1. c \in OwnerCall
    BY DEF OwnerTypes
  <2>2. calls' \subseteq OwnerCall /\ owner' \in [DeviceId -> 0 .. Owners]
    BY <1>14, <2>1 DEF CallServed, OwnerTypes, OwnerCall
  <2> QED BY <1>14, <2>2 DEF CallServed, OwnerTypes
<1>15. ASSUME NEW c \in calls, AssignDone(c) \/ EditDone(c) \/ CallFails(c) PROVE OwnerTypes'
  <2>1. c.person \in 0 .. NoCopy /\ c.device \in DeviceId
    BY <1>0 DEF OwnerTypes, OwnerCall
  <2>2. calls' \subseteq OwnerCall
    BY <1>15 DEF AssignDone, EditDone, CallFails, OwnerTypes
  <2>3. copyLoad' \in {copyLoad, CopyLoading} /\ dialog' \in Dialogs
    BY <1>0, <1>15 DEF AssignDone, EditDone, CallFails, DeviceChanged, Invalidates, OwnerTypes
  <2>4. copy' \in [DeviceId -> 0 .. NoCopy]
    BY <1>0, <1>15, <2>1 DEF AssignDone, EditDone, CallFails, DeviceChanged, OwnerTypes
  <2> QED BY <1>0, <1>15, <2>2, <2>3, <2>4 DEF AssignDone, EditDone, CallFails, OwnerTypes, ownServerVars
<1>16. ASSUME NEW d \in DeviceId, NEW p \in OwnerId, OthersAssign(d, p) PROVE OwnerTypes'
  BY <1>0, <1>6, <1>16 DEF OthersAssign, OwnerTypes
<1>17. ASSUME NEW p \in OwnerId, PersonDeleted(p) PROVE OwnerTypes'
  <2>1. owner' \in [DeviceId -> 0 .. Owners]
    BY <1>0, <1>17 DEF PersonDeleted, OwnerTypes
  <2> QED BY <1>6, <1>17, <2>1 DEF PersonDeleted, OwnerTypes
<1>18. SubmitDialog => openDevice # 0
  BY DEF SubmitDialog, OnePage
<1> QED BY <1>1, <1>2, <1>3, <1>4, <1>7, <1>8, <1>9, <1>10, <1>11, <1>12, <1>13, <1>14, <1>15, <1>16, <1>17, <1>18
        DEF OwnerNext

LEMMA OnePageStep == ASSUME OwnerTypes, OnePage, OwnerNext PROVE OnePage'
<1>0. DeviceId \subseteq Nat /\ 0 \notin DeviceId /\ ~NoEditDialog.open /\ NoOwnerLoad.stage = "none"
  BY OwnerAssumption DEF DeviceId, NoEditDialog, NoOwnerLoad
<1>1. ASSUME NEW d \in DeviceId, OpenPage(d) PROVE OnePage'
  BY <1>0, <1>1 DEF OpenPage, OnePage
<1>2. CASE LeavePage
  BY <1>0, <1>2 DEF LeavePage, OnePage
<1>3. CASE FleetSteps \/ CopySteps
  BY <1>3 DEF FleetSteps, CopySteps, OnePage
<1>4. CASE OpenDialog \/ CloseDialog \/ SubmitDialog
  BY <1>0, <1>4 DEF OpenDialog, CloseDialog, SubmitDialog, Sends, OnePage, OwnerTypes
<1>5. ASSUME NEW yes, AnswerRelease(yes) PROVE OnePage'
  BY <1>5 DEF AnswerRelease, Sends, OnePage
<1>6. ASSUME NEW d \in DeviceId, NEW p, Assign(d, p) \/ AskRelease(d) \/ OthersAssign(d, p) \/ PersonDeleted(p) PROVE OnePage'
  BY <1>6 DEF Assign, AskRelease, OthersAssign, PersonDeleted, Sends, OnePage
<1>7. ASSUME NEW p, PickOwner(p) PROVE OnePage'
  BY <1>7 DEF PickOwner, OnePage, OwnerTypes
<1>8. ASSUME NEW c \in calls, CallServed(c) PROVE OnePage'
  BY <1>8 DEF CallServed, OnePage
<1>9. ASSUME NEW c \in calls, AssignDone(c) \/ EditDone(c) \/ CallFails(c) PROVE OnePage'
  <2>1. c.device # 0 /\ releasing' = releasing /\ openDevice' = openDevice
    BY <1>0, <1>9 DEF AssignDone, EditDone, CallFails, OwnerTypes, OwnerCall
  <2>2. dialog'.open => dialog.open
    BY <1>0, <1>9 DEF AssignDone, EditDone, CallFails, OwnerTypes
  <2>3. openDevice = 0 => copyLoad' = copyLoad
    BY <1>9, <2>1 DEF AssignDone, EditDone, CallFails, DeviceChanged, Invalidates
  <2> QED BY <2>1, <2>2, <2>3 DEF OnePage
<1>10. ASSUME NEW p \in OwnerId, PersonDeleted(p) PROVE OnePage'
  BY <1>10 DEF PersonDeleted, OnePage
<1> QED BY <1>1, <1>2, <1>3, <1>4, <1>5, <1>6, <1>7, <1>8, <1>9, <1>10 DEF OwnerNext

\* What the server does not change stays harmless, and a deletion harms nobody.
LEMMA HarmlessKept ==
    ASSUME NEW d \in DeviceId, NEW x, Harmless(x, d), OwnerTypes,
           UNCHANGED <<owner[d], ownersThere>> \/ \E p \in OwnerId : PersonDeleted(p)
    PROVE  Harmless(x, d)'
BY OwnerAssumption DEF Harmless, PersonDeleted, OwnerTypes, OwnerId

\* A step that sends, answers, loads nothing of the device.
LEMMA FineKept ==
    ASSUME NEW d \in DeviceId, DeviceFine(d), OwnerTypes,
           UNCHANGED <<owner[d], ownersThere>> \/ (\E p \in OwnerId : PersonDeleted(p)),
           UNCHANGED copy[d],
           \A c : c.device = d => (c \in calls' <=> c \in calls),
           d \in saved => d \in saved',
           openDevice' = d /\ copyLoad'.stage = "answered" => openDevice = d /\ copyLoad' = copyLoad,
           dialog'.open /\ ~dialog'.touched /\ openDevice' = d =>
               /\ dialog.open /\ ~dialog.touched /\ openDevice = d
               /\ dialog'.person = dialog.person /\ dialog'.afterSave = dialog.afterSave
    PROVE  DeviceFine(d)'
<1>1. \A x : Harmless(x, d) => Harmless(x, d)'
  BY HarmlessKept
<1>2. OneAtATime(d)' /\ DoneKnown(d)' /\ SendsTrue(d)'
  BY <1>1 DEF DeviceFine, OneAtATime, DoneKnown, SendsTrue
<1>3. CopyTrue(d)'
  BY <1>1 DEF DeviceFine, CopyTrue
<1>4. DialogTrue(d)'
  BY <1>1 DEF DeviceFine, DialogTrue
<1> QED BY <1>2, <1>3, <1>4 DEF DeviceFine

\* A request on the device of which nothing was known to be under way.
LEMMA FineSent ==
    ASSUME NEW d \in DeviceId, DeviceFine(d), OwnerTypes, d \notin UnderWay(d),
           UNCHANGED <<owner, ownersThere, copy, saved, copyLoad, openDevice>>,
           NEW c, c.device = d, c.stage = "sent", calls' = calls \cup {c},
           UNCHANGED <<dialog.open, dialog.touched, dialog.person, dialog.afterSave>>,
           \/ openDevice = 0 /\ c.kind # "edit"
           \/ /\ openDevice = d /\ dialog.open /\ c.person = dialog.person
              /\ c.touched = dialog.touched /\ c.afterSave = dialog.afterSave
    PROVE  DeviceFine(d)'
<1>0. d # 0 /\ \A e \in calls : e.device # d
  BY OwnerAssumption DEF UnderWay, DeviceId
<1>1. \A x : Harmless(x, d)' <=> Harmless(x, d)
  BY DEF Harmless
<1>2. OneAtATime(d)' /\ DoneKnown(d)'
  BY <1>0, <1>1 DEF OneAtATime, DoneKnown
<1>3. CopyTrue(d)'
  BY <1>0, <1>1 DEF DeviceFine, CopyTrue
<1>4. DialogTrue(d)'
  BY <1>0, <1>1 DEF DeviceFine, DialogTrue
<1>5. SendsTrue(d)'
  BY <1>0, <1>1 DEF DeviceFine, DialogTrue, SendsTrue
<1> QED BY <1>2, <1>3, <1>4, <1>5 DEF DeviceFine

LEMMA FineServed ==
    ASSUME NEW d \in DeviceId, DeviceFine(d), OwnerTypes, NEW c \in calls, CallServed(c)
    PROVE  DeviceFine(d)'
<1>0. c \in OwnerCall /\ c.stage = "sent"
  BY DEF OwnerTypes, CallServed
<1>1. CASE c.device # d
  <2>1. owner'[d] = owner[d]
    BY <1>0, <1>1 DEF CallServed, OwnerTypes
  <2>2. \A e : e.device = d => (e \in calls' <=> e \in calls)
    BY <1>0, <1>1 DEF CallServed, OwnerCall
  <2> QED BY <2>1, <2>2, FineKept DEF CallServed
<1>2. CASE c.device = d /\ c.person \in ownersThere \cup {0} /\ owner' = [owner EXCEPT ![d] = c.person]
           /\ calls' = (calls \ {c}) \cup {[c EXCEPT !.stage = "done"]}
  <2> DEFINE served == [c EXCEPT !.stage = "done"]
  <2>1. \A e \in calls' : e.device = d => e = served
    BY <1>2 DEF DeviceFine, OneAtATime
  <2>2. served.person = c.person /\ served.stage = "done" /\ served.device = d /\ served \in calls'
    BY <1>0, <1>2 DEF OwnerCall
  <2>3. Harmless(c.person, d)'
    BY <1>2 DEF Harmless, OwnerTypes
  <2>4. OneAtATime(d)' /\ DoneKnown(d)' /\ SendsTrue(d)'
    BY <2>1, <2>2, <2>3 DEF OneAtATime, DoneKnown, SendsTrue
  <2>5. CopyTrue(d)'
    BY <2>2 DEF CopyTrue
  <2>6. DialogTrue(d)'
    BY <1>2, <2>1, <2>2, <2>3 DEF DeviceFine, DialogTrue, CallServed
  <2> QED BY <2>4, <2>5, <2>6 DEF DeviceFine
<1>3. CASE c.device = d /\ UNCHANGED owner /\ calls' = (calls \ {c}) \cup {[c EXCEPT !.stage = "refused"]}
  <2> DEFINE turned == [c EXCEPT !.stage = "refused"]
  <2>0. UNCHANGED <<ownersThere, copy, copyLoad, openDevice, dialog, saved>>
    BY DEF CallServed
  <2>1. \A e \in calls' : e.device = d => e = turned
    BY <1>3 DEF DeviceFine, OneAtATime
  <2>2. turned.person = c.person /\ turned.stage = "refused" /\ turned.device = d
    BY <1>0, <1>3 DEF OwnerCall
  <2>3. \A x : Harmless(x, d)' <=> Harmless(x, d)
    BY <1>3, <2>0 DEF Harmless
  <2>4. OneAtATime(d)' /\ DoneKnown(d)' /\ SendsTrue(d)'
    BY <2>1, <2>2 DEF OneAtATime, DoneKnown, SendsTrue
  <2>5. \A e \in calls : e.device = d => e.stage # "done"
    BY <1>0, <1>3 DEF DeviceFine, OneAtATime
  <2>6. CopyTrue(d)'
    BY <2>0, <2>3, <2>5 DEF DeviceFine, CopyTrue
  <2>7. DialogTrue(d)'
    BY <1>3, <2>0, <2>1, <2>2, <2>3 DEF DeviceFine, DialogTrue
  <2> QED BY <2>4, <2>6, <2>7 DEF DeviceFine
<1> QED BY <1>1, <1>2, <1>3 DEF CallServed

LEMMA FineAnswered ==
    ASSUME NEW d \in DeviceId, DeviceFine(d), OwnerTypes, NEW c \in calls,
           AssignDone(c) \/ EditDone(c) \/ CallFails(c), d \notin unsure'
    PROVE  DeviceFine(d)'
<1>0. c \in OwnerCall /\ UNCHANGED <<owner, ownersThere, openDevice>> /\ calls' = calls \ {c}
  BY DEF OwnerTypes, AssignDone, EditDone, CallFails, ownServerVars
<1>1. CopyLoading.stage = "asked" /\ ~NoEditDialog.open
  BY DEF CopyLoading, NoOwnerLoad, NoEditDialog
<1>2. \A x : Harmless(x, d)' <=> Harmless(x, d)
  BY <1>0 DEF Harmless
<1>3. \/ dialog' = NoEditDialog
      \/ UNCHANGED <<dialog.open, dialog.touched, dialog.person, dialog.afterSave>>
  BY DEF AssignDone, EditDone, CallFails, OwnerTypes
<1>4. CASE c.device # d
  <2>1. UNCHANGED copy[d] /\ (d \in saved => d \in saved')
    BY <1>0, <1>4 DEF AssignDone, EditDone, CallFails, DeviceChanged, OwnerTypes, OwnerCall
  <2>2. openDevice = d => copyLoad' = copyLoad
    BY <1>4 DEF AssignDone, EditDone, CallFails, DeviceChanged, Invalidates
  <2>3. \A e : e.device = d => (e \in calls' <=> e \in calls)
    BY <1>0, <1>4
  <2> QED BY <1>0, <1>1, <1>3, <2>1, <2>2, <2>3, FineKept
<1>5. CASE c.device = d
  <2>1. \A e \in calls' : e.device # d
    BY <1>0, <1>5 DEF DeviceFine, OneAtATime
  <2>2. OneAtATime(d)' /\ DoneKnown(d)' /\ SendsTrue(d)'
    BY <2>1 DEF OneAtATime, DoneKnown, SendsTrue
  <2>3. DialogTrue(d)'
    BY <1>0, <1>1, <1>2, <1>3, <2>1 DEF DeviceFine, DialogTrue
  <2>4. CASE AssignDone(c)
    <3>1. Harmless(c.person, d) /\ Harmless(NoCopy, d)
      BY <1>5, <2>4, OwnerAssumption DEF DeviceFine, DoneKnown, AssignDone, Harmless, NoCopy, OwnerTypes, OwnerId
    <3>2. copy'[d] \in {NoCopy, c.person}
      BY <1>5, <2>4 DEF AssignDone, DeviceChanged, OwnerTypes
    <3>3. Harmless(copy[d], d)'
      BY <1>2, <3>1, <3>2
    <3>4. openDevice' = d => copyLoad'.stage = "asked"
      BY <1>0, <1>1, <1>5, <2>4 DEF AssignDone, DeviceChanged, Invalidates
    <3> QED BY <2>2, <2>3, <3>3, <3>4 DEF DeviceFine, CopyTrue
  <2>5. CASE EditDone(c)
    <3>1. d \in saved' /\ (openDevice' = d => copyLoad'.stage = "asked")
      BY <1>0, <1>1, <1>5, <2>5 DEF EditDone, Invalidates
    <3> QED BY <2>2, <2>3, <3>1 DEF DeviceFine, CopyTrue
  <2>6. CASE CallFails(c)
    <3>1. c.stage = "refused"
      BY <1>5, <2>6 DEF CallFails
    <3>2. \A e \in calls : e.device = d => e.stage # "done"
      BY <1>5, <3>1 DEF DeviceFine, OneAtATime
    <3>3. CopyTrue(d)'
      BY <1>2, <2>6, <3>2 DEF DeviceFine, CopyTrue, CallFails
    <3> QED BY <2>2, <2>3, <3>3 DEF DeviceFine
  <2> QED BY <2>4, <2>5, <2>6
<1> QED BY <1>4, <1>5

LEMMA FineLoaded ==
    ASSUME NEW d \in DeviceId, DeviceFine(d), OwnerTypes, CopySteps
    PROVE  DeviceFine(d)'
<1>0. UNCHANGED <<owner, ownersThere, openDevice, dialog, calls>>
  BY DEF CopySteps, ownServerVars
<1>1. \A x : Harmless(x, d)' <=> Harmless(x, d)
  BY <1>0 DEF Harmless
<1>2. CASE openDevice # d
  BY <1>0, <1>2, FineKept DEF CopySteps, OwnerTypes
<1>3. CASE openDevice = d
  <2>1. OneAtATime(d)' /\ DoneKnown(d)' /\ SendsTrue(d)' /\ DialogTrue(d)'
    BY <1>0, <1>1 DEF DeviceFine, OneAtATime, DoneKnown, SendsTrue, DialogTrue
  <2>2. CASE copyLoad.stage # "answered" \/ UNCHANGED <<copy, saved>>
    <3>1. copyLoad'.stage = "answered" => copyLoad'.answer = owner[d]
      BY <1>3, <2>2 DEF CopySteps, CopyLoading, NoOwnerLoad
    <3>2. UNCHANGED <<copy, saved>>
      BY <2>2 DEF CopySteps
    <3>3. CopyTrue(d)'
      BY <1>0, <1>1, <3>1, <3>2 DEF DeviceFine, CopyTrue, Harmless
    <3> QED BY <2>1, <3>3 DEF DeviceFine
  <2>3. CASE copyLoad.stage = "answered" /\ copy' = [copy EXCEPT ![d] = copyLoad.answer] /\ copyLoad' = NoOwnerLoad
    <3>1. copy'[d] = copyLoad.answer /\ copyLoad'.stage = "none"
      BY <2>3 DEF OwnerTypes, NoOwnerLoad
    <3>2. CopyTrue(d)'
      BY <1>0, <1>1, <1>3, <2>3, <3>1 DEF DeviceFine, CopyTrue
    <3> QED BY <2>1, <3>2 DEF DeviceFine
  <2> QED BY <1>3, <2>2, <2>3 DEF CopySteps
<1> QED BY <1>2, <1>3

LEMMA FineOpened ==
    ASSUME NEW d \in DeviceId, DeviceFine(d), OwnerTypes, OpenDialog, d \notin unsure'
    PROVE  DeviceFine(d)'
<1>0. UNCHANGED <<owner, ownersThere, copy, copyLoad, openDevice, calls, saved>>
  BY DEF OpenDialog, ownServerVars
<1>1. \A x : Harmless(x, d)' <=> Harmless(x, d)
  BY <1>0 DEF Harmless
<1>2. CASE openDevice # d
  BY <1>0, <1>2, FineKept DEF OpenDialog
<1>3. CASE openDevice = d
  <2>1. \A c \in calls : c.device # d
    BY <1>3 DEF OpenDialog, UnderWay
  <2>2. OneAtATime(d)' /\ DoneKnown(d)' /\ SendsTrue(d)' /\ CopyTrue(d)'
    BY <1>0, <1>1 DEF DeviceFine, OneAtATime, DoneKnown, SendsTrue, CopyTrue
  <2>3. d \notin saved => Harmless(copy[d], d)
    BY <2>1 DEF DeviceFine, CopyTrue
  <2>4. dialog'.person = copy[d] /\ dialog'.afterSave = (d \in saved)
    BY <1>3 DEF OpenDialog
  <2>5. DialogTrue(d)'
    BY <1>0, <1>1, <2>1, <2>3, <2>4 DEF DialogTrue
  <2> QED BY <2>2, <2>5 DEF DeviceFine
<1> QED BY <1>2, <1>3

LEMMA OwnerFineStep ==
    ASSUME OwnerInv, OwnerNext, NEW d \in DeviceId, d \notin unsure'
    PROVE  DeviceFine(d)'
<1>0. DeviceFine(d) /\ OwnerTypes /\ OnePage /\ d # 0
  <2>1. unsure \subseteq unsure'
    BY DEF OwnerNext, FleetSteps, OpenPage, LeavePage, CopySteps, Sends, Assign, AskRelease, AnswerRelease, OpenDialog,
           CloseDialog, PickOwner, SubmitDialog, CallServed, AssignDone, EditDone, CallFails, OthersAssign, PersonDeleted
  <2> QED BY <2>1, OwnerAssumption DEF OwnerInv, DeviceId
<1>1. CASE FleetSteps \/ LeavePage \/ CloseDialog
  <2>1. ~NoEditDialog.open /\ NoOwnerLoad.stage = "none"
    BY DEF NoEditDialog, NoOwnerLoad
  <2> QED BY <1>0, <1>1, <2>1, FineKept DEF FleetSteps, LeavePage, CloseDialog, ownServerVars
<1>2. ASSUME NEW e \in DeviceId, OpenPage(e) \/ AskRelease(e) PROVE DeviceFine(d)'
  BY <1>0, <1>2, FineKept DEF OpenPage, AskRelease, OnePage, ownServerVars
<1>3. ASSUME NEW p \in OwnerId \cup {0}, PickOwner(p) PROVE DeviceFine(d)'
  BY <1>0, <1>3, FineKept DEF PickOwner, OwnerTypes, ownServerVars
<1>4. CASE CopySteps
  BY <1>0, <1>4, FineLoaded
<1>5. CASE OpenDialog
  BY <1>0, <1>5, FineOpened
<1>6. ASSUME NEW k, NEW e \in DeviceId, NEW p, NEW t, NEW f, NEW n, Sends(k, e, p, t, f, n),
             UNCHANGED <<owner, ownersThere, copy, saved, copyLoad, openDevice>>,
             UNCHANGED <<dialog.open, dialog.touched, dialog.person, dialog.afterSave>>,
             \/ openDevice = 0 /\ k # "edit"
             \/ openDevice = e /\ dialog.open /\ p = dialog.person /\ t = dialog.touched /\ f = dialog.afterSave
      PROVE  DeviceFine(d)'
  <2> DEFINE c == [kind |-> k, device |-> e, person |-> p, touched |-> t, afterSave |-> f, stage |-> "sent", n |-> n]
  <2>1. calls' = calls \cup {c} /\ unsure' = unsure \cup UnderWay(e) /\ c.device = e /\ c.stage = "sent"
        /\ c.kind = k /\ c.person = p /\ c.touched = t /\ c.afterSave = f
    BY <1>6 DEF Sends
  <2>2. CASE e = d
    <3>1. d \notin UnderWay(d)
      BY <2>1, <2>2
    <3> HIDE DEF c
    <3> QED BY <1>0, <1>6, <2>1, <2>2, <3>1, FineSent
  <2>3. CASE e # d
    <3> HIDE DEF c
    <3> QED BY <1>0, <1>6, <2>1, <2>3, FineKept
  <2> QED BY <2>2, <2>3
<1>7. ASSUME NEW e \in DeviceId, NEW p \in OwnerId, Assign(e, p) PROVE DeviceFine(d)'
  BY <1>6, <1>7 DEF Assign, ownServerVars
<1>8. ASSUME NEW yes \in BOOLEAN, AnswerRelease(yes) PROVE DeviceFine(d)'
  <2>1. releasing \in DeviceId /\ openDevice = 0
    BY <1>0, <1>8 DEF AnswerRelease, OwnerTypes, OnePage
  <2>2. CASE yes
    BY <1>6, <1>8, <2>1, <2>2 DEF AnswerRelease, ownServerVars
  <2>3. CASE ~yes
    BY <1>0, <1>8, <2>3, FineKept DEF AnswerRelease, ownServerVars
  <2> QED BY <2>2, <2>3
<1>9. CASE SubmitDialog
  <2>1. openDevice \in DeviceId /\ dialog.open
    BY <1>0, <1>9 DEF SubmitDialog, OwnerTypes, OnePage
  <2>2. UNCHANGED <<dialog.open, dialog.touched, dialog.person, dialog.afterSave>>
    BY <1>0, <1>9 DEF SubmitDialog, OwnerTypes
  <2>3. UNCHANGED <<owner, ownersThere, copy, saved, copyLoad, openDevice>>
    BY <1>9 DEF SubmitDialog, ownServerVars
  <2> QED BY <1>6, <1>9, <2>1, <2>2, <2>3 DEF SubmitDialog
<1>10. ASSUME NEW c \in calls, CallServed(c) PROVE DeviceFine(d)'
  BY <1>0, <1>10, FineServed
<1>11. ASSUME NEW c \in calls, AssignDone(c) \/ EditDone(c) \/ CallFails(c) PROVE DeviceFine(d)'
  BY <1>0, <1>11, FineAnswered
<1>12. ASSUME NEW e \in DeviceId, NEW p \in OwnerId, OthersAssign(e, p) PROVE DeviceFine(d)'
  <2>1. e # d /\ owner'[d] = owner[d] /\ UNCHANGED <<ownersThere, copy, copyLoad, openDevice, dialog, calls, saved>>
    BY <1>0, <1>12 DEF OthersAssign, OwnerTypes
  <2> QED BY <1>0, <2>1, FineKept
<1>13. ASSUME NEW p \in OwnerId, PersonDeleted(p) PROVE DeviceFine(d)'
  <2>1. UNCHANGED <<copy, copyLoad, openDevice, dialog, calls, saved>>
    BY <1>13 DEF PersonDeleted
  <2> QED BY <1>0, <1>13, <2>1, FineKept
<1> QED BY <1>1, <1>2, <1>3, <1>4, <1>5, <1>7, <1>8, <1>9, <1>10, <1>11, <1>12, <1>13 DEF OwnerNext

LEMMA OwnerInvStep == OwnerInv /\ [OwnerNext]_ownerVars => OwnerInv'
<1> SUFFICES ASSUME OwnerInv, [OwnerNext]_ownerVars PROVE OwnerInv'
  OBVIOUS
<1>1. CASE OwnerNext
  BY <1>1, OwnerTypesStep, OnePageStep, OwnerFineStep DEF OwnerInv
<1>2. CASE UNCHANGED ownerVars
  BY <1>2 DEF ownerVars, OwnerInv, OwnerTypes, OnePage, DeviceFine, OneAtATime, DoneKnown, CopyTrue, DialogTrue,
              SendsTrue, Harmless
<1> QED BY <1>1, <1>2

\* What the dialog of the device page passes along of its copy never undoes
\* what was assigned or released on the persons page: AssignmentStays, for
\* any number of devices, persons and requests under way at once.
THEOREM DialogUndoesNothing == OwnerSpec => AssignmentStays
<1>1. OwnerInv /\ [OwnerNext]_ownerVars
      => [\A c \in calls : Passing(c) /\ ~c.afterSave => ~Undoes(c)]_ownerVars
  <2> SUFFICES ASSUME OwnerInv, [OwnerNext]_ownerVars, NEW c \in calls, Passing(c), ~c.afterSave, Undoes(c)
               PROVE  FALSE
    OBVIOUS
  <2>1. c \in OwnerCall /\ c.device \in DeviceId \ unsure /\ c.stage = "sent" /\ c \notin calls'
    BY DEF OwnerInv, OwnerTypes, OwnerCall, Passing, Undoes
  <2>2. Harmless(c.person, c.device)
    BY <2>1 DEF OwnerInv, DeviceFine, SendsTrue, Passing
  <2>3. OwnerNext
    BY <2>1 DEF ownerVars
  <2>4. ASSUME NEW e \in calls, CallServed(e) PROVE FALSE
    <3>1. e = c
      BY <2>1, <2>4 DEF CallServed
    <3> QED BY <2>1, <2>2, <2>4, <3>1 DEF CallServed, Harmless, Undoes, OwnerInv, OwnerTypes
  <2>5. ASSUME NEW e \in calls, AssignDone(e) \/ EditDone(e) \/ CallFails(e) PROVE FALSE
    BY <2>1, <2>5 DEF AssignDone, EditDone, CallFails
  <2> QED BY <2>1, <2>3, <2>4, <2>5
          DEF OwnerNext, FleetSteps, OpenPage, LeavePage, CopySteps, Sends, Assign, AskRelease, AnswerRelease,
              OpenDialog, CloseDialog, PickOwner, SubmitDialog, OthersAssign, PersonDeleted
<1> QED BY <1>1, OwnerInvInit, OwnerInvStep, PTL DEF OwnerSpec, AssignmentStays


-----------------------------------------------------------------------------
(* What the two pages keep of owners beside that.                          *)

Held == [DeviceId -> 0 .. Owners]
LoadsTyped ==
    /\ fleetLoad \in [stage: {"none", "asked", "answered"}, answer: Held]
    /\ copyLoad \in [stage: {"none", "asked", "answered"}, answer: 0 .. Owners]
OwnerRest == fleetOwner \in Held /\ LoadsTyped /\ unsure \subseteq DeviceId /\ saved \subseteq DeviceId

LEMMA OwnerTyped == OwnerInv /\ OwnerRest => OwnerTypeOK
<1>1. DeviceId \cup {0} \subseteq 0 .. OwnedDevices
  BY OwnerAssumption DEF DeviceId
<1> QED BY <1>1 DEF OwnerInv, OwnerTypes, OwnerRest, LoadsTyped, Held, OwnerTypeOK

LEMMA EmptyLoads ==
    /\ NoFleetLoad \in [stage: {"none", "asked", "answered"}, answer: Held]
    /\ FleetAsked \in [stage: {"none", "asked", "answered"}, answer: Held]
    /\ NoOwnerLoad \in [stage: {"none", "asked", "answered"}, answer: 0 .. Owners]
    /\ CopyLoading \in [stage: {"none", "asked", "answered"}, answer: 0 .. Owners]
BY OwnerAssumption DEF NoFleetLoad, FleetAsked, NoOwnerLoad, CopyLoading, Held

LEMMA OwnerRestInit == OwnerInit => OwnerRest
<1> SUFFICES ASSUME OwnerInit PROVE OwnerRest
  OBVIOUS
<1>1. fleetOwner \in Held
  BY OwnerAssumption DEF OwnerInit, Held
<1> QED BY <1>1, EmptyLoads DEF OwnerInit, OwnerRest, LoadsTyped

\* Devices are marked where a request of theirs is under way or was.
LEMMA OwnerRestStep == ASSUME OwnerInv, OwnerRest, [OwnerNext]_ownerVars PROVE OwnerRest'
<1>1. /\ OwnerTypes /\ fleetOwner \in Held /\ LoadsTyped /\ unsure \subseteq DeviceId /\ saved \subseteq DeviceId
      /\ owner \in Held
  BY DEF OwnerInv, OwnerTypes, OwnerRest, Held
<1>2. CASE UNCHANGED ownerVars
  BY <1>1, <1>2 DEF ownerVars, OwnerRest, LoadsTyped, Held
<1>3. CASE FleetSteps
  <2>1. /\ fleetOwner' \in Held /\ fleetLoad' \in [stage: {"none", "asked", "answered"}, answer: Held]
    BY <1>1, <1>3, EmptyLoads DEF FleetSteps, LoadsTyped
  <2> QED BY <1>1, <1>3, <2>1 DEF FleetSteps, OwnerRest, LoadsTyped, Held
<1>4. CASE CopySteps
  <2>1. openDevice \in DeviceId /\ owner[openDevice] \in 0 .. Owners
    BY <1>1, <1>4 DEF CopySteps, OwnerTypes
  <2>2. copyLoad' \in [stage: {"none", "asked", "answered"}, answer: 0 .. Owners]
    BY <1>1, <1>4, <2>1, EmptyLoads DEF CopySteps
  <2>3. UNCHANGED <<fleetOwner, fleetLoad, unsure>> /\ saved' \subseteq saved
    BY <1>4 DEF CopySteps
  <2> QED BY <1>1, <2>2, <2>3 DEF OwnerRest, LoadsTyped, Held
<1>5. ASSUME NEW d, NEW p,
             LeavePage \/ OpenPage(d) \/ AskRelease(d) \/ OpenDialog \/ CloseDialog \/ PickOwner(p) \/ SubmitDialog
             \/ Assign(d, p) \/ AnswerRelease(TRUE) \/ AnswerRelease(FALSE)
      PROVE  OwnerRest'
  <2>1. UNCHANGED <<fleetOwner, fleetLoad, saved>> /\ copyLoad' \in {copyLoad, NoOwnerLoad}
    BY <1>5 DEF LeavePage, OpenPage, AskRelease, OpenDialog, CloseDialog, PickOwner, SubmitDialog, Assign, AnswerRelease
  <2>2. unsure' \subseteq unsure \cup {c.device : c \in calls}
    BY <1>5 DEF LeavePage, OpenPage, AskRelease, OpenDialog, CloseDialog, PickOwner, SubmitDialog, Assign, AnswerRelease,
                Sends, UnderWay
  <2>3. {c.device : c \in calls} \subseteq DeviceId
    BY <1>1 DEF OwnerTypes, OwnerCall
  <2> QED BY <1>1, <2>1, <2>2, <2>3, EmptyLoads DEF OwnerRest, LoadsTyped, Held
<1>6. ASSUME NEW c \in calls, CallServed(c) \/ AssignDone(c) \/ EditDone(c) \/ CallFails(c)
      PROVE  OwnerRest'
  <2>1. c.device \in DeviceId
    BY <1>1 DEF OwnerTypes, OwnerCall
  <2>2. /\ UNCHANGED fleetOwner /\ fleetLoad' \in {fleetLoad, FleetAsked} /\ copyLoad' \in {copyLoad, CopyLoading}
        /\ unsure' \subseteq unsure \cup {c.device} /\ saved' \subseteq saved \cup {c.device}
    BY <1>6 DEF CallServed, AssignDone, EditDone, CallFails, DeviceChanged, Invalidates
  <2> QED BY <1>1, <2>1, <2>2, EmptyLoads DEF OwnerRest, LoadsTyped, Held
<1>7. ASSUME NEW d \in DeviceId, NEW p, OthersAssign(d, p) \/ PersonDeleted(p)
      PROVE  OwnerRest'
  BY <1>1, <1>7 DEF OthersAssign, PersonDeleted, OwnerRest, LoadsTyped, Held
<1>8. CASE \E p : PersonDeleted(p)
  BY <1>1, <1>8 DEF PersonDeleted, OwnerRest, LoadsTyped, Held
<1> QED BY <1>2, <1>3, <1>4, <1>5, <1>6, <1>7, <1>8 DEF OwnerNext

\* What is kept of owners keeps its type on both pages.
THEOREM OwnerTypeCorrect == OwnerSpec => []OwnerTypeOK
BY OwnerInvInit, OwnerInvStep, OwnerRestInit, OwnerRestStep, OwnerTyped, PTL DEF OwnerSpec

-----------------------------------------------------------------------------
(* The three together: what a behaviour of the composition does to one of  *)
(* them is a behaviour of that one.                                        *)

\* A step of the composition is a step of one component, and none for the
\* others.
LEMMA PeopleStep == [Next]_Vars => [SignNext]_signVars /\ [DeskNext]_deskVars /\ [OwnerNext]_ownerVars
BY DEF Next, Vars, SigningIn, AccountsPage, Owning

THEOREM PeopleParts == Spec => SignSpec /\ DeskSpec /\ OwnerSpec
<1>1. Init => SignInit /\ DeskInit /\ OwnerInit
  BY DEF Init
<1> QED BY <1>1, PeopleStep, PTL DEF Spec, SignSpec, DeskSpec, OwnerSpec

\* What a behaviour is about is one of the three, and stays it.
LEMMA SubjectKept == Spec => [](about \in Subject)
<1>1. Init => about \in Subject
  BY DEF Init
<1>2. about \in Subject /\ [Next]_Vars => (about \in Subject)'
  BY DEF Next, Vars, SigningIn, AccountsPage, Owning
<1> QED BY <1>1, <1>2, PTL DEF Spec

\* Signing in, the account page and the owners of devices keep the types of
\* what they hold, whichever of them a behaviour is about.
THEOREM PeopleTypeCorrect == Spec => []PeopleTypeOK
<1>1. about \in Subject /\ SignTypeOK /\ DeskTypeOK /\ OwnerTypeOK => PeopleTypeOK
  BY DEF Subject, PeopleTypeOK
<1> QED BY <1>1, SubjectKept, PeopleParts, SignTypeCorrect, DeskTypeCorrect, OwnerTypeCorrect, PTL

\* Next to each other they keep what each of them promises alone: no
\* overlay and no data of a session is left in the next, late saves apart, and
\* a code goes only with the account that is named (SignIn), a settled list of
\* accounts is the server's (AccountDesk), and the dialog undoes nobody's
\* assignment (DeviceOwner).
THEOREM PeopleCorrect ==
    Spec => []SessionIsOwn /\ []CodesGoWhereNamed /\ []ListSettles /\ AssignmentStays
BY PeopleParts, NothingInherited, CodesGoRight, ListIsHonest, DialogUndoesNothing, PTL
=============================================================================
