------------------------------ MODULE PageProofs ------------------------------
(***************************************************************************)
(* Proofs about the pages: what the audit page exports (AuditView), what   *)
(* the scripts page claims and sends (ScriptShelf), what overlapping rounds*)
(* of acknowledgements send and leave behind (AlertCenter), what was typed *)
(* and what may be selected (DeviceTable), what is counted and what is     *)
(* installed (PatchBoard), which rule governs (AutomationDesk), what the tab*)
(* of updates knows (DeviceUpdates), and what a deletion was said to do    *)
(* (PersonDesk).                                                           *)
(***************************************************************************)
EXTENDS AuditView, ScriptShelf, AlertCenter, DeviceTable, PatchBoard, AutomationDesk, DeviceUpdates, PersonDesk,
        SequenceTheorems, FiniteSetTheorems, WellFoundedInduction, TLAPS

-----------------------------------------------------------------------------
(* The audit log: what is cached under a question answers that question,   *)
(* so the page that a finished question shows may be exported.             *)

AuditInv ==
    /\ \A p \in auditPages : \A e \in p.data.rows : Passes(e, p.key.filters, p.key.search)
    /\ ExportsMatch

\* A page found for what is asked holds only what is asked for.
LEMMA CachedAnswers ==
    ASSUME AuditInv, Cached # {}
    PROVE  \A e \in LogData.rows : Passes(e, Asked.filters, search)
<1>1. PICK p \in Cached : LogData = p.data
  BY DEF LogData
<1>2. p \in auditPages /\ p.key = Asked
  BY DEF Cached
<1>3. p.key.filters = Asked.filters /\ p.key.search = search
  BY <1>2 DEF Asked
<1> QED BY <1>1, <1>2, <1>3 DEF AuditInv

LEMMA AuditInvInit == AuditInit => AuditInv
<1> SUFFICES ASSUME AuditInit PROVE AuditInv
  OBVIOUS
<1>1. auditPages = {} /\ exported.rows = {}
  BY DEF AuditInit, NoExport
<1> QED BY <1>1 DEF AuditInv, ExportsMatch

LEMMA AuditInvStep ==
    ASSUME AuditInv, [AuditNext]_auditVars
    PROVE  AuditInv'
<1>1. CASE UNCHANGED <<auditPages, exported>>
  BY <1>1 DEF AuditInv, ExportsMatch, Passes
<1>2. CASE ExportCsv
  <2>1. Cached # {}
    BY <1>2 DEF ExportCsv, MayExport, IsPlaceholder, LogData, NoPage
  <2>2. ExportsMatch'
    BY <1>2, <2>1, CachedAnswers DEF ExportCsv, ExportsMatch, Passes
  <2> QED BY <1>2, <2>2 DEF ExportCsv, AuditInv, Passes
<1>3. CASE PageArrives
  <2>1. \A e \in AuditAnswer.rows : Passes(e, Asked.filters, search)
    BY DEF AuditAnswer
  <2>2. \A p \in auditPages' : p \in auditPages \/ p = [key |-> Asked, data |-> AuditAnswer]
    BY <1>3 DEF PageArrives
  <2>3. Asked.search = search
    BY DEF Asked
  <2>4. ASSUME NEW p \in auditPages', NEW e \in p.data.rows
        PROVE  Passes(e, p.key.filters, p.key.search)
    BY <2>1, <2>2, <2>3, <2>4 DEF AuditInv
  <2>5. ExportsMatch'
    BY <1>3 DEF PageArrives, AuditInv, ExportsMatch, Passes
  <2> QED BY <2>4, <2>5 DEF AuditInv, Passes
<1>4. ASSUME NEW a, SetAudit(a) PROVE UNCHANGED <<auditPages, exported>>
  BY <1>4 DEF SetAudit
<1>5. ASSUME NEW q, PagerIs(q) PROVE UNCHANGED <<auditPages, exported>>
  BY <1>5 DEF PagerIs
<1>6. CASE ~ExportCsv /\ ~PageArrives
  BY <1>1, <1>4, <1>5, <1>6
     DEF AuditNext, auditVars, TakeTotal, SearchPasses, FollowAuditLink, ResetAudit, ToBlank,
         PageFails, PageAskedAgain, LoadIs, Happens, Ages, ChooseRange, ChooseActor, ChooseCategory,
         SwitchSecurity, TypeSearch, GoToPage, SetAuditSize
<1> QED BY <1>2, <1>3, <1>6

\* An export holds what the page's filters and search ask for (AuditPage,
\* keepPreviousData), whatever the log, the filters and the page size.
THEOREM ExportsAreAsked == AuditSpec => []ExportsMatch
<1>1. AuditInv => ExportsMatch
  BY DEF AuditInv
<1> QED BY AuditInvInit, AuditInvStep, <1>1, PTL DEF AuditSpec

LEMMA LessIsWellFounded ==
    \E R : IsWellFoundedOn(R, Nat) /\ \A m, n \in Nat : <<m, n>> \in R <=> m < n
<1>1. \A m, n \in Nat : <<m, n>> \in OpToRel(<, Nat) <=> m < n
  BY DEF OpToRel
<1> QED BY <1>1, NatLessThanWellFounded, Zenon
LEMMA LeastOf ==
    ASSUME NEW S, S \subseteq Nat, S # {}
    PROVE  \E m \in S : \A n \in S : m <= n
<1>1. PICK R : IsWellFoundedOn(R, Nat) /\ \A m, n \in Nat : <<m, n>> \in R <=> m < n
  BY LessIsWellFounded
<1>2. \E m \in S : \A n \in S : ~ (<<n, m>> \in R)
  <2>1. IsWellFoundedOn(R, Nat)
    BY <1>1, Zenon
  <2> QED BY <2>1, WFMin, Zenon
<1>3. PICK m \in S : \A n \in S : ~ (<<n, m>> \in R)
  BY <1>2
<1>4. ASSUME NEW n \in S PROVE m <= n
  <2>1. m \in Nat /\ n \in Nat OBVIOUS
  <2>2. ~ (<<n, m>> \in R) BY <1>3
  <2>3. ~ (n < m) BY <1>1, <2>1, <2>2, Zenon
  <2> QED BY <2>1, <2>3
<1> QED BY <1>4

-----------------------------------------------------------------------------
(* The script library: the list that has settled is the server's, and what *)
(* stands next to it belongs to the script shown.                          *)

StoreRow == [there: BOOLEAN, danger: BOOLEAN]
AskRow == [kind: {"none", "run", "delete"}, script: ScriptKey \cup {0}, device: RunDevices \cup {0}]
CallRow == [kind: {"none", "save", "delete", "run"}, script: ScriptKey \cup {0}, danger: BOOLEAN,
            shown: BOOLEAN, stage: {"none", "sent", "done", "refused", "loading"}]
DraftRow == [script: ScriptKey \cup {0}, as: {"none", "edit", "blank", "template", "copy"},
             first: BOOLEAN, typed: BOOLEAN, call: RunSlot \cup {0}]

StoreTypes == stored \in [ScriptKey -> StoreRow] /\ written \in FirstScripts .. MaxScripts
ListTypes ==
    /\ shelf = NoShelf \/ shelf \in [ScriptKey -> StoreRow]
    /\ shelfFetch.stage \in {"none", "asked", "answered"} /\ shelfLoad \in {"none", "ok", "failed"}
    /\ shelfFetch.stage = "answered" => shelfFetch.answer \in [ScriptKey -> StoreRow]
    /\ unseen \in BOOLEAN
DraftTypes == scriptDraft \in DraftRow
DetailTypes ==
    /\ target \in RunDevices \cup {0} /\ console \in ScriptKey \cup {0} /\ scriptQuestion \in AskRow
    /\ scriptCalls \in [RunSlot -> CallRow]
ShelfTypes ==
    /\ StoreTypes /\ ListTypes /\ DraftTypes /\ DetailTypes
    /\ scriptAddress \in ScriptKey \cup {0} /\ linked \subseteq RunDevices

\* A request is served that changed a script, and its answer is not here.
Unread == \E c \in RunSlot : scriptCalls[c].stage = "done" /\ scriptCalls[c].kind \in {"save", "delete"}
ReadsTrue ==
    ~unseen /\ ~Unread =>
        /\ shelfFetch.stage = "answered" => shelfFetch.answer = stored
        /\ shelfFetch.stage = "none" /\ shelfLoad = "ok" => shelf = stored

\* What is open next to a script, or will be, is of that script.
Belongs(shown, jobs, asked, calls) ==
    /\ jobs # 0 => jobs = shown
    /\ asked.kind = "run" => asked.script = shown
    /\ \A c \in RunSlot : calls[c].shown => calls[c].kind = "run" /\ calls[c].script = shown
DetailOwn == Belongs(ShownScript, console, scriptQuestion, scriptCalls)
DraftNamed == scriptDraft # NoScriptDraft => scriptDraft.as # "none"

ShelfInv == ShelfTypes /\ ReadsTrue /\ DetailOwn /\ DraftNamed

LEMMA ShelfInvInit == ScriptInit => ShelfInv
<1> SUFFICES ASSUME ScriptInit PROVE ShelfInv
  OBVIOUS
<1>1. StoreTypes
  BY ShelfAssumption DEF ScriptInit, StoreTypes, StoreRow, ScriptKey
<1>2. ListTypes
  BY DEF ScriptInit, ListTypes, ShelfFetch
<1>3. DraftTypes
  BY DEF ScriptInit, DraftTypes, DraftRow, NoScriptDraft
<1>4. DetailTypes
  <2>1. NoScriptCall \in CallRow
    BY DEF CallRow, NoScriptCall
  <2> QED BY <2>1 DEF ScriptInit, DetailTypes, NoAsk, AskRow
<1>5. ReadsTrue
  BY DEF ScriptInit, ReadsTrue, ShelfFetch
<1>6. DetailOwn
  BY DEF ScriptInit, DetailOwn, Belongs, NoAsk, NoScriptCall
<1> QED BY <1>1, <1>2, <1>3, <1>4, <1>5, <1>6 DEF ScriptInit, ShelfInv, ShelfTypes, DraftNamed

LEMMA NextSlotFree ==
    ASSUME FreeSlots # {}
    PROVE  NextSlot \in RunSlot /\ scriptCalls[NextSlot] = NoScriptCall
<1>1. FreeSlots \subseteq Nat
  BY ShelfAssumption DEF FreeSlots, RunSlot
<1>2. \E c \in FreeSlots : \A d \in FreeSlots : c <= d
  BY <1>1, LeastOf
<1>3. NextSlot \in FreeSlots
  BY <1>2 DEF NextSlot
<1> QED BY <1>3 DEF FreeSlots

LEMMA ShownTyped ==
    ASSUME ShelfTypes, ShownScript # 0
    PROVE  ShownScript \in ScriptKey /\ shelf[ShownScript] \in StoreRow /\ scriptDraft = NoScriptDraft
BY DEF ShownScript, OnShelf, ShelfTypes, ListTypes, NoShelf

\* Whatever makes the detail start afresh leaves it with nothing of another script.
LEMMA DetailOwned ==
    ASSUME NEW on \in RunDevices \cup {0}, NEW jobs \in ScriptKey \cup {0}, NEW asked \in AskRow,
           NEW calls \in [RunSlot -> CallRow],
           DetailFollows(on, jobs, asked, calls), Belongs(ShownScript, jobs, asked, calls)
    PROVE  DetailTypes' /\ DetailOwn'
<1>1. CASE ShownScript' = ShownScript
  BY <1>1 DEF DetailFollows, DetailOwn, Belongs, DetailTypes
<1>2. CASE ShownScript' # ShownScript
  <2>1. /\ target' = 0 /\ console' = 0
        /\ scriptQuestion' = IF asked.kind # "run" THEN asked ELSE NoAsk
        /\ scriptCalls' = [c \in RunSlot |-> [calls[c] EXCEPT !.shown = FALSE]]
    BY <1>2 DEF DetailFollows
  <2>2. NoAsk \in AskRow /\ NoAsk.kind # "run"
    BY DEF NoAsk, AskRow
  <2>3. \A c \in RunSlot : scriptCalls'[c] \in CallRow /\ ~scriptCalls'[c].shown
    BY <2>1 DEF CallRow
  <2>4. scriptCalls' \in [RunSlot -> CallRow]
    BY <2>1, <2>3
  <2> QED BY <2>1, <2>2, <2>3, <2>4 DEF DetailOwn, Belongs, DetailTypes
<1> QED BY <1>1, <1>2

\* The same of a step that has no hand in it.
LEMMA DetailStaysOwned ==
    ASSUME ShelfInv, DetailStays
    PROVE  DetailTypes' /\ DetailOwn'
BY DetailOwned DEF DetailStays, ShelfInv, ShelfTypes, DetailTypes, DetailOwn

LEMMA DetailKept ==
    ASSUME ShelfInv, ShownScript' = ShownScript, UNCHANGED <<target, console, scriptQuestion, scriptCalls>>
    PROVE  DetailTypes' /\ DetailOwn'
BY DEF ShelfInv, ShelfTypes, DetailTypes, DetailOwn, Belongs

\* One request changed, and for one script.
LEMMA CallChanged ==
    ASSUME ShelfInv, NEW c \in RunSlot, NEW call \in CallRow,
           scriptCalls' = [scriptCalls EXCEPT ![c] = call], UNCHANGED <<target, scriptQuestion>>,
           ShownScript' = ShownScript, console' \in {console, ShownScript},
           call.shown => call.kind = "run" /\ call.script = ShownScript
    PROVE  DetailTypes' /\ DetailOwn'
<1>1. scriptCalls' \in [RunSlot -> CallRow]
  BY DEF ShelfInv, ShelfTypes, DetailTypes
<1>2. console' \in ScriptKey \cup {0}
  BY ShownTyped DEF ShelfInv, ShelfTypes, DetailTypes
<1>3. \A d \in RunSlot : scriptCalls'[d].shown => scriptCalls'[d].kind = "run" /\ scriptCalls'[d].script = ShownScript'
  BY DEF ShelfInv, ShelfTypes, DetailTypes, DetailOwn, Belongs
<1> QED BY <1>1, <1>2, <1>3 DEF ShelfInv, ShelfTypes, DetailTypes, DetailOwn, Belongs

\* The script shown follows from list, load, address and editor.
LEMMA ShownKept ==
    ASSUME UNCHANGED <<shelf, shelfLoad, scriptAddress>>,
           scriptDraft = NoScriptDraft <=> scriptDraft' = NoScriptDraft
    PROVE  ShownScript' = ShownScript
BY DEF ShownScript, LaidOut, OnShelf

\* What has been read stays true while neither library, list nor answers move.
LEMMA ReadsKept ==
    ASSUME ReadsTrue, UNCHANGED <<stored, shelf, shelfFetch, shelfLoad, unseen>>,
           Unread => Unread'
    PROVE  ReadsTrue'
BY DEF ReadsTrue

LEMMA UnreadKept ==
    ASSUME ShelfTypes, NEW c \in RunSlot, NEW call,
           scriptCalls' = [scriptCalls EXCEPT ![c] = call],
           \/ ~(scriptCalls[c].stage = "done" /\ scriptCalls[c].kind \in {"save", "delete"})
           \/ call.stage = "done" /\ call.kind \in {"save", "delete"}
    PROVE  Unread => Unread'
<1> SUFFICES ASSUME Unread PROVE Unread'
  OBVIOUS
<1>1. PICK d \in RunSlot : scriptCalls[d].stage = "done" /\ scriptCalls[d].kind \in {"save", "delete"}
  BY DEF Unread
<1>2. scriptCalls'[d].stage = "done" /\ scriptCalls'[d].kind \in {"save", "delete"}
  BY <1>1 DEF ShelfTypes, DetailTypes
<1> QED BY <1>2 DEF Unread

LEMMA UnreadUnderDetail ==
    ASSUME ShelfTypes, NEW on, NEW jobs, NEW asked, NEW calls \in [RunSlot -> CallRow],
           DetailFollows(on, jobs, asked, calls),
           \A c \in RunSlot : scriptCalls[c].stage = "done" /\ scriptCalls[c].kind \in {"save", "delete"}
                                 => calls[c] = scriptCalls[c]
    PROVE  Unread => Unread'
<1> SUFFICES ASSUME Unread PROVE Unread'
  OBVIOUS
<1>1. PICK d \in RunSlot : scriptCalls[d].stage = "done" /\ scriptCalls[d].kind \in {"save", "delete"}
  BY DEF Unread
<1>2. calls[d] = scriptCalls[d] /\ calls[d] \in CallRow
  BY <1>1
<1>3. scriptCalls'[d].stage = calls[d].stage /\ scriptCalls'[d].kind = calls[d].kind
  BY <1>2 DEF DetailFollows, CallRow
<1> QED BY <1>1, <1>2, <1>3 DEF Unread

LEMMA UnreadStays == ASSUME ShelfInv, DetailStays PROVE Unread => Unread'
BY UnreadUnderDetail DEF DetailStays, ShelfInv, ShelfTypes, DetailTypes

\* A step of the user that only moves address and editor.
LEMMA SideStep ==
    ASSUME ShelfInv, PageUnchanged, DetailStays, DraftTypes', DraftNamed',
           scriptAddress' \in ScriptKey \cup {0}
    PROVE  ShelfInv'
<1>1. StoreTypes' /\ ListTypes' /\ linked' \subseteq RunDevices
  BY DEF ShelfInv, ShelfTypes, StoreTypes, ListTypes, PageUnchanged, storeVars, shelfVars
<1>2. DetailTypes' /\ DetailOwn'
  BY DetailStaysOwned
<1>3. ReadsTrue'
  BY UnreadStays, ReadsKept DEF ShelfInv, PageUnchanged, storeVars, shelfVars
<1> QED BY <1>1, <1>2, <1>3 DEF ShelfInv, ShelfTypes

\* A step that leaves library, list, address and editor.
LEMMA DetailStep ==
    ASSUME ShelfInv, PageUnchanged, UNCHANGED <<scriptAddress, scriptDraft>>, DetailTypes', DetailOwn',
           Unread => Unread'
    PROVE  ShelfInv'
<1>1. StoreTypes' /\ ListTypes' /\ linked' \subseteq RunDevices
  BY DEF ShelfInv, ShelfTypes, StoreTypes, ListTypes, PageUnchanged, storeVars, shelfVars
<1>2. ReadsTrue'
  BY ReadsKept DEF ShelfInv, PageUnchanged, storeVars, shelfVars
<1> QED BY <1>1, <1>2 DEF ShelfInv, ShelfTypes, DraftTypes, DraftNamed

LEMMA SideSteps ==
    ASSUME ShelfInv, NEW s \in ScriptKey \cup {0}, NEW as \in {"blank", "template", "edit", "copy"},
           \/ PickScript(s) \/ GoToScript(s) \/ WriteScript(as) \/ EditShown(as) \/ TypeDraft \/ CancelEdit
    PROVE  ShelfInv'
<1>0. DraftTypes /\ scriptAddress \in ScriptKey \cup {0} /\ DraftNamed
  BY DEF ShelfInv, ShelfTypes
<1>1. CASE PickScript(s)
  <2>1. DraftTypes' /\ DraftNamed'
    BY <1>1 DEF PickScript, NoScriptDraft, DraftTypes, DraftRow, DraftNamed
  <2> QED BY <1>1, <2>1, SideStep DEF PickScript
<1>2. CASE GoToScript(s)
  <2>1. DraftTypes' /\ DraftNamed'
    BY <1>0, <1>2 DEF GoToScript, DraftTypes, DraftNamed
  <2> QED BY <1>2, <2>1, SideStep DEF GoToScript
<1>3. CASE WriteScript(as)
  <2>1. DraftTypes' /\ DraftNamed'
    BY <1>0, <1>3 DEF WriteScript, Draft, DraftTypes, DraftRow, DraftNamed
  <2> QED BY <1>0, <1>3, <2>1, SideStep DEF WriteScript
<1>4. CASE EditShown(as)
  <2>1. ShownScript \in ScriptKey /\ shelf[ShownScript].danger \in BOOLEAN
    BY <1>4, ShownTyped DEF EditShown, ShelfInv, StoreRow
  <2>2. DraftTypes' /\ DraftNamed'
    BY <1>4, <2>1 DEF EditShown, Draft, DraftTypes, DraftRow, DraftNamed
  <2> QED BY <1>0, <1>4, <2>2, SideStep DEF EditShown
<1>5. CASE TypeDraft
  <2>1. DraftTypes' /\ DraftNamed'
    BY <1>0, <1>5 DEF TypeDraft, EditorShown, DraftTypes, DraftRow, DraftNamed
  <2> QED BY <1>0, <1>5, <2>1, SideStep DEF TypeDraft
<1>6. CASE CancelEdit
  <2>1. DraftTypes' /\ DraftNamed'
    BY <1>6 DEF CancelEdit, NoScriptDraft, DraftTypes, DraftRow, DraftNamed
  <2> QED BY <1>0, <1>6, <2>1, SideStep DEF CancelEdit
<1> QED BY <1>1, <1>2, <1>3, <1>4, <1>5, <1>6

LEMMA QuestionSteps ==
    ASSUME ShelfInv, NEW d,
           AskDelete \/ ChooseTarget(d) \/ AskRun \/ DeclineScript \/ CloseConsole
    PROVE  ShelfInv'
<1>1. ShownScript' = ShownScript
  BY DEF AskDelete, ChooseTarget, AskRun, DeclineScript, CloseConsole, sideVars, PageUnchanged, shelfVars,
         ShownScript, LaidOut, OnShelf
<1>2. UNCHANGED <<scriptAddress, scriptDraft, scriptCalls>> /\ PageUnchanged
  BY DEF AskDelete, ChooseTarget, AskRun, DeclineScript, CloseConsole, sideVars
<1>3. target' \in RunDevices \cup {0} /\ console' \in {console, 0}
  BY DEF AskDelete, ChooseTarget, AskRun, DeclineScript, CloseConsole, sideVars, ShelfInv, ShelfTypes, DetailTypes
<1>4. scriptQuestion' \in AskRow /\ (scriptQuestion'.kind = "run" => scriptQuestion'.script = ShownScript)
  <2>1. NoAsk \in AskRow /\ NoAsk.kind # "run"
    BY DEF NoAsk, AskRow
  <2>2. CASE UNCHANGED scriptQuestion
    BY <2>2 DEF ShelfInv, ShelfTypes, DetailTypes, DetailOwn, Belongs
  <2>3. CASE AskDelete
    BY <2>3, ShownTyped DEF AskDelete, ShelfInv, NoAsk, AskRow
  <2>4. CASE AskRun
    BY <2>4, ShownTyped DEF AskRun, ShelfInv, ShelfTypes, AskRow
  <2> QED BY <2>1, <2>2, <2>3, <2>4 DEF ChooseTarget, DeclineScript, CloseConsole
<1>5. DetailTypes' /\ DetailOwn'
  BY <1>1, <1>2, <1>3, <1>4 DEF ShelfInv, ShelfTypes, DetailTypes, DetailOwn, Belongs
<1>6. Unread => Unread'
  BY <1>2 DEF Unread
<1> QED BY <1>2, <1>5, <1>6, DetailStep

LEMMA ConfirmStep == ASSUME ShelfInv, ConfirmScript PROVE ShelfInv'
<1> DEFINE call == [NoScriptCall EXCEPT !.kind = scriptQuestion.kind, !.script = scriptQuestion.script,
                                         !.shown = (scriptQuestion.kind = "run"), !.stage = "sent"]
<1>1. NextSlot \in RunSlot /\ scriptCalls[NextSlot] = NoScriptCall
  BY NextSlotFree DEF ConfirmScript
<1>2. call \in CallRow /\ (call.shown => call.kind = "run" /\ call.script = ShownScript)
  BY DEF NoScriptCall, CallRow, ShelfInv, ShelfTypes, DetailTypes, DetailOwn, Belongs, AskRow
<1>3. scriptCalls' = [scriptCalls EXCEPT ![NextSlot] = call]
  BY DEF ConfirmScript, WithCall
<1> HIDE DEF call
<1>4. UNCHANGED <<scriptAddress, scriptDraft, target, console>> /\ PageUnchanged /\ scriptQuestion' = NoAsk
  BY DEF ConfirmScript, sideVars
<1>5. ShownScript' = ShownScript
  BY <1>4, ShownKept DEF PageUnchanged, shelfVars
<1>6. NoAsk \in AskRow /\ NoAsk.kind # "run"
  BY DEF NoAsk, AskRow
<1>7. scriptCalls' \in [RunSlot -> CallRow]
  BY <1>1, <1>2, <1>3 DEF ShelfInv, ShelfTypes, DetailTypes
<1>8. \A d \in RunSlot : scriptCalls'[d].shown => scriptCalls'[d].kind = "run" /\ scriptCalls'[d].script = ShownScript
  BY <1>1, <1>2, <1>3 DEF ShelfInv, ShelfTypes, DetailTypes, DetailOwn, Belongs
<1>9. DetailTypes' /\ DetailOwn'
  BY <1>4, <1>5, <1>6, <1>7, <1>8 DEF ShelfInv, ShelfTypes, DetailTypes, DetailOwn, Belongs
<1>10. Unread => Unread'
  <2>1. scriptCalls[NextSlot].stage # "done"
    BY <1>1 DEF NoScriptCall
  <2> QED BY <1>1, <1>3, <2>1, UnreadKept DEF ShelfInv
<1> QED BY <1>4, <1>9, <1>10, DetailStep

LEMMA SaveStep == ASSUME ShelfInv, SaveScript PROVE ShelfInv'
<1> DEFINE call == [NoScriptCall EXCEPT !.kind = "save", !.script = scriptDraft.script,
                                         !.danger = scriptDraft.typed, !.stage = "sent"]
<1>1. NextSlot \in RunSlot /\ scriptCalls[NextSlot] = NoScriptCall
  BY NextSlotFree DEF SaveScript
<1>2. call \in CallRow /\ ~call.shown
  BY DEF NoScriptCall, CallRow, ShelfInv, ShelfTypes, DraftTypes, DraftRow
<1>3. scriptCalls' = [scriptCalls EXCEPT ![NextSlot] = call]
  BY DEF SaveScript, WithCall
<1> HIDE DEF call
<1>4. DraftTypes' /\ DraftNamed' /\ scriptDraft # NoScriptDraft /\ scriptDraft' # NoScriptDraft
  <2>1. scriptDraft # NoScriptDraft /\ scriptDraft \in DraftRow /\ scriptDraft.as # "none"
    BY DEF SaveScript, EditorShown, ShelfInv, ShelfTypes, DraftTypes, DraftNamed
  <2>2. scriptDraft' \in DraftRow /\ scriptDraft'.as # "none"
    BY <1>1, <2>1 DEF SaveScript, DraftRow
  <2> QED BY <2>1, <2>2 DEF DraftTypes, DraftNamed, NoScriptDraft
<1>5. ShownScript' = ShownScript
  BY <1>4, ShownKept DEF SaveScript, shelfVars
<1>6. DetailTypes' /\ DetailOwn'
  BY <1>1, <1>2, <1>3, <1>5, CallChanged DEF SaveScript, RestUnchanged
<1>7. Unread => Unread'
  <2>1. scriptCalls[NextSlot].stage # "done"
    BY <1>1 DEF NoScriptCall
  <2> QED BY <1>1, <1>3, <2>1, UnreadKept DEF ShelfInv
<1>8. StoreTypes' /\ ListTypes' /\ linked' \subseteq RunDevices /\ scriptAddress' \in ScriptKey \cup {0}
  BY DEF SaveScript, RestUnchanged, ShelfInv, ShelfTypes, StoreTypes, ListTypes, storeVars, shelfVars
<1>9. ReadsTrue'
  BY <1>7, ReadsKept DEF SaveScript, RestUnchanged, ShelfInv, storeVars, shelfVars
<1> QED BY <1>4, <1>6, <1>8, <1>9 DEF ShelfInv, ShelfTypes

\* The server: what it changes is unread from then on.
LEMMA ServedStep == ASSUME ShelfInv, NEW c \in RunSlot, ScriptServed(c) PROVE ShelfInv'
<1> DEFINE call == scriptCalls[c]
<1> DEFINE then == scriptCalls'[c]
<1>1. call \in CallRow /\ call.stage = "sent" /\ scriptCalls \in [RunSlot -> CallRow]
  BY DEF ScriptServed, ShelfInv, ShelfTypes, DetailTypes
<1>2. call.shown => call.kind = "run" /\ call.script = ShownScript
  BY DEF ShelfInv, DetailOwn, Belongs
<1>3. /\ then \in CallRow /\ scriptCalls' = [scriptCalls EXCEPT ![c] = then]
      /\ then.shown = call.shown /\ then.kind = call.kind
      /\ call.shown => then.script = call.script
      /\ StoreTypes'
      /\ stored' = stored \/ (then.stage = "done" /\ call.kind \in {"save", "delete"})
  <2>1. CASE /\ call.kind = "save" /\ call.script = 0 /\ written < MaxScripts /\ written' = written + 1
             /\ stored' = [stored EXCEPT ![written + 1] = [there |-> TRUE, danger |-> call.danger]]
             /\ CallIs(c, [call EXCEPT !.script = written + 1, !.stage = "done"])
    <3>1. written + 1 \in ScriptKey /\ written' \in FirstScripts .. MaxScripts
      BY <2>1, ShelfAssumption DEF ShelfInv, ShelfTypes, StoreTypes, ScriptKey
    <3>2. StoreTypes'
      BY <1>1, <2>1, <3>1 DEF ShelfInv, ShelfTypes, StoreTypes, StoreRow, CallRow
    <3> QED BY <1>1, <1>2, <2>1, <3>1, <3>2 DEF CallIs, CallRow
  <2>2. CASE /\ call.script # 0 /\ stored[call.script].there
             /\ stored' = [stored EXCEPT ![call.script] =
                    CASE call.kind = "save"   -> [@ EXCEPT !.danger = call.danger]
                      [] call.kind = "delete" -> NoScript
                      [] OTHER                -> @]
             /\ CallIs(c, [call EXCEPT !.stage = "done"]) /\ UNCHANGED written
    <3>1. call.script \in ScriptKey
      BY <1>1, <2>2 DEF CallRow
    <3>2. stored' \in [ScriptKey -> StoreRow]
      BY <1>1, <2>2, <3>1 DEF ShelfInv, ShelfTypes, StoreTypes, StoreRow, NoScript, CallRow
    <3>3. stored' = stored \/ call.kind \in {"save", "delete"}
      BY <2>2, <3>1 DEF ShelfInv, ShelfTypes, StoreTypes
    <3> QED BY <1>1, <2>2, <3>2, <3>3 DEF CallIs, CallRow, ShelfInv, ShelfTypes, StoreTypes
  <2>3. CASE UNCHANGED storeVars /\ CallIs(c, [call EXCEPT !.stage = "refused"])
    BY <1>1, <2>3 DEF CallIs, CallRow, storeVars, ShelfInv, ShelfTypes, StoreTypes
  <2> QED BY <2>1, <2>2, <2>3 DEF ScriptServed
<1>4. UNCHANGED <<shelf, shelfFetch, shelfLoad, unseen, scriptAddress, scriptDraft, target, console, linked, scriptQuestion>>
  BY DEF ScriptServed, RestUnchanged, shelfVars
<1>5. ShownScript' = ShownScript
  BY <1>4, ShownKept
<1>6. DetailTypes' /\ DetailOwn'
  BY <1>2, <1>3, <1>4, <1>5, CallChanged
<1>7. Unread => Unread'
  BY <1>1, <1>3, UnreadKept DEF ShelfInv
<1>8. stored' = stored \/ Unread'
  BY <1>3 DEF Unread
<1>9. ReadsTrue'
  <2>1. CASE stored' = stored
    BY <1>4, <1>7, <2>1, ReadsKept DEF ShelfInv
  <2>2. CASE Unread'
    BY <2>2 DEF ReadsTrue
  <2> QED BY <1>8, <2>1, <2>2
<1> QED BY <1>3, <1>4, <1>6, <1>9 DEF ShelfInv, ShelfTypes, ListTypes, DraftTypes, DraftNamed

LEMMA EmptyCall == NoScriptCall \in CallRow /\ ~NoScriptCall.shown /\ NoScriptCall.stage = "none"
BY DEF NoScriptCall, CallRow

LEMMA RunStartedStep == ASSUME ShelfInv, NEW c \in RunSlot, RunStarted(c) PROVE ShelfInv'
<1>1. UNCHANGED <<scriptAddress, scriptDraft, target, scriptQuestion>> /\ PageUnchanged
  BY DEF RunStarted
<1>2. ShownScript' = ShownScript
  BY <1>1, ShownKept DEF PageUnchanged, shelfVars
<1>3. console' \in {console, ShownScript}
  BY DEF RunStarted, ConsoleAfter, ShelfInv, DetailOwn, Belongs
<1>4. scriptCalls' = [scriptCalls EXCEPT ![c] = NoScriptCall]
  BY DEF RunStarted, CallIs
<1>5. DetailTypes' /\ DetailOwn'
  BY <1>1, <1>2, <1>3, <1>4, EmptyCall, CallChanged
<1>6. Unread => Unread'
  <2>1. scriptCalls[c].kind = "run"
    BY DEF RunStarted
  <2> QED BY <1>4, <2>1, UnreadKept DEF ShelfInv
<1> QED BY <1>1, <1>5, <1>6, DetailStep

\* What is asked for anew is not there, and what is joined is not trusted.
LEMMA AnsweredStep == ASSUME ShelfInv, NEW c \in RunSlot, StoreAnswered(c) PROVE ShelfInv'
<1>1. UNCHANGED <<stored, written, shelf, shelfLoad, scriptAddress, scriptDraft, target, console, linked, scriptQuestion>>
  BY DEF StoreAnswered, storeVars, sideVars
<1>2. ShownScript' = ShownScript
  BY <1>1, ShownKept
<1> DEFINE call == [scriptCalls[c] EXCEPT !.stage = "loading"]
<1>3. scriptCalls' = [scriptCalls EXCEPT ![c] = call] /\ call \in CallRow
      /\ (call.shown => call.kind = "run" /\ call.script = ShownScript)
  BY DEF StoreAnswered, CallIs, ShelfInv, ShelfTypes, DetailTypes, CallRow, DetailOwn, Belongs
<1>4. DetailTypes' /\ DetailOwn'
  <2> HIDE DEF call
  <2> QED BY <1>1, <1>2, <1>3, CallChanged
<1>5. unseen' \/ shelfFetch' = ShelfFetch
  BY DEF StoreAnswered, ReloadShelf
<1>6. ReadsTrue'
  BY <1>5 DEF ReadsTrue, ShelfFetch
<1>7. ListTypes'
  BY <1>1 DEF StoreAnswered, ReloadShelf, ShelfFetch, ShelfInv, ShelfTypes, ListTypes
<1> QED BY <1>1, <1>4, <1>6, <1>7 DEF ShelfInv, ShelfTypes, StoreTypes, DraftTypes, DraftNamed

LEMMA LoadedStep == ASSUME ShelfInv, NEW c \in RunSlot, StoreLoaded(c) PROVE ShelfInv'
<1> DEFINE calls == [scriptCalls EXCEPT ![c] = NoScriptCall]
<1>1. calls \in [RunSlot -> CallRow] /\ Belongs(ShownScript, console, scriptQuestion, calls)
  BY EmptyCall DEF ShelfInv, ShelfTypes, DetailTypes, DetailOwn, Belongs
<1>2. \A d \in RunSlot : scriptCalls[d].stage = "done" => calls[d] = scriptCalls[d]
  BY DEF StoreLoaded, ShelfInv, ShelfTypes, DetailTypes
<1>3. DetailFollows(target, console, scriptQuestion, calls)
  BY DEF StoreLoaded
<1>4. scriptCalls[c].script \in ScriptKey \cup {0} /\ PageUnchanged
  BY DEF StoreLoaded, ShelfInv, ShelfTypes, DetailTypes, CallRow
<1> HIDE DEF calls
<1>5. DetailTypes' /\ DetailOwn'
  BY <1>1, <1>3, DetailOwned DEF ShelfInv, ShelfTypes, DetailTypes
<1>6. Unread => Unread'
  BY <1>1, <1>2, <1>3, UnreadUnderDetail DEF ShelfInv
<1>7. DraftTypes' /\ DraftNamed' /\ scriptAddress' \in ScriptKey \cup {0}
  BY <1>4 DEF StoreLoaded, ShelfInv, ShelfTypes, DraftTypes, DraftRow, DraftNamed, NoScriptDraft
<1>8. StoreTypes' /\ ListTypes' /\ linked' \subseteq RunDevices
  BY <1>4 DEF PageUnchanged, ShelfInv, ShelfTypes, StoreTypes, ListTypes, storeVars, shelfVars
<1>9. ReadsTrue'
  BY <1>4, <1>6, ReadsKept DEF PageUnchanged, ShelfInv, storeVars, shelfVars
<1> QED BY <1>5, <1>7, <1>8, <1>9 DEF ShelfInv, ShelfTypes

\* A lost answer is one the page does not know about.
LEMMA FailsStep == ASSUME ShelfInv, NEW c \in RunSlot, ScriptFails(c) PROVE ShelfInv'
<1>1. UNCHANGED <<stored, written, shelf, shelfFetch, shelfLoad, scriptAddress, target, console, linked, scriptQuestion>>
  BY DEF ScriptFails, storeVars, shelfVars
<1>2. DraftTypes' /\ DraftNamed' /\ (scriptDraft = NoScriptDraft <=> scriptDraft' = NoScriptDraft)
  <2>1. scriptDraft \in DraftRow /\ (scriptDraft # NoScriptDraft => scriptDraft.as # "none")
    BY DEF ShelfInv, ShelfTypes, DraftTypes, DraftNamed
  <2>2. CASE scriptDraft.call = c
    <3>1. c # 0
      BY ShelfAssumption DEF RunSlot
    <3>2. scriptDraft # NoScriptDraft
      BY <2>2, <3>1 DEF NoScriptDraft
    <3>3. scriptDraft' \in DraftRow /\ scriptDraft'.as # "none"
      BY <2>1, <2>2, <3>2 DEF ScriptFails, DraftRow
    <3> QED BY <3>2, <3>3 DEF DraftTypes, DraftNamed, NoScriptDraft
  <2>3. CASE scriptDraft.call # c
    BY <2>1, <2>3 DEF ScriptFails, DraftTypes, DraftNamed
  <2> QED BY <2>2, <2>3
<1>3. ShownScript' = ShownScript
  BY <1>1, <1>2, ShownKept
<1>4. scriptCalls' = [scriptCalls EXCEPT ![c] = NoScriptCall]
  BY DEF ScriptFails, CallIs
<1>5. DetailTypes' /\ DetailOwn'
  BY <1>1, <1>3, <1>4, EmptyCall, CallChanged
<1>6. unseen' \in BOOLEAN /\ (unseen => unseen')
  BY DEF ScriptFails, ShelfInv, ShelfTypes, ListTypes
<1>7. ReadsTrue'
  <2>1. CASE scriptCalls[c].stage = "done" /\ scriptCalls[c].kind \in {"save", "delete"}
    <3>1. unseen'
      BY <2>1 DEF ScriptFails
    <3> QED BY <3>1 DEF ReadsTrue
  <2>2. CASE ~(scriptCalls[c].stage = "done" /\ scriptCalls[c].kind \in {"save", "delete"})
    <3>1. Unread => Unread'
      BY <1>4, <2>2, UnreadKept DEF ShelfInv
    <3> QED BY <1>1, <1>6, <3>1 DEF ReadsTrue, ShelfInv
  <2> QED BY <2>1, <2>2
<1> QED BY <1>1, <1>2, <1>5, <1>6, <1>7 DEF ShelfInv, ShelfTypes, StoreTypes, ListTypes

LEMMA LoadSteps ==
    ASSUME ShelfInv, ScriptsAsked \/ ScriptsServed
    PROVE  ShelfInv'
<1>1. UNCHANGED <<stored, written, shelf, shelfLoad, scriptAddress, scriptDraft, target, console, linked, scriptQuestion, scriptCalls>>
  BY DEF ScriptsAsked, ScriptsServed, storeVars, sideVars
<1>2. ShownScript' = ShownScript
  BY <1>1, ShownKept
<1>3. DetailTypes' /\ DetailOwn'
  BY <1>1, <1>2, DetailKept
<1>4. ListTypes' /\ ReadsTrue'
  <2>1. CASE ScriptsAsked
    BY <1>1, <2>1 DEF ScriptsAsked, ShelfFetch, ShelfInv, ShelfTypes, ListTypes, ReadsTrue
  <2>2. CASE ScriptsServed
    <3>1. shelfFetch'.stage = "answered" /\ shelfFetch'.answer = stored /\ unseen' = FALSE
      BY <2>2 DEF ScriptsServed
    <3> QED BY <1>1, <3>1 DEF ShelfInv, ShelfTypes, ListTypes, StoreTypes, ReadsTrue
  <2> QED BY <2>1, <2>2
<1> QED BY <1>1, <1>3, <1>4 DEF ShelfInv, ShelfTypes, StoreTypes, DraftTypes, DraftNamed

LEMMA ArriveSteps ==
    ASSUME ShelfInv, ScriptsArrive \/ ScriptsLost
    PROVE  ShelfInv'
<1>1. UNCHANGED <<stored, written, unseen, scriptAddress, linked>> /\ EditorFollows /\ DetailStays
  BY DEF ScriptsArrive, ScriptsLost, storeVars
<1>2. DetailTypes' /\ DetailOwn'
  BY <1>1, DetailStaysOwned
<1>3. DraftTypes' /\ DraftNamed'
  <2>1. CASE UNCHANGED scriptDraft
    BY <2>1 DEF ShelfInv, ShelfTypes, DraftTypes, DraftNamed
  <2>2. CASE scriptDraft # NoScriptDraft /\ scriptDraft' = [scriptDraft EXCEPT !.typed = scriptDraft.first, !.call = 0]
    BY <2>2 DEF ShelfInv, ShelfTypes, DraftTypes, DraftRow, DraftNamed
  <2> QED BY <1>1, <2>1, <2>2 DEF EditorFollows
<1>4. Unread => Unread'
  BY <1>1, UnreadStays
<1>5. ListTypes'
  BY <1>1 DEF ScriptsArrive, ScriptsLost, NoShelfFetch, ShelfInv, ShelfTypes, ListTypes
<1>6. ReadsTrue'
  BY <1>1, <1>4 DEF ScriptsArrive, ScriptsLost, NoShelfFetch, ShelfInv, ReadsTrue
<1> QED BY <1>1, <1>2, <1>3, <1>5, <1>6 DEF ShelfInv, ShelfTypes, StoreTypes

LEMMA OthersSteps ==
    ASSUME ShelfInv, NEW s, NEW d, OtherDeletes(s) \/ (d \in RunDevices /\ DeviceLinks(d))
    PROVE  ShelfInv'
<1>1. UNCHANGED <<written, shelf, shelfFetch, shelfLoad, scriptAddress, scriptDraft, target, console, scriptQuestion, scriptCalls>>
  BY DEF OtherDeletes, DeviceLinks, shelfVars, storeVars, sideVars
<1>2. ShownScript' = ShownScript
  BY <1>1, ShownKept
<1>3. DetailTypes' /\ DetailOwn'
  BY <1>1, <1>2, DetailKept
<1>4. StoreTypes' /\ linked' \subseteq RunDevices /\ unseen' \in BOOLEAN
  <2>1. NoScript \in StoreRow
    BY DEF NoScript, StoreRow
  <2>2. stored \in [ScriptKey -> StoreRow] /\ written \in FirstScripts .. MaxScripts /\ linked \subseteq RunDevices
        /\ unseen \in BOOLEAN
    BY DEF ShelfInv, ShelfTypes, StoreTypes, ListTypes
  <2>3. CASE OtherDeletes(s)
    BY <1>1, <2>1, <2>2, <2>3 DEF OtherDeletes, StoreTypes
  <2>4. CASE d \in RunDevices /\ DeviceLinks(d)
    BY <1>1, <2>2, <2>4 DEF DeviceLinks, storeVars, StoreTypes
  <2> QED BY <2>3, <2>4
<1>5. unseen' \/ UNCHANGED <<stored, unseen>>
  BY DEF OtherDeletes, DeviceLinks, storeVars
<1>6. ReadsTrue'
  BY <1>1, <1>5 DEF ShelfInv, ReadsTrue, Unread
<1> QED BY <1>1, <1>3, <1>4, <1>6 DEF ShelfInv, ShelfTypes, ListTypes, DraftTypes, DraftNamed

LEMMA ShelfInvStep == ASSUME ShelfInv, [ScriptNext]_scriptVars PROVE ShelfInv'
<1>1. CASE UNCHANGED scriptVars
  BY <1>1 DEF scriptVars, storeVars, shelfVars, sideVars, ShelfInv, ShelfTypes, StoreTypes, ListTypes, DraftTypes,
              DetailTypes, ReadsTrue, Unread, DetailOwn, Belongs, DraftNamed, ShownScript, LaidOut, OnShelf
<1>2. CASE ScriptNext
  <2>1. CASE SaveScript
    BY <2>1, SaveStep
  <2>2. CASE ConfirmScript
    BY <2>2, ConfirmStep
  <2>3. ASSUME NEW c \in RunSlot,
               ScriptServed(c) \/ RunStarted(c) \/ StoreAnswered(c) \/ StoreLoaded(c) \/ ScriptFails(c)
        PROVE  ShelfInv'
    BY <2>3, ServedStep, RunStartedStep, AnsweredStep, LoadedStep, FailsStep
  <2>4. CASE ScriptsAsked \/ ScriptsServed \/ ScriptsArrive \/ ScriptsLost
    BY <2>4, LoadSteps, ArriveSteps
  <2>5. ASSUME NEW s, NEW d, OtherDeletes(s) \/ (d \in RunDevices /\ DeviceLinks(d)) PROVE ShelfInv'
    BY <2>5, OthersSteps
  <2>6. ASSUME NEW d, AskDelete \/ ChooseTarget(d) \/ AskRun \/ DeclineScript \/ CloseConsole PROVE ShelfInv'
    BY <2>6, QuestionSteps
  <2>7. ASSUME NEW s \in ScriptKey \cup {0}, NEW as \in {"blank", "template", "edit", "copy"},
               PickScript(s) \/ GoToScript(s) \/ WriteScript(as) \/ EditShown(as) \/ TypeDraft \/ CancelEdit
        PROVE  ShelfInv'
    BY <2>7, SideSteps
  <2>8. 0 \in ScriptKey \cup {0} /\ "blank" \in {"blank", "template", "edit", "copy"}
    OBVIOUS
  <2> QED BY <1>2, <2>1, <2>2, <2>3, <2>4, <2>5, <2>6, <2>7, <2>8 DEF ScriptNext
<1> QED BY <1>1, <1>2

\* With nothing under way, the list of the script library is the server's, but
\* for what went on behind its back; and a console next to a script follows a
\* run of that script (save, remove, ScriptDetail), however many scripts,
\* devices and requests there are.
THEOREM ShelfIsHonest == ShelfSpec => []ShelfHonest
<1>1. ShelfInv => ShelfHonest
  <2> SUFFICES ASSUME ShelfInv PROVE ShelfHonest
    OBVIOUS
  <2>1. ConsoleOfScript
    BY DEF ShelfInv, DetailOwn, Belongs, ConsoleOfScript
  <2>2. ShelfSettles
    BY DEF ShelfInv, ReadsTrue, Unread, ShelfSettles, NoScriptCall, NoShelfFetch
  <2> QED BY <2>1, <2>2 DEF ShelfHonest
<1> QED BY ShelfInvInit, ShelfInvStep, <1>1, PTL DEF ShelfSpec

-----------------------------------------------------------------------------
(* Acknowledging alerts.  A round that is under way owns the handoff it    *)
(* set; a round that is over leaves there what no longer waits.            *)

AckedIn(st, S) == \A a \in S : st[a] \in {"quittiert", "behoben"}

AlertTypes ==
    /\ alertState \in [AlertId -> AlertState]
    /\ named \subseteq AlertId /\ rounds \in Seq(AckRound) /\ needless = {}
    /\ handoff.ids \subseteq AlertId
RoundTrue(st, r) == r.sends \subseteq r.asked /\ AckedIn(st, r.ok) /\ AckedIn(st, r.gone)
HandoffTrue ==
    handoff.ids # {} =>
        /\ handoff.round \in 1 .. Len(rounds)
        /\ IF rounds[handoff.round].stage = "over" THEN AckedIn(alertState, handoff.ids)
                                                   ELSE handoff.ids = rounds[handoff.round].sends
AlertInv ==
    AlertTypes /\ (\A i \in 1 .. Len(rounds) : RoundTrue(alertState, rounds[i])) /\ HandoffTrue

LEMMA AlertInvInit == AlertInit => AlertInv
<1> SUFFICES ASSUME AlertInit PROVE AlertInv
  OBVIOUS
<1>1. rounds = <<>> /\ Len(rounds) = 0 /\ 1 .. Len(rounds) = {}
  BY DEF AlertInit
<1>2. AlertTypes
  BY <1>1 DEF AlertInit, AlertTypes, AlertState, Tab, NoDialog, NoHandoff
<1> QED BY <1>1, <1>2 DEF AlertInv, HandoffTrue, AlertInit, NoHandoff

\* The alerts that no longer wait do not wait again.
NoneWaitsAgain ==
    alertState' \in [AlertId -> AlertState]
    /\ \A S \in SUBSET AlertId : AckedIn(alertState, S) => AckedIn(alertState', S)

LEMMA AckedStays ==
    ASSUME AlertTypes,
           \/ UNCHANGED alertState
           \/ \E a \in AlertId : Ack(a) /\ alertState[a] # "behoben"
           \/ \E a \in AlertId : AlertChanges(a)
    PROVE  NoneWaitsAgain
<1>1. CASE UNCHANGED alertState
  BY <1>1 DEF NoneWaitsAgain, AlertTypes
<1>2. CASE \E a \in AlertId : Ack(a) /\ alertState[a] # "behoben"
  BY <1>2 DEF NoneWaitsAgain, AckedIn, AlertTypes, AlertState, Tab, Ack
<1>3. CASE \E a \in AlertId : AlertChanges(a)
  BY <1>3 DEF NoneWaitsAgain, AckedIn, AlertTypes, AlertState, Tab, Ack, AlertChanges
<1> QED BY <1>1, <1>2, <1>3

\* A step that neither begins a round nor ends one.
LEMMA RoundsStay ==
    ASSUME AlertInv, UNCHANGED <<rounds, needless>>, named' \subseteq AlertId, NoneWaitsAgain,
           handoff' = handoff \/ handoff' = NoHandoff
    PROVE  AlertInv'
<1>1. \A i \in 1 .. Len(rounds) : rounds[i] \in AckRound
  BY DEF AlertInv, AlertTypes
<1>2. \A i \in 1 .. Len(rounds) : RoundTrue(alertState', rounds[i])
  BY <1>1 DEF AlertInv, RoundTrue, AckRound, NoneWaitsAgain
<1>3. HandoffTrue' /\ handoff'.ids \subseteq AlertId
  <2>1. CASE handoff' = NoHandoff
    BY <2>1 DEF HandoffTrue, NoHandoff
  <2>2. CASE handoff' = handoff
    BY <2>2 DEF AlertInv, AlertTypes, HandoffTrue, NoneWaitsAgain
  <2> QED BY <2>1, <2>2
<1> QED BY <1>2, <1>3 DEF AlertInv, AlertTypes, NoneWaitsAgain

LEMMA StartStep ==
    ASSUME AlertInv, NEW S \in SUBSET AlertId, NEW asked \in SUBSET AlertId, NEW bulk \in BOOLEAN,
           StartRound(S, asked, bulk), S \subseteq asked, UNCHANGED alertState, named' \subseteq AlertId,
           \A a \in S : TabOf(a) = "offen" /\ a \notin AckBusy
    PROVE  AlertInv'
<1> DEFINE r == [sends |-> S, left |-> S, ok |-> {}, gone |-> {}, broken |-> {}, asked |-> asked,
                 bulk |-> bulk, stage |-> "sending"]
<1>1. r \in AckRound /\ r.sends = S /\ r.asked = asked /\ r.ok = {} /\ r.gone = {} /\ r.stage = "sending"
  BY DEF AckRound
<1>2. rounds' = Append(rounds, r) /\ needless' = {}
  BY DEF StartRound, AlertInv, AlertTypes
<1> HIDE DEF r
<1>3. /\ rounds' \in Seq(AckRound) /\ Len(rounds') = Len(rounds) + 1 /\ rounds'[Len(rounds) + 1] = r
      /\ Len(rounds) \in Nat /\ \A i \in 1 .. Len(rounds) : rounds'[i] = rounds[i]
  BY <1>1, <1>2 DEF AlertInv, AlertTypes
<1>4. RoundTrue(alertState, r)
  BY <1>1 DEF RoundTrue, AckedIn
<1>5. \A i \in 1 .. Len(rounds') : RoundTrue(alertState', rounds'[i])
  <2> SUFFICES ASSUME NEW i \in 1 .. Len(rounds') PROVE RoundTrue(alertState, rounds'[i])
    OBVIOUS
  <2>1. i \in 1 .. Len(rounds) \/ i = Len(rounds) + 1
    BY <1>3
  <2> QED BY <1>3, <1>4, <2>1 DEF AlertInv
<1>6. handoff' = NoHandoff \/ handoff' = [round |-> Len(rounds'), ids |-> S]
  BY DEF StartRound
<1>7. HandoffTrue' /\ handoff'.ids \subseteq AlertId
  BY <1>1, <1>3, <1>6 DEF HandoffTrue, NoHandoff
<1> QED BY <1>2, <1>3, <1>5, <1>7 DEF AlertInv, AlertTypes

\* A step of one round, after which it owns the handoff as before.
LEMMA RoundStep ==
    ASSUME AlertInv, NEW i \in 1 .. Len(rounds), NEW r \in AckRound, rounds' = [rounds EXCEPT ![i] = r],
           UNCHANGED <<named, needless>>, NoneWaitsAgain, RoundTrue(alertState', r),
           \/ handoff' = NoHandoff
           \/ /\ UNCHANGED handoff /\ r.sends = rounds[i].sends
              /\ \/ (r.stage = "over") <=> (rounds[i].stage = "over")
                 \/ handoff.round # i
           \/ /\ handoff'.round = i /\ r.stage = "over"
              /\ handoff'.ids \subseteq AlertId /\ AckedIn(alertState', handoff'.ids)
    PROVE  AlertInv'
<1>1. rounds \in Seq(AckRound) /\ rounds' \in Seq(AckRound) /\ Len(rounds') = Len(rounds) /\ rounds'[i] = r
      /\ \A j \in 1 .. Len(rounds) : j # i => rounds'[j] = rounds[j]
  BY DEF AlertInv, AlertTypes
<1>2. \A S \in SUBSET AlertId : AckedIn(alertState, S) => AckedIn(alertState', S)
  BY DEF NoneWaitsAgain
<1>3. \A j \in 1 .. Len(rounds) : j # i => RoundTrue(alertState', rounds'[j])
  <2> SUFFICES ASSUME NEW j \in 1 .. Len(rounds), j # i PROVE RoundTrue(alertState', rounds'[j])
    OBVIOUS
  <2>1. rounds[j] \in AckRound /\ rounds'[j] = rounds[j] /\ RoundTrue(alertState, rounds[j])
    BY <1>1 DEF AlertInv
  <2> QED BY <1>2, <2>1 DEF RoundTrue, AckRound
<1>4. \A j \in 1 .. Len(rounds') : RoundTrue(alertState', rounds'[j])
  BY <1>1, <1>3
<1>5. HandoffTrue' /\ handoff'.ids \subseteq AlertId
  <2>1. CASE handoff' = NoHandoff
    BY <2>1 DEF HandoffTrue, NoHandoff
  <2>2. CASE /\ UNCHANGED handoff /\ r.sends = rounds[i].sends
             /\ \/ (r.stage = "over") <=> (rounds[i].stage = "over")
                \/ handoff.round # i
    <3>1. handoff.ids \subseteq AlertId
          /\ (AckedIn(alertState, handoff.ids) => AckedIn(alertState', handoff.ids))
      BY <1>2 DEF AlertInv, AlertTypes
    <3> QED BY <1>1, <2>2, <3>1 DEF AlertInv, HandoffTrue
  <2>3. CASE /\ handoff'.round = i /\ r.stage = "over"
             /\ handoff'.ids \subseteq AlertId /\ AckedIn(alertState', handoff'.ids)
    BY <1>1, <2>3 DEF HandoffTrue
  <2> QED BY <2>1, <2>2, <2>3
<1> QED BY <1>1, <1>4, <1>5 DEF AlertInv, AlertTypes, NoneWaitsAgain

\* One alert's answer, whatever it was.
LEMMA AnswerStep ==
    ASSUME AlertInv, NEW i \in 1 .. Len(rounds), NEW a \in AlertId, AckServed(i, a) \/ AckFails(i, a)
    PROVE  AlertInv'
<1> DEFINE r == rounds'[i]
<1>1. rounds \in Seq(AckRound) /\ rounds[i] \in AckRound /\ RoundTrue(alertState, rounds[i])
  BY DEF AlertInv, AlertTypes
<1>2. UNCHANGED alertState \/ (Ack(a) /\ alertState[a] # "behoben")
  BY DEF AckServed, AckFails
<1>3. NoneWaitsAgain
  BY <1>2, AckedStays DEF AlertInv
<1>4. \/ /\ rounds' = [rounds EXCEPT ![i].left = @ \ {a}, ![i].gone = @ \cup {a}]
         /\ alertState'[a] = "behoben"
      \/ /\ rounds' = [rounds EXCEPT ![i].left = @ \ {a}, ![i].ok = @ \cup {a}]
         /\ alertState'[a] = "quittiert"
      \/ rounds' = [rounds EXCEPT ![i].left = @ \ {a}, ![i].broken = @ \cup {a}]
  BY DEF AckServed, AckFails, Ack, AlertInv, AlertTypes
<1>5. r \in AckRound /\ r.sends = rounds[i].sends /\ r.asked = rounds[i].asked /\ r.stage = rounds[i].stage
      /\ \/ r.gone = rounds[i].gone \cup {a} /\ r.ok = rounds[i].ok /\ alertState'[a] = "behoben"
         \/ r.gone = rounds[i].gone /\ r.ok = rounds[i].ok \cup {a} /\ alertState'[a] = "quittiert"
         \/ r.gone = rounds[i].gone /\ r.ok = rounds[i].ok
  BY <1>1, <1>4 DEF AckRound
<1>6. rounds' = [rounds EXCEPT ![i] = r]
  BY <1>1, <1>4
<1> HIDE DEF r
<1>7. AckedIn(alertState', rounds[i].ok) /\ AckedIn(alertState', rounds[i].gone)
  BY <1>1, <1>3 DEF RoundTrue, NoneWaitsAgain, AckRound
<1>8. RoundTrue(alertState', r)
  BY <1>1, <1>5, <1>7 DEF RoundTrue, AckedIn
<1> QED BY <1>3, <1>5, <1>6, <1>8, RoundStep DEF AckServed, AckFails

LEMMA AlertInvStep == AlertInv /\ [AlertNext]_alertVars => AlertInv'
<1> SUFFICES ASSUME AlertInv, [AlertNext]_alertVars PROVE AlertInv'
  OBVIOUS
<1>1. AlertTypes /\ named \subseteq AlertId /\ (UNCHANGED alertState => NoneWaitsAgain)
  BY AckedStays DEF AlertInv, AlertTypes
<1>2. \A h : Handoff(h) = h \/ Handoff(h) = NoHandoff
  BY DEF Handoff
<1>3. CASE UNCHANGED alertVars
  BY <1>1, <1>3, RoundsStay DEF alertVars
<1>4. ASSUME NEW v, ViewIs(v) PROVE AlertInv'
  BY <1>1, <1>2, <1>4, RoundsStay DEF ViewIs
<1>5. CASE AckAll
  <2>1. InTab \subseteq AlertId
    BY DEF InTab, Narrow
  <2>2. named' \subseteq AlertId
    BY <1>5, <2>1 DEF AckAll, StillToAck
  <2> QED BY <1>1, <1>5, <2>2, RoundsStay DEF AckAll
<1>6. CASE CancelAll
  BY <1>1, <1>6, RoundsStay DEF CancelAll, NoDialog
<1>7. CASE AlertsLoad \/ AlertsFail
  BY <1>1, <1>2, <1>7, RoundsStay DEF AlertsLoad, AlertsFail
<1>8. ASSUME NEW a \in AlertId, AlertChanges(a) PROVE AlertInv'
  <2>1. NoneWaitsAgain
    BY <1>1, <1>8, AckedStays
  <2> QED BY <1>1, <1>8, <2>1, RoundsStay DEF AlertChanges
<1>9. CASE ConfirmAll
  <2>1. StillToAck(named) \subseteq named /\ named' \subseteq AlertId
        /\ \A a \in StillToAck(named) : TabOf(a) = "offen" /\ a \notin AckBusy
    BY <1>9 DEF StillToAck, ConfirmAll, NoDialog
  <2>2. StartRound(StillToAck(named), named, TRUE) /\ UNCHANGED alertState
    BY <1>9 DEF ConfirmAll
  <2>3. StillToAck(named) \in SUBSET AlertId /\ named \in SUBSET AlertId
    BY <1>1, <2>1
  <2> QED BY <2>1, <2>2, <2>3, StartStep
<1>10. ASSUME NEW a \in AlertId, AckRow(a) PROVE AlertInv'
  <2>1. TabOf(a) = "offen" /\ a \notin AckBusy
    BY <1>10 DEF AckRow, InTab, Narrow
  <2>2. StartRound({a}, {a}, FALSE) /\ UNCHANGED <<alertState, named>>
    BY <1>10 DEF AckRow
  <2>3. {a} \in SUBSET AlertId
    OBVIOUS
  <2> QED BY <1>1, <2>1, <2>2, <2>3, StartStep
<1>11. ASSUME NEW i \in 1 .. Len(rounds), AllSettled(i) PROVE AlertInv'
  <2> DEFINE r == [rounds[i] EXCEPT !.stage = "loading"]
  <2>1. rounds[i] \in AckRound /\ RoundTrue(alertState, rounds[i]) /\ rounds[i].stage = "sending"
    BY <1>1, <1>11 DEF AlertInv, AlertTypes, AllSettled
  <2>2. r \in AckRound /\ r.sends = rounds[i].sends /\ r.stage = "loading" /\ RoundTrue(alertState, r)
    BY <2>1 DEF AckRound, RoundTrue
  <2>3. rounds' = [rounds EXCEPT ![i] = r]
    BY <1>11 DEF AllSettled
  <2> HIDE DEF r
  <2> QED BY <1>1, <1>11, <2>1, <2>2, <2>3, RoundStep DEF AllSettled
<1>12. ASSUME NEW i \in 1 .. Len(rounds), RoundOver(i) PROVE AlertInv'
  <2> DEFINE r == [rounds[i] EXCEPT !.stage = "over"]
  <2>1. rounds[i] \in AckRound /\ RoundTrue(alertState, rounds[i])
    BY <1>1 DEF AlertInv, AlertTypes
  <2>2. r \in AckRound /\ r.sends = rounds[i].sends /\ r.stage = "over" /\ RoundTrue(alertState, r)
    BY <2>1 DEF AckRound, RoundTrue
  <2>3. rounds' = [rounds EXCEPT ![i] = r]
    BY <1>12 DEF RoundOver
  <2> HIDE DEF r
  <2>4. Leaving(rounds[i]) \subseteq AlertId /\ AckedIn(alertState, Leaving(rounds[i]))
    BY <2>1 DEF Leaving, AckRound, RoundTrue, AckedIn
  <2>5. \/ handoff' = NoHandoff
        \/ handoff.round = i /\ handoff' = [round |-> i, ids |-> Leaving(rounds[i])]
        \/ handoff.round # i /\ handoff' = handoff
    BY <1>2, <1>12 DEF RoundOver
  <2>6. UNCHANGED <<alertState, named, needless>> /\ NoneWaitsAgain
    BY <1>1, <1>12 DEF RoundOver
  <2>7. RoundTrue(alertState', r)
    BY <2>2, <2>6
  <2>8. \/ handoff' = NoHandoff
        \/ /\ UNCHANGED handoff /\ r.sends = rounds[i].sends
           /\ \/ (r.stage = "over") <=> (rounds[i].stage = "over")
              \/ handoff.round # i
        \/ /\ handoff'.round = i /\ r.stage = "over"
           /\ handoff'.ids \subseteq AlertId /\ AckedIn(alertState', handoff'.ids)
    BY <2>2, <2>4, <2>5, <2>6
  <2> QED BY <2>2, <2>3, <2>6, <2>7, <2>8, RoundStep
<1>13. ASSUME NEW i \in 1 .. Len(rounds), NEW a \in AlertId, AckServed(i, a) \/ AckFails(i, a) PROVE AlertInv'
  BY <1>13, AnswerStep
<1> QED BY <1>3, <1>4, <1>5, <1>6, <1>7, <1>8, <1>9, <1>10, <1>11, <1>12, <1>13
        DEF AlertNext, ChooseTab, ShowPerson

\* What overlapping rounds send and what they leave behind (AlertsPage
\* ackAll, stillToAck and the handoff of the focus): nothing is sent that
\* was not named or that this tab knows to be done, and with no round under
\* way the handoff waits for no alert that is still open.
THEOREM RoundsAreHonest == AlertSpec => []RoundsHonest
<1>1. AlertInv => RoundsHonest
  <2> SUFFICES ASSUME AlertInv PROVE RoundsHonest
    OBVIOUS
  <2>1. AcksAsNamed
    BY DEF AlertInv, AlertTypes, RoundTrue, AcksAsNamed
  <2>2. ASSUME AckBusy = {}, NEW a \in handoff.ids PROVE alertState[a] # "offen"
    <3> DEFINE k == handoff.round
    <3>1. k \in 1 .. Len(rounds)
      BY <2>2 DEF AlertInv, HandoffTrue
    <3>2. CASE rounds[k].stage = "over"
      BY <2>2, <3>1, <3>2 DEF AlertInv, HandoffTrue, AckedIn
    <3>3. CASE rounds[k].stage # "over"
      <4>1. a \in rounds[k].sends
        BY <2>2, <3>1, <3>3 DEF AlertInv, HandoffTrue
      <4>2. a \in AckBusy
        BY <3>1, <3>3, <4>1 DEF AckBusy
      <4> QED BY <2>2, <4>2
    <3> QED BY <3>2, <3>3
  <2> QED BY <2>1, <2>2 DEF RoundsHonest, HandoffEnds
<1> QED BY <1>1, AlertInvInit, AlertInvStep, PTL DEF AlertSpec

-----------------------------------------------------------------------------
(* A finite set in a given order.                                          *)

\* R orders the elements of S strictly, each two of them.
OrdersStrictly(R, S) ==
    /\ \A a, b \in S : a # b => <<a, b>> \in R \/ <<b, a>> \in R
    /\ \A a, b, c \in S : <<a, b>> \in R /\ <<b, c>> \in R => <<a, c>> \in R
    /\ \A a \in S : <<a, a>> \notin R
Ascends(s, n, R) == \A i, j \in 1 .. n : i < j => <<s[i], s[j]>> \in R

LEMMA LastOf ==
    ASSUME NEW S, IsFiniteSet(S), S # {}, NEW R, OrdersStrictly(R, S)
    PROVE  \E m \in S : \A t \in S : t # m => <<t, m>> \in R
<1> DEFINE Above(x) == {t \in S : <<x, t>> \in R}
           counts == {Cardinality(Above(x)) : x \in S}
<1>1. \A x \in S : IsFiniteSet(Above(x)) /\ Cardinality(Above(x)) \in Nat
  <2> SUFFICES ASSUME NEW x \in S PROVE IsFiniteSet(Above(x)) /\ Cardinality(Above(x)) \in Nat
    OBVIOUS
  <2>1. Above(x) \in SUBSET S
    OBVIOUS
  <2>2. IsFiniteSet(Above(x))
    BY <2>1, FS_Subset
  <2> QED BY <2>2, FS_CardinalityType
<1>2. counts \subseteq Nat /\ counts # {}
  BY <1>1
<1>3. PICK k \in counts : \A n \in counts : k <= n
  BY <1>2, LeastOf
<1>4. PICK x \in S : k = Cardinality(Above(x))
  OBVIOUS
<1>5. Above(x) = {}
  <2> SUFFICES ASSUME NEW y \in Above(x) PROVE FALSE
    OBVIOUS
  <2>1. y \in S /\ Above(y) \in SUBSET Above(x) /\ y \notin Above(y)
    BY DEF OrdersStrictly
  <2>2. Cardinality(Above(y)) <= Cardinality(Above(x)) /\ (Cardinality(Above(x)) = Cardinality(Above(y)) => Above(x) = Above(y))
    BY <1>1, <2>1, FS_Subset
  <2>3. Cardinality(Above(y)) # Cardinality(Above(x))
    BY <2>1, <2>2
  <2>4. Cardinality(Above(y)) \in counts /\ Cardinality(Above(y)) \in Nat
    BY <1>1, <2>1
  <2>5. k <= Cardinality(Above(y)) /\ k = Cardinality(Above(x)) /\ k \in Nat
    BY <1>1, <1>3, <1>4, <2>4
  <2> HIDE DEF Above
  <2> QED BY <2>2, <2>3, <2>4, <2>5
<1>6. \A t \in S : t # x => <<t, x>> \in R
  BY <1>5 DEF OrdersStrictly
<1> QED BY <1>6

\* It has a sequence that names each element in its place.
LEMMA SortedExists ==
    ASSUME NEW S, IsFiniteSet(S), NEW R, OrdersStrictly(R, S)
    PROVE  \E s \in [1 .. Cardinality(S) -> S] : Ascends(s, Cardinality(S), R)
<1> DEFINE Sorts(T, n) == \E s \in [1 .. n -> T] : Ascends(s, n, R)
           odd == {n \in Nat : \E T \in SUBSET S : Cardinality(T) = n /\ ~Sorts(T, n)}
<1>1. Cardinality(S) \in Nat /\ S \in SUBSET S
  BY FS_CardinalityType
<1>2. ASSUME odd # {} PROVE FALSE
  <2>1. PICK n \in odd : \A m \in odd : n <= m
    BY <1>2, LeastOf
  <2>2. PICK T \in SUBSET S : Cardinality(T) = n /\ ~Sorts(T, n)
    OBVIOUS
  <2>3. n \in Nat /\ IsFiniteSet(T)
    BY FS_Subset
  <2>4. CASE T = {}
    <3>1. n = 0
      BY <2>2, <2>4, FS_EmptySet
    <3>2. [i \in 1 .. 0 |-> 0] \in [1 .. 0 -> T] /\ Ascends([i \in 1 .. 0 |-> 0], 0, R)
      BY DEF Ascends
    <3> QED BY <2>2, <3>1, <3>2
  <2>5. CASE T # {}
    <3>1. OrdersStrictly(R, T)
      BY DEF OrdersStrictly
    <3>2. PICK m \in T : \A t \in T : t # m => <<t, m>> \in R
      BY <2>3, <2>5, <3>1, LastOf
    <3> DEFINE U == T \ {m}
    <3>3. Cardinality(U) = n - 1 /\ U \in SUBSET S
      BY <2>2, <2>3, FS_RemoveElement
    <3>4. n - 1 \in Nat
      <4>1. n # 0
        BY <2>2, <2>3, <2>5, FS_EmptySet
      <4> QED BY <2>3, <4>1
    <3>5. n - 1 \notin odd
      BY <2>1, <2>3, <3>4
    <3>6. Sorts(U, n - 1)
      BY <3>3, <3>4, <3>5
    <3>7. PICK u \in [1 .. n - 1 -> U] : Ascends(u, n - 1, R)
      BY <3>6
    <3> DEFINE s == [i \in 1 .. n |-> IF i = n THEN m ELSE u[i]]
    <3>8. \A i \in 1 .. n : i # n => i \in 1 .. n - 1 /\ s[i] = u[i] /\ u[i] \in U
      BY <2>3
    <3>9. s \in [1 .. n -> T]
      BY <3>8
    <3>10. ASSUME NEW i \in 1 .. n, NEW j \in 1 .. n, i < j PROVE <<s[i], s[j]>> \in R
      <4>1. i # n
        BY <2>3, <3>10
      <4>2. CASE j = n
        BY <3>2, <3>8, <4>1, <4>2
      <4>3. CASE j # n
        BY <3>7, <3>8, <3>10, <4>1, <4>3 DEF Ascends
      <4> QED BY <4>2, <4>3
    <3> HIDE DEF s
    <3>11. Sorts(T, n)
      BY <3>9, <3>10 DEF Ascends
    <3> QED BY <2>2, <3>11
  <2> QED BY <2>4, <2>5
<1> QED BY <1>1, <1>2

-----------------------------------------------------------------------------
(* The device list: what the box holds, and what may be selected.          *)

\* The pager is a record whatever it was last reset for.
DevShapes ==
    /\ fleet \in [loaded: BOOLEAN, failed: BOOLEAN, persons: BOOLEAN, devices: SUBSET Id, state: [Id -> DeviceState]]
    /\ "page" \in DOMAIN pager /\ pager.page \in Nat \ {0}
DevInv == DevShapes /\ KeystrokesStay

LEMMA TableSizes == {ListDevices, PageRows, RenderCap} \subseteq Nat \ {0} /\ Id \subseteq Nat /\ IsFiniteSet(Id)
<1>1. {ListDevices, PageRows, RenderCap} \subseteq Nat \ {0} /\ ListDevices \in Nat
  BY TableAssumption
<1>2. Id \subseteq Nat
  BY <1>1 DEF Id
<1>3. IsFiniteSet(Id)
  <2>1. 1 \in Int /\ ListDevices \in Int
    BY <1>1
  <2>2. IsFiniteSet(1 .. ListDevices)
    BY <2>1, FS_Interval
  <2> QED BY <2>2 DEF Id
<1> QED BY <1>1, <1>2, <1>3

LEMMA DevInvInit == DevInit => DevInv
BY DEF DevInit, DevInv, DevShapes, KeystrokesStay, DeviceState

LEMMA ResetPage ==
    ASSUME DevShapes, pager' = pager \/ pager' = PageReset
    PROVE  "page" \in DOMAIN pager' /\ pager'.page \in Nat \ {0}
<1>1. CASE pager' = pager
  BY <1>1 DEF DevShapes
<1>2. CASE pager' = PageReset
  <2>1. DOMAIN pager' = DOMAIN pager /\ "page" \in DOMAIN pager /\ pager'.page \in {1, pager.page}
    BY <1>2 DEF DevShapes, PageReset
  <2> QED BY <2>1 DEF DevShapes
<1> QED BY <1>1, <1>2

LEMMA DevInvStep == DevInv /\ [DevNext]_devVars => DevInv'
<1> SUFFICES ASSUME DevInv, [DevNext]_devVars PROVE DevInv'
  OBVIOUS
<1> USE DEF DevInv, navVars, selVars
<1>1. CASE /\ fleet' = fleet /\ (pager' = pager \/ pager' = PageReset)
           /\ \/ UNCHANGED <<box, typed>> \/ typed' = "unset" \/ typed' = box'
  BY <1>1, ResetPage DEF DevShapes, KeystrokesStay
<1>2. CASE Render
  BY <1>1, <1>2 DEF Render, TakesOver
<1>3. CASE FollowLink \/ GoBack \/ ResetFilters \/ TogglePage \/ SelectHits \/ ClearSelection
  BY <1>1, <1>3 DEF FollowLink, GoBack, ResetFilters, TogglePage, SelectHits, ClearSelection, Select
<1>4. CASE \E t \in Text : Type(t)
  BY <1>1, <1>4 DEF Type
<1>5. CASE \/ \E f \in DevFilter : ChooseFilter(f)
           \/ \E p \in PersonParam : ChoosePerson(p)
           \/ \E s \in DevSort : SortBy(s)
           \/ \E n \in ViewName : SaveView(n)
  BY <1>1, <1>5 DEF ChooseFilter, ChoosePerson, SortBy, SaveView
<1>6. CASE \E i \in 1 .. Len(views) : ApplyView(i) \/ RemoveView(i)
  BY <1>1, <1>6 DEF ApplyView, RemoveView
<1>7. CASE \E d \in Id, shift \in BOOLEAN : Toggle(d, shift)
  BY <1>1, <1>7 DEF Toggle, Select
<1>8. CASE (\E p \in 1 .. ListDevices : SetPage(p)) \/ (\E s \in {"some", "alle"} : SetPageSize(s))
  <2>1. UNCHANGED <<fleet, box, typed>>
    BY <1>8 DEF SetPage, SetPageSize
  <2>2. CASE \E p \in 1 .. ListDevices : SetPage(p)
    <3>1. PICK p \in 1 .. ListDevices : pager' = [pager EXCEPT !.page = p]
      BY <2>2 DEF SetPage
    <3>2. p \in Nat \ {0} /\ DOMAIN pager' = DOMAIN pager /\ pager'.page = p
      BY <3>1, TableSizes DEF DevShapes
    <3> QED BY <2>1, <3>2 DEF DevShapes, KeystrokesStay
  <2>3. CASE \E s \in {"some", "alle"} : SetPageSize(s)
    <3>1. PICK s \in {"some", "alle"} : pager' = [pager EXCEPT !.size = s, !.page = 1]
      BY <2>3 DEF SetPageSize
    <3>2. DOMAIN pager' = DOMAIN pager /\ pager'.page = 1
      BY <3>1 DEF DevShapes
    <3> QED BY <2>1, <3>2 DEF DevShapes, KeystrokesStay
  <2> QED BY <1>8, <2>2, <2>3
<1>9. CASE DevicesLoad \/ DevicesFail \/ PersonsLoad \/ (\E d \in Id : DeviceChanges(d))
  <2>1. UNCHANGED <<box, typed, pager>>
    BY <1>9 DEF DevicesLoad, DevicesFail, PersonsLoad, DeviceChanges, FleetIs
  <2>2. fleet' \in [loaded: BOOLEAN, failed: BOOLEAN, persons: BOOLEAN, devices: SUBSET Id, state: [Id -> DeviceState]]
    <3>1. CASE DevicesLoad
      <4>1. PICK S \in {{}, Id} : fleet' = [fleet EXCEPT !.loaded = TRUE, !.failed = FALSE, !.devices = S]
        BY <3>1 DEF DevicesLoad, FleetIs
      <4>2. S \in SUBSET Id
        OBVIOUS
      <4> QED BY <4>1, <4>2 DEF DevShapes
    <3>2. CASE DevicesFail
      BY <3>2 DEF DevicesFail, FleetIs, DevShapes
    <3>3. CASE PersonsLoad
      BY <3>3 DEF PersonsLoad, FleetIs, DevShapes
    <3>4. CASE \E d \in Id : DeviceChanges(d)
      BY <3>4 DEF DeviceChanges, FleetIs, DevShapes
    <3> QED BY <1>9, <3>1, <3>2, <3>3, <3>4
  <2> QED BY <2>1, <2>2 DEF DevShapes, KeystrokesStay
<1>10. CASE UNCHANGED devVars
  BY <1>1, <1>10 DEF devVars
<1> QED BY <1>2, <1>3, <1>4, <1>5, <1>6, <1>7, <1>8, <1>9, <1>10 DEF DevNext

\* What was typed stands: rendering the page's own address, a keystroke or two
\* late, does not undo the keystrokes since (useAddressNavigation).
THEOREM TypedStays == DevSpec => []KeystrokesStay
<1>1. DevInit => DevInv
  BY DevInvInit
<1>2. DevInv /\ [DevNext]_devVars => DevInv'
  BY DevInvStep
<1>3. DevInv => KeystrokesStay
  BY DEF DevInv
<1> QED BY <1>1, <1>2, <1>3, PTL DEF DevSpec

\* sortDevices and the pages only put in order and cut what the filters left.
LEMMA ShownFits ==
    ASSUME DevShapes
    PROVE  Shown \in Seq({d \in Base : MatchesFilter(d, address.filter)})
<1> DEFINE fits == {d \in Base : MatchesFilter(d, address.filter)}
           R == {p \in Id \X Id : Before(p[1], p[2])}
           n == Cardinality(fits)
<1>1. fits \in SUBSET Id
  BY DEF Base, DevShapes
<1>2. IsFiniteSet(fits)
  BY <1>1, TableSizes, FS_Subset
<1>3. n \in Nat
  BY <1>2, FS_CardinalityType
<1>4. \A c, d \in fits : <<c, d>> \in R <=> Before(c, d)
  BY <1>1
<1>5. OrdersStrictly(R, fits)
  <2>1. \A d \in fits : Severity(d) \in Nat /\ d \in Nat
    BY <1>1, TableSizes DEF Severity
  <2>2. \A c, d \in fits : c # d => Before(c, d) \/ Before(d, c)
    BY <2>1 DEF Before
  <2>3. \A c, d, e \in fits : Before(c, d) /\ Before(d, e) => Before(c, e)
    BY <2>1 DEF Before
  <2>4. \A d \in fits : ~Before(d, d)
    BY <2>1 DEF Before
  <2> HIDE DEF fits, R
  <2> QED BY <1>4, <2>2, <2>3, <2>4 DEF OrdersStrictly
<1> HIDE DEF R
<1>6. PICK s \in [1 .. n -> fits] : Ascends(s, n, R)
  BY <1>2, <1>5, SortedExists
<1>7. \A i, j \in 1 .. n : i < j => Before(s[i], s[j])
  BY <1>4, <1>6 DEF Ascends
<1>8. Shown = CHOOSE rows \in [1 .. n -> fits] : \A i, j \in 1 .. n : i < j => Before(rows[i], rows[j])
  BY DEF Shown
<1> HIDE DEF fits, n
<1>9. Shown \in [1 .. n -> fits]
  BY <1>7, <1>8
<1> QED BY <1>3, <1>9 DEF fits

LEMMA SubSeqOf ==
    ASSUME NEW S, NEW s \in Seq(S), NEW m \in Nat \ {0}, NEW n \in Nat, n <= Len(s)
    PROVE  SubSeq(s, m, n) \in Seq(S)
<1>1. Len(s) \in Nat /\ \A i \in 1 .. Len(s) : s[i] \in S
  BY LenProperties, ElementOfSeq
<1>2. \A i \in m .. n : s[i] \in S
  BY <1>1
<1> QED BY <1>2, SubSeqProperties

LEMMA RowsFit ==
    ASSUME DevShapes
    PROVE  Rows \in Seq({d \in Base : MatchesFilter(d, address.filter)})
<1> DEFINE fits == {d \in Base : MatchesFilter(d, address.filter)}
           first == (CurrentPage - 1) * Size + 1
           last == CurrentPage * Size
           most == IF last < Len(Shown) THEN last ELSE Len(Shown)
           items == SubSeq(Shown, first, most)
           end == IF Len(items) < RenderCap THEN Len(items) ELSE RenderCap
<1>1. Shown \in Seq(fits)
  BY ShownFits
<1> HIDE DEF fits
<1>2. Len(Shown) \in Nat
  BY <1>1, LenProperties
<1>3. Size \in Nat \ {0}
  BY TableSizes DEF Size
<1>4. PageCount \in Nat \ {0}
  <2>1. (Len(Shown) + Size - 1) \div Size \in Nat
    <3>1. ASSUME NEW a \in Nat, NEW b \in Nat \ {0} PROVE (a + b - 1) \div b \in Nat
      OBVIOUS
    <3> QED BY <1>2, <1>3, <3>1
  <2> QED BY <2>1 DEF PageCount
<1>5. CurrentPage \in Nat \ {0}
  BY <1>4 DEF CurrentPage, DevShapes
<1>6. first \in Nat \ {0} /\ last \in Nat
  <2>1. ASSUME NEW a \in Nat \ {0}, NEW b \in Nat \ {0} PROVE (a - 1) * b + 1 \in Nat \ {0} /\ a * b \in Nat
    OBVIOUS
  <2> QED BY <1>3, <1>5, <2>1
<1> HIDE DEF first, last
<1>7. most \in Nat /\ most <= Len(Shown)
  BY <1>2, <1>6
<1> HIDE DEF most
<1>8. items \in Seq(fits)
  BY <1>1, <1>6, <1>7, SubSeqOf
<1>9. Len(items) \in Nat
  BY <1>8, LenProperties
<1>10. end \in Nat /\ end <= Len(items)
  <2>1. RenderCap \in Nat
    BY TableSizes
  <2> HIDE DEF items
  <2> QED BY <1>9, <2>1
<1>11. SubSeq(items, 1, end) \in Seq(fits)
  BY <1>8, <1>10, SubSeqOf
<1>12. Rows = SubSeq(items, 1, end)
  BY DEF Rows, items, first, last, most
<1> QED BY <1>11, <1>12 DEF fits

SelectedOfPerson == \A d \in selected' \ selected : address.person # "none" => address.person = "anna" /\ d \in Owned

\* Only what the filters left is ever selected.
LEMMA SelectsShown ==
    ASSUME DevInv, [DevNext]_devVars
    PROVE  selected' \subseteq selected \cup {d \in Base : MatchesFilter(d, address.filter)}
<1> USE DEF navVars, selVars
<1> DEFINE fits == {d \in Base : MatchesFilter(d, address.filter)}
<1>1. Rows \in Seq(fits) /\ Shown \in Seq(fits)
  BY RowsFit, ShownFits DEF DevInv
<1> HIDE DEF fits
<1>3. ToSet(Rows) \subseteq fits /\ ToSet(Shown) \subseteq fits
  <2>1. \A S, s : s \in Seq(S) => ToSet(s) \subseteq S
    BY ElementOfSeq, LenProperties DEF ToSet
  <2> QED BY <1>1, <2>1
<1>4. selected' \subseteq selected \cup fits
  <2>1. CASE \E d \in Id, shift \in BOOLEAN : Toggle(d, shift)
    <3>1. PICK d \in Id, shift \in BOOLEAN : Toggle(d, shift)
      BY <2>1
    <3> DEFINE Index(e) == CHOOSE i \in 1 .. Len(Rows) : Rows[i] = e
               span == LET i == Index(anchor)  j == Index(d)
                       IN  {Rows[k] : k \in (IF i < j THEN i .. j ELSE j .. i)}
               range == IF shift /\ anchor \in ToSet(Rows) THEN span ELSE {d}
    <3>2. d \in ToSet(Rows) /\ selected' \subseteq selected \cup range
      BY <3>1 DEF Toggle, Select
    <3>3. range \subseteq fits
      <4>1. CASE ~(shift /\ anchor \in ToSet(Rows))
        BY <1>3, <3>2, <4>1
      <4>2. CASE shift /\ anchor \in ToSet(Rows)
        <5>1. Len(Rows) \in Nat /\ DOMAIN Rows = 1 .. Len(Rows) /\ \A i \in 1 .. Len(Rows) : Rows[i] \in fits
          BY <1>1, LenProperties, ElementOfSeq
        <5>2. \A e \in ToSet(Rows) : \E i \in 1 .. Len(Rows) : Rows[i] = e
          BY <5>1 DEF ToSet
        <5>3. Index(anchor) \in 1 .. Len(Rows) /\ Index(d) \in 1 .. Len(Rows)
          BY <3>2, <4>2, <5>2
        <5> HIDE DEF Index
        <5>4. \A k \in (IF Index(anchor) < Index(d) THEN Index(anchor) .. Index(d) ELSE Index(d) .. Index(anchor)) :
                 k \in 1 .. Len(Rows)
          BY <5>1, <5>3
        <5>5. span \subseteq fits
          BY <5>1, <5>4
        <5> QED BY <4>2, <5>5
      <4> QED BY <4>1, <4>2
    <3> QED BY <3>2, <3>3
  <2>2. CASE TogglePage \/ SelectHits \/ ClearSelection
    BY <1>3, <2>2 DEF TogglePage, SelectHits, ClearSelection, Select
  <2>3. CASE selected' = selected
    BY <2>3
  <2> QED BY <2>1, <2>2, <2>3
          DEF DevNext, devVars, Render, FollowLink, GoBack, Type, ChooseFilter, ChoosePerson, SortBy, ResetFilters,
              SaveView, ApplyView, RemoveView, SetPage, SetPageSize, DevicesLoad, DevicesFail, PersonsLoad,
              DeviceChanges, FleetIs
<1> QED BY <1>4 DEF fits

LEMMA SelectionStep == ASSUME DevInv, [DevNext]_devVars PROVE SelectedOfPerson
<1>1. \A d \in Base : address.person # "none" => address.person = "anna" /\ d \in Owned
  BY DEF Base, OfPerson, PersonFilter
<1> QED BY <1>1, SelectsShown DEF SelectedOfPerson

\* A person in the address narrows every selection, also while the persons
\* are not there: no click, no Shift click, no "Alle Treffer" selects a device
\* of somebody else for a bulk action (DevicesPage).
THEOREM SelectionNarrowed == DevSpec => SelectionOfPerson
<1>1. DevInit => DevInv
  BY DevInvInit
<1>2. DevInv /\ [DevNext]_devVars => DevInv'
  BY DevInvStep
<1>3. DevInv /\ [DevNext]_devVars => [SelectedOfPerson]_devVars
  BY SelectionStep
<1> QED BY <1>1, <1>2, <1>3, PTL DEF DevSpec, SelectionOfPerson, SelectedOfPerson

-----------------------------------------------------------------------------
(* The patches page: what is confirmed is what runs.                       *)

QuestionRow == [kind : {"none", "install", "queue"}, targets : Seq(PDev)]
RunRow == [kind : {"none", "scan", "install", "queue"}, queue : Seq(PDev),
           sent : SUBSET PDev, ok : SUBSET PDev, failed : SUBSET PDev]
PatchInv == installQuestion \in QuestionRow /\ run \in RunRow /\ InstallsAsNamed

LEMMA InTurnSeq == ASSUME NEW S \in SUBSET PDev PROVE InTurn(S) \in Seq(PDev)
<1> DEFINE R == {p \in PDev \X PDev : p[1] < p[2]}
           n == Cardinality(S)
<1>1. PatchDevices \in Nat /\ PDev \subseteq Nat
  BY PatchAssumption DEF PDev
<1>2. IsFiniteSet(S)
  <2>1. 1 \in Int /\ PatchDevices \in Int
    BY <1>1
  <2>2. IsFiniteSet(1 .. PatchDevices)
    BY <2>1, FS_Interval
  <2> QED BY <2>2, FS_Subset DEF PDev
<1>3. n \in Nat
  BY <1>2, FS_CardinalityType
<1>4. \A c, d \in S : <<c, d>> \in R <=> c < d
  OBVIOUS
<1>5. OrdersStrictly(R, S)
  <2>1. \A d \in S : d \in Nat
    BY <1>1
  <2> HIDE DEF R
  <2> QED BY <1>4, <2>1 DEF OrdersStrictly
<1> HIDE DEF R
<1>6. PICK s \in [1 .. n -> S] : Ascends(s, n, R)
  BY <1>2, <1>5, SortedExists
<1>7. \A i, j \in 1 .. n : i < j => s[i] < s[j]
  BY <1>4, <1>6 DEF Ascends
<1>8. InTurn(S) \in [1 .. n -> S]
  BY <1>7 DEF InTurn
<1> HIDE DEF n
<1> QED BY <1>3, <1>8

LEMMA HeadAndTailSet ==
    ASSUME NEW S, NEW s \in Seq(S), s # <<>>
    PROVE  ToSet(s) = {Head(s)} \cup ToSet(Tail(s))
<1>1. Len(s) \in Nat \ {0} /\ DOMAIN s = 1 .. Len(s)
  BY LenProperties, EmptySeq
<1>2. /\ Tail(s) \in Seq(S) /\ Len(Tail(s)) = Len(s) - 1 /\ \A i \in 1 .. Len(Tail(s)) : Tail(s)[i] = s[i + 1]
      /\ Head(s) = s[1]
  BY HeadTailProperties
<1>3. DOMAIN Tail(s) = 1 .. Len(s) - 1
  BY <1>2, LenProperties
<1>4. ASSUME NEW i \in 1 .. Len(s) PROVE s[i] \in {Head(s)} \cup ToSet(Tail(s))
  <2>1. CASE i = 1
    BY <1>2, <2>1
  <2>2. CASE i # 1
    <3>1. i - 1 \in 1 .. Len(s) - 1 /\ i - 1 + 1 = i
      BY <1>1, <2>2
    <3>2. Tail(s)[i - 1] = s[i]
      BY <1>2, <3>1
    <3> QED BY <1>3, <3>1, <3>2 DEF ToSet
  <2> QED BY <2>1, <2>2
<1>5. ToSet(s) = {s[i] : i \in 1 .. Len(s)} /\ ToSet(Tail(s)) = {Tail(s)[i] : i \in 1 .. Len(s) - 1}
  BY <1>1, <1>3 DEF ToSet
<1>6. \A i \in 1 .. Len(s) - 1 : Tail(s)[i] = s[i + 1] /\ i + 1 \in 1 .. Len(s)
  BY <1>1, <1>2
<1>7. ToSet(Tail(s)) \subseteq ToSet(s) /\ Head(s) \in ToSet(s)
  BY <1>1, <1>2, <1>5, <1>6
<1>8. ToSet(s) \subseteq {Head(s)} \cup ToSet(Tail(s))
  BY <1>4, <1>5
<1> QED BY <1>7, <1>8

LEMMA TargetsSeq ==
    ASSUME NEW S
    PROVE  /\ S \subseteq PDev => ScanTargets(S) \in Seq(PDev) /\ InstallTargets(S) \in Seq(PDev) /\ QueueTargets(S) \in Seq(PDev)
           /\ ChosenDevices \subseteq PDev
<1>1. ASSUME S \subseteq PDev
      PROVE  ScanTargets(S) \in Seq(PDev) /\ InstallTargets(S) \in Seq(PDev) /\ QueueTargets(S) \in Seq(PDev)
  <2>1. \A T \in SUBSET PDev : InTurn(T) \in Seq(PDev)
    BY InTurnSeq
  <2>2. /\ {d \in S : Reachable(d)} \in SUBSET PDev
        /\ {d \in S : SecurityOf(d) > 0 /\ Reachable(d)} \in SUBSET PDev
        /\ {d \in S : HasPending(d)} \in SUBSET PDev
    BY <1>1
  <2> QED BY <2>1, <2>2 DEF ScanTargets, InstallTargets, QueueTargets
<1>2. ChosenDevices \subseteq PDev
  BY DEF ChosenDevices, PatchId
<1> QED BY <1>1, <1>2

LEMMA PatchInvInit == PatchInit => PatchInv
<1> SUFFICES ASSUME PatchInit PROVE PatchInv
  OBVIOUS
<1>1. <<>> \in Seq(PDev)
  OBVIOUS
<1>2. installQuestion \in QuestionRow /\ run \in RunRow
  BY <1>1 DEF PatchInit, Nothing, NoRun, QuestionRow, RunRow
<1> QED BY <1>2 DEF PatchInv, PatchInit, NoRun, InstallsAsNamed

LEMMA PatchInvStep == PatchInv /\ [PatchNext]_patchVars => PatchInv'
<1> SUFFICES ASSUME PatchInv, [PatchNext]_patchVars PROVE PatchInv'
  OBVIOUS
<1>0. installQuestion \in QuestionRow /\ run \in RunRow /\ InstallsAsNamed
  BY DEF PatchInv
<1>1. CASE UNCHANGED <<installQuestion, run, granted>>
  BY <1>0, <1>1 DEF PatchInv, InstallsAsNamed
<1>2. CASE AskInstall \/ AskQueue
  <2>1. PICK kind \in {"install", "queue"}, targets \in {InstallTargets(ChosenDevices), QueueTargets(ChosenDevices)} :
           Ask(kind, targets)
    BY <1>2 DEF AskInstall, AskQueue
  <2>2. targets \in Seq(PDev)
    BY <2>1, TargetsSeq
  <2>3. installQuestion' \in QuestionRow /\ UNCHANGED <<run, granted>>
    BY <2>1, <2>2 DEF Ask, QuestionRow
  <2> QED BY <1>0, <2>3 DEF PatchInv, InstallsAsNamed
<1>3. CASE Accept
  <2>1. installQuestion' = Nothing /\ granted' = ToSet(installQuestion.targets)
        /\ run' = [NoRun EXCEPT !.kind = installQuestion.kind, !.queue = installQuestion.targets]
    BY <1>3 DEF Accept, StartRun, ConfirmedTargets
  <2>2. installQuestion.kind \in {"none", "install", "queue"} /\ installQuestion.targets \in Seq(PDev)
    BY <1>0 DEF QuestionRow
  <2>3. run' = [kind |-> installQuestion.kind, queue |-> installQuestion.targets, sent |-> {}, ok |-> {}, failed |-> {}]
    BY <2>1 DEF NoRun
  <2>4. run' \in RunRow
    BY <2>2, <2>3 DEF RunRow
  <2>5. installQuestion' \in QuestionRow
    BY <2>1 DEF QuestionRow, Nothing
  <2>6. InstallsAsNamed'
    <3>1. run'.queue = installQuestion.targets /\ run'.sent = {} /\ run'.ok = {} /\ run'.failed = {}
      BY <2>3
    <3> QED BY <2>1, <3>1 DEF InstallsAsNamed
  <2> QED BY <2>4, <2>5, <2>6 DEF PatchInv
<1>4. CASE Decline
  <2>1. installQuestion' = Nothing /\ UNCHANGED <<run, granted>>
    BY <1>4 DEF Decline
  <2>2. installQuestion' \in QuestionRow
    BY <2>1 DEF QuestionRow, Nothing
  <2> QED BY <1>0, <2>1, <2>2 DEF PatchInv, InstallsAsNamed
<1>5. CASE \E S \in SUBSET PDev : ScanNow(S)
  <2>1. PICK S \in SUBSET PDev : ScanNow(S)
    BY <1>5
  <2>2. run' = [kind |-> "scan", queue |-> ScanTargets(S), sent |-> {}, ok |-> {}, failed |-> {}]
        /\ UNCHANGED <<installQuestion, granted>>
    BY <2>1 DEF ScanNow, StartRun, NoRun
  <2>3. ScanTargets(S) \in Seq(PDev)
    BY TargetsSeq
  <2>4. run' \in RunRow /\ run'.kind = "scan"
    BY <2>2, <2>3 DEF RunRow
  <2> QED BY <1>0, <2>2, <2>4 DEF PatchInv, InstallsAsNamed
<1>6. CASE SendOne
  <2>1. run.queue # <<>> /\ UNCHANGED <<installQuestion, granted>>
        /\ run' = [run EXCEPT !.queue = Tail(@), !.sent = @ \cup {Head(run.queue)}]
    BY <1>6 DEF SendOne, RunStep
  <2>2. run.queue \in Seq(PDev)
    BY <1>0 DEF RunRow
  <2>3. Tail(run.queue) \in Seq(PDev) /\ Head(run.queue) \in PDev
    BY <2>1, <2>2, HeadTailProperties
  <2>4. ToSet(run.queue) = {Head(run.queue)} \cup ToSet(Tail(run.queue))
    BY <2>1, <2>2, HeadAndTailSet
  <2>5. run' \in RunRow
    BY <1>0, <2>1, <2>3 DEF RunRow
  <2>6. /\ run'.kind = run.kind /\ run'.queue = Tail(run.queue) /\ run'.ok = run.ok /\ run'.failed = run.failed
        /\ run'.sent = run.sent \cup {Head(run.queue)}
    BY <1>0, <2>1 DEF RunRow
  <2>7. InstallsAsNamed'
    BY <1>0, <2>1, <2>4, <2>6 DEF InstallsAsNamed
  <2> QED BY <1>0, <2>1, <2>5, <2>7 DEF PatchInv
<1>7. CASE \E d \in PDev : OneSettles(d)
  <2>1. PICK d \in PDev : OneSettles(d)
    BY <1>7
  <2>2. d \in run.sent /\ UNCHANGED <<installQuestion, granted>>
        /\ \/ run' = [run EXCEPT !.sent = @ \ {d}, !.ok = @ \cup {d}]
           \/ run' = [run EXCEPT !.sent = @ \ {d}, !.failed = @ \cup {d}]
    BY <2>1 DEF OneSettles, RunStep
  <2>3. run.sent \in SUBSET PDev /\ run.ok \in SUBSET PDev /\ run.failed \in SUBSET PDev
    BY <1>0 DEF RunRow
  <2>4. CASE run' = [run EXCEPT !.sent = @ \ {d}, !.ok = @ \cup {d}]
    <3>1. run' \in RunRow
      BY <1>0, <2>3, <2>4 DEF RunRow
    <3>2. /\ run'.kind = run.kind /\ run'.queue = run.queue /\ run'.failed = run.failed
          /\ run'.sent = run.sent \ {d} /\ run'.ok = run.ok \cup {d}
      BY <1>0, <2>4 DEF RunRow
    <3>3. run'.sent \cup run'.ok \cup run'.failed = run.sent \cup run.ok \cup run.failed
      BY <2>2, <3>2
    <3>4. InstallsAsNamed'
      BY <1>0, <2>2, <3>2, <3>3 DEF InstallsAsNamed
    <3> QED BY <1>0, <2>2, <3>1, <3>4 DEF PatchInv
  <2>5. CASE run' = [run EXCEPT !.sent = @ \ {d}, !.failed = @ \cup {d}]
    <3>1. run' \in RunRow
      BY <1>0, <2>3, <2>5 DEF RunRow
    <3>2. /\ run'.kind = run.kind /\ run'.queue = run.queue /\ run'.ok = run.ok
          /\ run'.sent = run.sent \ {d} /\ run'.failed = run.failed \cup {d}
      BY <1>0, <2>5 DEF RunRow
    <3>3. run'.sent \cup run'.ok \cup run'.failed = run.sent \cup run.ok \cup run.failed
      BY <2>2, <3>2
    <3>4. InstallsAsNamed'
      BY <1>0, <2>2, <3>2, <3>3 DEF InstallsAsNamed
    <3> QED BY <1>0, <2>2, <3>1, <3>4 DEF PatchInv
  <2> QED BY <2>2, <2>4, <2>5
<1>8. CASE RunOver
  <2>1. run' = NoRun /\ UNCHANGED <<installQuestion, granted>>
    BY <1>8 DEF RunOver, RunStep
  <2>2. run' \in RunRow /\ run'.kind = "none"
    BY <2>1 DEF RunRow, NoRun
  <2> QED BY <1>0, <2>1, <2>2 DEF PatchInv, InstallsAsNamed
<1>9. CASE \/ ResetScope \/ TickPage \/ ChooseHits \/ ClearChosen
           \/ \E f \in StateFilter : FilterState(f)
           \/ \E f \in OsCategory : FilterOs(f)
           \/ \E f \in ConnFilter : FilterConn(f)
           \/ \E k \in {"name", "pending", "security"} : SortPatches(k)
  BY <1>1, <1>9 DEF ResetScope, TickPage, ChooseHits, ClearChosen, FilterState, FilterOs, FilterConn, SortPatches, ScopeIs, ChooseIs
<1>10. CASE \E d \in PDev : TickRow(d) \/ FindingsCome(d) \/ DeviceRefreshes(d)
  BY <1>1, <1>10 DEF TickRow, ChooseIs, FindingsCome, DeviceRefreshes, BoardIs
<1>11. CASE \E st \in {"error", "success"} : DeviceListComes(st) \/ SummaryComes(st)
  BY <1>1, <1>11 DEF DeviceListComes, SummaryComes, BoardIs
<1>12. CASE UNCHANGED patchVars
  BY <1>1, <1>12 DEF patchVars
<1> QED BY <1>2, <1>3, <1>4, <1>5, <1>6, <1>7, <1>8, <1>9, <1>10, <1>11, <1>12 DEF PatchNext

\* The devices that an installation or a queued installation still has in
\* front of it, has under way and has behind it are those that the accepted
\* confirmation named, whatever was refreshed behind the dialog.
THEOREM InstallsOnThese == PatchSpec => []InstallsAsNamed
<1>1. PatchInit => PatchInv
  BY PatchInvInit
<1>2. PatchInv /\ [PatchNext]_patchVars => PatchInv'
  BY PatchInvStep
<1>3. PatchInv => InstallsAsNamed
  BY DEF PatchInv
<1> QED BY <1>1, <1>2, <1>3, PTL DEF PatchSpec

-----------------------------------------------------------------------------
(* The figures above the list, as counts.                                  *)

BoardTypes ==
    board \in [devices : PatchLoad, summary : PatchLoad, list : [PDev -> BoardDevice],
               open : [PDev -> OpenRow \cup {NoEntry}]]

LEMMA FleetFinite == IsFiniteSet(PDev) /\ \A S \in SUBSET PDev : IsFiniteSet(S) /\ Cardinality(S) \in Nat
<1>1. 1 \in Int /\ PatchDevices \in Int
  BY PatchAssumption
<1>2. IsFiniteSet(PDev)
  BY <1>1, FS_Interval DEF PDev
<1> QED BY <1>2, FS_Subset, FS_CardinalityType

\* Where each has one of four systems, the counts of the four add up.
LEMMA FourWays ==
    ASSUME NEW X, IsFiniteSet(X), NEW A, NEW B, NEW C, NEW D, X = A \cup B \cup C \cup D,
           A \cap B = {}, A \cap C = {}, A \cap D = {}, B \cap C = {}, B \cap D = {}, C \cap D = {}
    PROVE  Cardinality(X) = Cardinality(A) + Cardinality(B) + Cardinality(C) + Cardinality(D)
<1>1. IsFiniteSet(A) /\ IsFiniteSet(B) /\ IsFiniteSet(C) /\ IsFiniteSet(D)
  BY FS_Subset
<1>2. /\ Cardinality(A) \in Nat /\ Cardinality(B) \in Nat /\ Cardinality(C) \in Nat /\ Cardinality(D) \in Nat
      /\ Cardinality({}) = 0
  BY <1>1, FS_CardinalityType, FS_EmptySet
<1>3. IsFiniteSet(A \cup B) /\ Cardinality(A \cup B) = Cardinality(A) + Cardinality(B)
  <2>1. IsFiniteSet(A \cup B) /\ Cardinality(A \cup B) = Cardinality(A) + Cardinality(B) - Cardinality(A \cap B)
    BY <1>1, FS_Union
  <2>2. Cardinality(A \cap B) = 0
    <3>1. A \cap B = {}
      OBVIOUS
    <3> QED BY <1>2, <3>1
  <2> QED BY <1>2, <2>1, <2>2
<1>4. IsFiniteSet((A \cup B) \cup C) /\ Cardinality((A \cup B) \cup C) = Cardinality(A) + Cardinality(B) + Cardinality(C)
  <2>1. /\ IsFiniteSet((A \cup B) \cup C)
        /\ Cardinality((A \cup B) \cup C) = Cardinality(A \cup B) + Cardinality(C) - Cardinality((A \cup B) \cap C)
    BY <1>1, <1>3, FS_Union
  <2>2. Cardinality((A \cup B) \cap C) = 0
    <3>1. (A \cup B) \cap C = {}
      OBVIOUS
    <3> QED BY <1>2, <3>1
  <2> QED BY <1>2, <1>3, <2>1, <2>2
<1>5. Cardinality(((A \cup B) \cup C) \cup D) = Cardinality((A \cup B) \cup C) + Cardinality(D) - Cardinality(((A \cup B) \cup C) \cap D)
  BY <1>1, <1>4, FS_Union
<1>6. Cardinality(((A \cup B) \cup C) \cap D) = 0
  <2>1. ((A \cup B) \cup C) \cap D = {}
    OBVIOUS
  <2> QED BY <1>2, <2>1
<1>7. X = ((A \cup B) \cup C) \cup D
  OBVIOUS
<1> QED BY <1>2, <1>4, <1>5, <1>6, <1>7

OfSystem(T, c) == {d \in T : CategoryOf(d) = c}

LEMMA DevicesBySystem ==
    ASSUME NEW T \in SUBSET PDev
    PROVE  Cardinality(T) = Cardinality(OfSystem(T, "win_pc")) + Cardinality(OfSystem(T, "win_server"))
                            + Cardinality(OfSystem(T, "mac")) + Cardinality(OfSystem(T, "linux"))
<1>1. \A d \in T : CategoryOf(d) \in {"win_pc", "win_server", "mac", "linux"}
  BY DEF CategoryOf
<1>2. T = OfSystem(T, "win_pc") \cup OfSystem(T, "win_server") \cup OfSystem(T, "mac") \cup OfSystem(T, "linux")
  BY <1>1 DEF OfSystem
<1>3. \A a, b \in {"win_pc", "win_server", "mac", "linux"} : a # b => OfSystem(T, a) \cap OfSystem(T, b) = {}
  BY DEF OfSystem
<1>4. /\ OfSystem(T, "win_pc") \cap OfSystem(T, "win_server") = {} /\ OfSystem(T, "win_pc") \cap OfSystem(T, "mac") = {}
      /\ OfSystem(T, "win_pc") \cap OfSystem(T, "linux") = {} /\ OfSystem(T, "win_server") \cap OfSystem(T, "mac") = {}
      /\ OfSystem(T, "win_server") \cap OfSystem(T, "linux") = {} /\ OfSystem(T, "mac") \cap OfSystem(T, "linux") = {}
  BY <1>3
<1>5. IsFiniteSet(T)
  BY FleetFinite
<1> QED BY <1>2, <1>4, <1>5, FourWays

LEMMA UpdatesBySystem ==
    ASSUME NEW T \in SUBSET PDev
    PROVE  Cardinality(OpenUpdates(T)) =
               Cardinality(OpenUpdates(OfSystem(T, "win_pc"))) + Cardinality(OpenUpdates(OfSystem(T, "win_server")))
               + Cardinality(OpenUpdates(OfSystem(T, "mac"))) + Cardinality(OpenUpdates(OfSystem(T, "linux")))
<1> DEFINE U(c) == OpenUpdates(OfSystem(T, c))
<1>1. \A d \in T : CategoryOf(d) \in {"win_pc", "win_server", "mac", "linux"}
  BY DEF CategoryOf
<1>2. \A c : U(c) = {x \in OpenUpdates(T) : CategoryOf(x[1]) = c}
  BY DEF OpenUpdates, OfSystem
<1>3. \A x \in OpenUpdates(T) : CategoryOf(x[1]) \in {"win_pc", "win_server", "mac", "linux"}
  BY <1>1 DEF OpenUpdates
<1> HIDE DEF U
<1>4. OpenUpdates(T) = U("win_pc") \cup U("win_server") \cup U("mac") \cup U("linux")
  BY <1>2, <1>3
<1>5. \A a, b \in {"win_pc", "win_server", "mac", "linux"} : a # b => U(a) \cap U(b) = {}
  BY <1>2
<1>6. /\ U("win_pc") \cap U("win_server") = {} /\ U("win_pc") \cap U("mac") = {} /\ U("win_pc") \cap U("linux") = {}
      /\ U("win_server") \cap U("mac") = {} /\ U("win_server") \cap U("linux") = {} /\ U("mac") \cap U("linux") = {}
  BY <1>5
<1>7. IsFiniteSet(OpenUpdates(T))
  <2>1. IsFiniteSet(T) /\ IsFiniteSet(1 .. 2)
    <3>1. 1 \in Int /\ 2 \in Int
      OBVIOUS
    <3> QED BY <3>1, FleetFinite, FS_Interval
  <2>2. IsFiniteSet(T \X (1 .. 2))
    BY <2>1, FS_Product
  <2>3. OpenUpdates(T) \in SUBSET (T \X (1 .. 2))
    BY DEF OpenUpdates
  <2> QED BY <2>2, <2>3, FS_Subset
<1>8. Cardinality(OpenUpdates(T)) =
         Cardinality(U("win_pc")) + Cardinality(U("win_server")) + Cardinality(U("mac")) + Cardinality(U("linux"))
  BY <1>4, <1>6, <1>7, FourWays
<1> QED BY <1>8 DEF U

LEMMA CardsAddUp ==
    ASSUME NEW f \in {"devices", "pending", "security", "stale", "current"}
    PROVE  Stats(PatchId)[f] = CategoryStats["win_pc"][f] + CategoryStats["win_server"][f] + CategoryStats["mac"][f]
                               + CategoryStats["linux"][f]
<1> DEFINE In(c) == OfSystem(PatchId, c)
<1>1. \A c \in OsCategory : CategoryStats[c] = Stats(In(c))
  BY DEF CategoryStats, OfSystem
<1>2. PatchId \in SUBSET PDev /\ {"win_pc", "win_server", "mac", "linux"} = OsCategory
  BY DEF PatchId, OsCategory
<1>3. CASE f = "devices"
  <2>1. \A S : Stats(S)[f] = Cardinality(S)
    BY <1>3 DEF Stats
  <2> QED BY <1>1, <1>2, <2>1, DevicesBySystem
<1>4. CASE f = "pending"
  <2>1. \A S : Stats(S)[f] = Cardinality(OpenUpdates(S))
    BY <1>4 DEF Stats
  <2> QED BY <1>1, <1>2, <2>1, UpdatesBySystem
<1>5. CASE f = "security"
  <2> DEFINE T == {d \in PatchId : SecurityOf(d) > 0}
  <2>1. Stats(PatchId)[f] = Cardinality(T) /\ T \in SUBSET PDev
    BY <1>2, <1>5 DEF Stats
  <2>2. \A c : Stats(In(c))[f] = Cardinality(OfSystem(T, c))
    <3>1. \A c : {d \in In(c) : SecurityOf(d) > 0} = OfSystem(T, c)
      BY DEF OfSystem
    <3> QED BY <1>5, <3>1 DEF Stats
  <2> QED BY <1>1, <1>2, <2>1, <2>2, DevicesBySystem
<1>6. CASE f = "stale"
  <2> DEFINE T == {d \in PatchId : ScanStale(d)}
  <2>1. Stats(PatchId)[f] = Cardinality(T) /\ T \in SUBSET PDev
    BY <1>2, <1>6 DEF Stats
  <2>2. \A c : Stats(In(c))[f] = Cardinality(OfSystem(T, c))
    <3>1. \A c : {d \in In(c) : ScanStale(d)} = OfSystem(T, c)
      BY DEF OfSystem
    <3> QED BY <1>6, <3>1 DEF Stats
  <2> QED BY <1>1, <1>2, <2>1, <2>2, DevicesBySystem
<1>7. CASE f = "current"
  <2> DEFINE T == {d \in PatchId : IsCurrent(d)}
  <2>1. Stats(PatchId)[f] = Cardinality(T) /\ T \in SUBSET PDev
    BY <1>2, <1>7 DEF Stats
  <2>2. \A c : Stats(In(c))[f] = Cardinality(OfSystem(T, c))
    <3>1. \A c : {d \in In(c) : IsCurrent(d)} = OfSystem(T, c)
      BY DEF OfSystem
    <3> QED BY <1>7, <3>1 DEF Stats
  <2> QED BY <1>1, <1>2, <2>1, <2>2, DevicesBySystem
<1> QED BY <1>3, <1>4, <1>5, <1>6, <1>7

\* Rounded down, only the whole is 100 %.
LEMMA WholeIsHundred ==
    ASSUME NEW n \in Nat \ {0}, NEW c \in 0 .. n
    PROVE  (c * 100) \div n = 100 <=> c = n
<1> DEFINE q == (c * 100) \div n
<1>1. q \in Nat /\ q * n <= c * 100 /\ c * 100 < (q + 1) * n
  OBVIOUS
<1>2. q = 100 => c = n
  <2>1. q = 100 => 100 * n <= c * 100
    BY <1>1
  <2> HIDE DEF q
  <2> QED BY <2>1
<1>3. c = n => q = 100
  OBVIOUS
<1> QED BY <1>2, <1>3

LEMMA CurrentIsKnown ==
    ASSUME BoardTypes, board.summary = "success", NEW d \in PDev
    PROVE  IsCurrent(d) <=> board.open[d] = NoEntry /\ ~NeverScanned(d)
<1>1. PatchEntry(d) = board.open[d] /\ board.open[d] \in OpenRow \cup {NoEntry}
  BY DEF PatchEntry, BoardTypes
<1>2. CASE board.open[d] = NoEntry
  <2>1. board.open[d].pending = 0
    BY <1>2 DEF NoEntry
  <2> QED BY <1>1, <1>2, <2>1 DEF IsCurrent, PendingOf, NotKnown
<1>3. CASE board.open[d] # NoEntry
  <2>1. board.open[d].pending \in 1 .. 2
    BY <1>1, <1>3 DEF OpenRow
  <2> QED BY <1>1, <1>3, <2>1 DEF IsCurrent, PendingOf
<1> QED BY <1>2, <1>3

LEMMA FiguresTrue == BoardTypes => FiguresHonest
<1> SUFFICES ASSUME BoardTypes, FiguresShown PROVE FiguresHonest
  BY DEF FiguresHonest
<1> DEFINE n == Cardinality(PatchId)
           good == {d \in PatchId : IsCurrent(d)}
<1>1. board.devices = "success" /\ board.summary = "success" /\ PatchId # {}
  <2>1. board.devices \in {"pending", "error", "success"} /\ board.summary \in {"pending", "error", "success"}
    BY DEF BoardTypes, PatchLoad
  <2>2. FleetLoad \notin {"error", "pending"} /\ PatchId # {}
    BY DEF FiguresShown, PatchView
  <2>3. "pending" \notin {board.devices, board.summary} /\ "error" \notin {board.devices, board.summary}
    BY <2>2 DEF FleetLoad
  <2> QED BY <2>1, <2>2, <2>3
<1>2. PatchId \in SUBSET PDev /\ good \in SUBSET PatchId
  BY DEF PatchId
<1>3. IsFiniteSet(PatchId) /\ n \in Nat /\ IsFiniteSet(good) /\ Cardinality(good) \in Nat
  BY <1>2, FleetFinite
<1>4. n # 0
  BY <1>1, <1>3, FS_EmptySet
<1>5. Cardinality(good) <= n /\ (Cardinality(good) = n => good = PatchId)
  BY <1>2, <1>3, FS_Subset
<1>6. Stats(PatchId).devices = n /\ Stats(PatchId).current = Cardinality(good)
  BY DEF Stats
<1>7. CurrentPct(Stats(PatchId)) = 100 <=> Cardinality(good) = n
  <2> HIDE DEF n, good
  <2>1. Cardinality(good) \in 0 .. n /\ n \in Nat \ {0}
    BY <1>3, <1>4, <1>5
  <2> QED BY <1>4, <1>6, <2>1, WholeIsHundred DEF CurrentPct
<1>8. Cardinality(good) = n <=> \A d \in PatchId : IsCurrent(d)
  BY <1>5
<1>9. \A d \in PatchId : IsCurrent(d) <=> board.open[d] = NoEntry /\ ~NeverScanned(d)
  BY <1>1, <1>2, CurrentIsKnown
<1>10. CurrentPct(Stats(PatchId)) = 100 <=> \A d \in PatchId : board.open[d] = NoEntry /\ ~NeverScanned(d)
  BY <1>7, <1>8, <1>9
<1> QED BY <1>10, CardsAddUp DEF FiguresHonest

LEMMA BoardInit == PatchInit => BoardTypes
<1> SUFFICES ASSUME PatchInit PROVE BoardTypes
  OBVIOUS
<1> DEFINE ls == [d \in PDev |-> [scan |-> IF d = 1 THEN "never" ELSE "fresh", connected |-> d # 2]]
           op == [d \in PDev |-> IF d = 3 THEN [pending |-> 1, security |-> 1] ELSE NoEntry]
<1>1. ls \in [PDev -> BoardDevice]
  <2>1. \A d \in PDev : [scan |-> IF d = 1 THEN "never" ELSE "fresh", connected |-> d # 2] \in BoardDevice
    BY DEF BoardDevice, Scan
  <2> QED BY <2>1
<1>2. op \in [PDev -> OpenRow \cup {NoEntry}]
  <2>1. [pending |-> 1, security |-> 1] \in OpenRow
    BY DEF OpenRow
  <2> QED BY <2>1
<1>3. board = [devices |-> "pending", summary |-> "pending", list |-> ls, open |-> op]
  BY DEF PatchInit
<1> HIDE DEF ls, op
<1> QED BY <1>1, <1>2, <1>3 DEF BoardTypes, PatchLoad

LEMMA BoardStep == BoardTypes /\ [PatchNext]_patchVars => BoardTypes'
<1> SUFFICES ASSUME BoardTypes, [PatchNext]_patchVars PROVE BoardTypes'
  OBVIOUS
<1>1. CASE UNCHANGED board
  BY <1>1 DEF BoardTypes
<1>2. ASSUME NEW st \in {"error", "success"}, DeviceListComes(st) \/ SummaryComes(st) PROVE BoardTypes'
  BY <1>2 DEF DeviceListComes, SummaryComes, BoardIs, BoardTypes, PatchLoad
<1>3. ASSUME NEW d \in PDev, FindingsCome(d) PROVE BoardTypes'
  BY <1>3 DEF FindingsCome, BoardIs, BoardTypes
<1>4. ASSUME NEW d \in PDev, DeviceRefreshes(d) PROVE BoardTypes'
  <2>1. board.list \in [PDev -> [scan : Scan, connected : BOOLEAN]]
    BY DEF BoardTypes, BoardDevice
  <2>2. CASE BoardIs([board EXCEPT !.list[d].connected = ~@])
    <3>1. [board.list EXCEPT ![d].connected = ~@] \in [PDev -> BoardDevice]
      BY <2>1 DEF BoardDevice
    <3>2. board' = [board EXCEPT !.list = [board.list EXCEPT ![d].connected = ~@]]
      BY <2>2 DEF BoardIs, BoardTypes
    <3> QED BY <3>1, <3>2 DEF BoardTypes
  <2>3. ASSUME NEW v \in Scan, BoardIs([board EXCEPT !.list[d].scan = v]) PROVE BoardTypes'
    <3>1. [board.list EXCEPT ![d].scan = v] \in [PDev -> BoardDevice]
      BY <2>1 DEF BoardDevice
    <3>2. board' = [board EXCEPT !.list = [board.list EXCEPT ![d].scan = v]]
      BY <2>3 DEF BoardIs, BoardTypes
    <3> QED BY <3>1, <3>2 DEF BoardTypes
  <2>4. "fresh" \in Scan /\ "old" \in Scan
    BY DEF Scan
  <2> QED BY <1>4, <2>2, <2>3, <2>4 DEF DeviceRefreshes
<1>5. \/ UNCHANGED board
      \/ \E st \in {"error", "success"} : DeviceListComes(st) \/ SummaryComes(st)
      \/ \E d \in PDev : FindingsCome(d) \/ DeviceRefreshes(d)
  BY DEF PatchNext, patchVars, FilterState, FilterOs, FilterConn, SortPatches, ResetScope, ScopeIs, TickPage, ChooseHits,
         ClearChosen, TickRow, ChooseIs, AskInstall, AskQueue, Ask, Accept, Decline, ScanNow, SendOne, OneSettles,
         RunOver, RunStep
<1> QED BY <1>1, <1>2, <1>3, <1>4, <1>5

\* The figures above the list of patches say what is known: 100 % current only
\* when each device was scanned and has nothing open, and the cards of the
\* systems add up to the figures of the fleet (patchStats, categoryStats).
THEOREM FiguresAreHonest == PatchSpec => []FiguresHonest
<1>1. PatchSpec => []BoardTypes
  BY BoardInit, BoardStep, PTL DEF PatchSpec
<1> QED BY <1>1, FiguresTrue, PTL

-----------------------------------------------------------------------------
(* The automation page: one rule governs a device, here and there.         *)

\* Rules are listed oldest first, each once.
OldestFirst(rules) == \A i, j \in 1 .. Len(rules) : i < j => rules[i].id < rules[j].id
OrderedPlan == {p \in Plan : OldestFirst(p.rules)}
EditRow == [body : Edit, stage : {"sent", "done", "refused"}, n : Nat]
SaveRow == [old : OrderedPlan, window : WindowSetting, stage : {"sent", "done", "refused", "over"},
            answer : OrderedPlan]
AutoShapes ==
    /\ plan \in OrderedPlan /\ made \in [{"rules", "schedules"} -> 0 .. MaxItems] /\ autoMoves \in Nat
    /\ config \in [state : {"pending", "error", "ok"}, data : OrderedPlan]
    /\ configFetch \in [stage : {"none", "asked", "answered"}, answer : OrderedPlan]
    /\ ruleForm \in [draft : Edit, d : Edit] /\ prompt \in Edit
    /\ edits \in SUBSET EditRow /\ saves \in Seq(SaveRow)
\* What the server gives the next rule is above them all.
IdsGiven == \A i \in 1 .. Len(plan.rules) : plan.rules[i].id <= made.rules
AutoInv == AutoShapes /\ IdsGiven

-----------------------------------------------------------------------------
(* The two readings of such a list.                                        *)

LEMMA MostSpecific ==
    ASSUME NEW rules \in Seq(RuleRow), NEW fits \in SUBSET (1 .. Len(rules)), fits # {}
    PROVE  \E i \in fits : \A j \in fits : Specificity(rules[j]) <= Specificity(rules[i])
<1>1. \A i \in fits : Specificity(rules[i]) \in 1 .. 3
  BY DEF Specificity
<1> DEFINE sp(i) == Specificity(rules[i])
<1> HIDE DEF sp
<1>2. \A i \in fits : sp(i) \in 1 .. 3
  BY <1>1 DEF sp
<1>3. CASE \E i \in fits : sp(i) = 3
  BY <1>2, <1>3 DEF sp
<1>4. CASE (\A i \in fits : sp(i) # 3) /\ \E i \in fits : sp(i) = 2
  BY <1>2, <1>4 DEF sp
<1>5. CASE \A i \in fits : sp(i) = 1
  <2>1. PICK i \in fits : TRUE
    OBVIOUS
  <2>2. sp(i) = 1 /\ \A j \in fits : sp(j) <= sp(i)
    BY <1>5
  <2> QED BY <2>1, <2>2 DEF sp
<1> QED BY <1>2, <1>3, <1>4, <1>5

LEMMA ReadingsAgree ==
    ASSUME NEW rules \in Seq(RuleRow), OldestFirst(rules), NEW d
    PROVE  EffectiveRule(rules, d) = ServerRule(rules, d)
<1> DEFINE fits == {i \in DOMAIN rules : Applies(rules[i], d)}
           top == {i \in fits : \A j \in fits : Specificity(rules[j]) <= Specificity(rules[i])}
           k == CHOOSE i \in top : \A j \in top : i <= j
           rowsOf == {r \in ToSet(rules) : Applies(r, d)}
           Beats(r, s) == Specificity(r) > Specificity(s) \/ (Specificity(r) = Specificity(s) /\ r.id <= s.id)
           best == CHOOSE r \in rowsOf : \A s \in rowsOf : Beats(r, s)
<1>1. DOMAIN rules = 1 .. Len(rules) /\ Len(rules) \in Nat /\ \A i \in 1 .. Len(rules) : rules[i] \in RuleRow
  BY LenProperties, ElementOfSeq
<1>2. /\ EffectiveRule(rules, d) = IF fits = {} THEN NoRule ELSE rules[k].id
      /\ ServerRule(rules, d) = IF rowsOf = {} THEN NoRule ELSE best.id
  BY DEF EffectiveRule, ServerRule
<1>3. rowsOf = {rules[i] : i \in fits}
  BY <1>1 DEF ToSet
<1>4. fits \in SUBSET (1 .. Len(rules)) /\ fits \subseteq Nat
  BY <1>1
<1>5. \A i \in fits : Specificity(rules[i]) \in Nat /\ rules[i].id \in Nat
  <2>1. \A i \in fits : rules[i] \in RuleRow
    BY <1>1, <1>4
  <2> QED BY <2>1 DEF Specificity, RuleRow
<1> HIDE DEF fits
<1>6. CASE fits = {}
  BY <1>2, <1>3, <1>6
<1>7. CASE fits # {}
  <2>1. top # {} /\ top \subseteq Nat
    BY <1>4, <1>7, MostSpecific
  <2>2. k \in top /\ \A j \in top : k <= j
    BY <2>1, LeastOf
  <2> HIDE DEF k
  <2>3. k \in fits /\ \A j \in fits : Specificity(rules[j]) <= Specificity(rules[k])
    BY <2>2
  <2>4. ASSUME NEW j \in fits PROVE Beats(rules[k], rules[j])
    <3>1. CASE Specificity(rules[j]) < Specificity(rules[k])
      BY <3>1, <1>5, <2>3
    <3>2. CASE Specificity(rules[j]) = Specificity(rules[k])
      <4>1. j \in top
        BY <2>3, <3>2
      <4>2. k <= j /\ k \in 1 .. Len(rules) /\ j \in 1 .. Len(rules)
        BY <1>4, <2>2, <2>3, <4>1
      <4>3. rules[k].id <= rules[j].id
        <5>1. CASE k = j
          BY <1>5, <2>3, <5>1
        <5>2. CASE k < j
          <6>1. rules[k].id < rules[j].id
            BY <4>2, <5>2 DEF OldestFirst
          <6> QED BY <1>5, <2>3, <6>1
        <5> QED BY <1>4, <2>3, <4>2, <5>1, <5>2
      <4> QED BY <3>2, <4>3
    <3> QED BY <1>5, <2>3, <3>1, <3>2
  <2>5. rules[k] \in rowsOf /\ \A s \in rowsOf : Beats(rules[k], s)
    BY <1>3, <2>3, <2>4
  <2>6. best \in rowsOf /\ \A s \in rowsOf : Beats(best, s)
    BY <2>5
  <2> HIDE DEF best
  <2>7. PICK b \in fits : best = rules[b]
    BY <1>3, <2>6
  <2>8. Beats(rules[k], rules[b]) /\ Beats(rules[b], rules[k])
    BY <2>5, <2>6, <2>7
  <2>9. rules[k].id = rules[b].id
    BY <1>5, <2>3, <2>7, <2>8
  <2> QED BY <1>2, <1>7, <2>5, <2>7, <2>9
<1> QED BY <1>6, <1>7

LEMMA InvSame == AutoInv => SameRule
<1> SUFFICES ASSUME AutoInv, NEW d \in DeviceKind
             PROVE  EffectiveRule(config.data.rules, d) = ServerRule(config.data.rules, d)
  BY DEF SameRule
<1>1. config.data \in OrderedPlan
  BY DEF AutoInv, AutoShapes
<1>2. config.data.rules \in Seq(RuleRow) /\ OldestFirst(config.data.rules)
  BY <1>1 DEF OrderedPlan, Plan
<1> QED BY <1>2, ReadingsAgree

-----------------------------------------------------------------------------
(* Its steps.                                                              *)

LEMMA NoneOrdered == NoConfig \in OrderedPlan /\ NoEdit \in Edit
<1>1. MaxItems \in Nat /\ 1 \in ScriptId
  BY AutoAssumption DEF ScriptId
<1>2. NoConfig \in Plan
  BY DEF NoConfig, Plan, WindowSetting
<1>3. OldestFirst(NoConfig.rules)
  BY DEF NoConfig, OldestFirst
<1>4. NoEdit \in Edit
  BY <1>1 DEF NoEdit, Edit, Scope
<1> QED BY <1>2, <1>3, <1>4 DEF OrderedPlan

LEMMA AutoInvInit == AutoInit => AutoInv
<1> SUFFICES ASSUME AutoInit PROVE AutoInv
  OBVIOUS
<1>1. 1 \in 1 .. MaxItems /\ 1 \in 0 .. MaxItems /\ ScriptsKnown \in ScriptId
  BY AutoAssumption DEF ScriptId
<1>2. PICK off \in BOOLEAN :
         plan = [window |-> [on |-> FALSE, reboot |-> FALSE],
                 rules |-> <<[id |-> 1, scope |-> "all", on |-> TRUE]>>,
                 schedules |-> <<[id |-> 1, script |-> ScriptsKnown, on |-> off]>>]
  BY DEF AutoInit
<1>3. [id |-> 1, scope |-> "all", on |-> TRUE] \in RuleRow /\ [id |-> 1, script |-> ScriptsKnown, on |-> off] \in ScheduleRow
  BY <1>1 DEF RuleRow, ScheduleRow, Scope
<1>4. plan.rules \in Seq(RuleRow) /\ plan.schedules \in Seq(ScheduleRow) /\ plan.window \in WindowSetting
  BY <1>2, <1>3 DEF WindowSetting
<1>5. plan \in Plan
  BY <1>2, <1>4 DEF Plan
<1>6. Len(plan.rules) = 1 /\ plan.rules[1].id = 1
  BY <1>2
<1>7. OldestFirst(plan.rules)
  BY <1>6 DEF OldestFirst
<1>8. plan \in OrderedPlan
  BY <1>5, <1>7 DEF OrderedPlan
<1>9. made \in [{"rules", "schedules"} -> 0 .. MaxItems] /\ made.rules = 1
  BY <1>1 DEF AutoInit
<1>10. config \in [state : {"pending", "error", "ok"}, data : OrderedPlan]
       /\ configFetch \in [stage : {"none", "asked", "answered"}, answer : OrderedPlan]
  BY NoneOrdered DEF AutoInit, ConfigLoading
<1>11. ruleForm \in [draft : Edit, d : Edit] /\ prompt \in Edit
  BY NoneOrdered DEF AutoInit, NoForm
<1>12. edits \in SUBSET EditRow /\ saves \in Seq(SaveRow) /\ autoMoves \in Nat
  BY DEF AutoInit
<1> QED BY <1>6, <1>8, <1>9, <1>10, <1>11, <1>12 DEF AutoInv, AutoShapes, IdsGiven

LEMMA AutoParts == ASSUME AutoInv
    PROVE  /\ plan \in OrderedPlan /\ made \in [{"rules", "schedules"} -> 0 .. MaxItems] /\ autoMoves \in Nat
           /\ config \in [state : {"pending", "error", "ok"}, data : OrderedPlan]
           /\ configFetch \in [stage : {"none", "asked", "answered"}, answer : OrderedPlan]
           /\ ruleForm \in [draft : Edit, d : Edit] /\ prompt \in Edit
           /\ edits \in SUBSET EditRow /\ saves \in Seq(SaveRow) /\ IdsGiven
BY DEF AutoInv, AutoShapes

\* A step that leaves the server's plan alone.
LEMMA PlanStays ==
    ASSUME AutoInv, UNCHANGED <<plan, made>>, autoMoves' \in Nat,
           config' = config \/ config' \in [state : {"pending", "error", "ok"}, data : OrderedPlan],
           configFetch' = configFetch \/ configFetch' \in [stage : {"none", "asked", "answered"}, answer : OrderedPlan],
           ruleForm' = ruleForm \/ ruleForm' \in [draft : Edit, d : Edit],
           prompt' = prompt \/ prompt' \in Edit,
           edits' \subseteq edits \/ edits' \in SUBSET EditRow,
           saves' = saves \/ saves' \in Seq(SaveRow)
    PROVE  AutoInv'
<1>1. plan' \in OrderedPlan /\ made' \in [{"rules", "schedules"} -> 0 .. MaxItems] /\ IdsGiven'
  BY AutoParts DEF IdsGiven
<1>2. /\ config' \in [state : {"pending", "error", "ok"}, data : OrderedPlan]
      /\ configFetch' \in [stage : {"none", "asked", "answered"}, answer : OrderedPlan]
  BY AutoParts
<1>3. ruleForm' \in [draft : Edit, d : Edit] /\ prompt' \in Edit /\ edits' \in SUBSET EditRow /\ saves' \in Seq(SaveRow)
  BY AutoParts
<1> QED BY <1>1, <1>2, <1>3 DEF AutoInv, AutoShapes

LEMMA MovesCount == ASSUME AutoInv PROVE AutoMove => autoMoves' \in Nat
BY AutoParts DEF AutoMove

LEMMA ConfigSteps ==
    ASSUME AutoInv, ConfigAsked \/ ConfigServed \/ ConfigArrives \/ ConfigLost \/ LibraryLoads
    PROVE  AutoInv'
<1>1. /\ plan \in OrderedPlan /\ autoMoves \in Nat /\ config.data \in OrderedPlan /\ configFetch.answer \in OrderedPlan
      /\ NoConfig \in OrderedPlan /\ ruleForm.draft \in Edit
  BY AutoParts, NoneOrdered
<1>2. CASE ConfigAsked
  <2>1. configFetch' \in [stage : {"none", "asked", "answered"}, answer : OrderedPlan]
    BY <1>1, <1>2 DEF ConfigAsked, ReloadConfig, ConfigLoading
  <2> QED BY <1>1, <1>2, <2>1, PlanStays DEF ConfigAsked
<1>3. CASE ConfigServed
  <2>1. configFetch' \in [stage : {"none", "asked", "answered"}, answer : OrderedPlan]
    BY <1>1, <1>3 DEF ConfigServed
  <2> QED BY <1>1, <1>3, <2>1, PlanStays DEF ConfigServed
<1>4. CASE ConfigArrives
  <2>1. /\ configFetch' \in [stage : {"none", "asked", "answered"}, answer : OrderedPlan]
        /\ config' \in [state : {"pending", "error", "ok"}, data : OrderedPlan]
    BY <1>1, <1>4 DEF ConfigArrives, NoLoad, Holds
  <2> QED BY <1>1, <1>4, <2>1, PlanStays DEF ConfigArrives
<1>5. CASE ConfigLost
  <2>1. configFetch' \in [stage : {"none", "asked", "answered"}, answer : OrderedPlan]
    BY <1>1, <1>5 DEF ConfigLost, NoLoad
  <2>2. config' \in [state : {"pending", "error", "ok"}, data : OrderedPlan]
    BY <1>5, AutoParts DEF ConfigLost
  <2>3. ruleForm' \in [draft : Edit, d : Edit]
    BY <1>1, <1>5, AutoParts DEF ConfigLost
  <2> QED BY <1>1, <1>5, <2>1, <2>2, <2>3, PlanStays DEF ConfigLost
<1>6. CASE LibraryLoads
  BY <1>1, <1>6, PlanStays DEF LibraryLoads
<1> QED BY <1>2, <1>3, <1>4, <1>5, <1>6

-----------------------------------------------------------------------------
(* The patch window.                                                       *)

LEMMA WindowOfPlan ==
    ASSUME NEW p \in OrderedPlan, NEW w \in WindowSetting
    PROVE  [p EXCEPT !.window = w] \in OrderedPlan /\ [p EXCEPT !.window = w].rules = p.rules
<1>1. p \in Plan /\ OldestFirst(p.rules)
  BY DEF OrderedPlan
<1>2. [p EXCEPT !.window = w] \in Plan /\ [p EXCEPT !.window = w].rules = p.rules
  BY <1>1 DEF Plan
<1> QED BY <1>1, <1>2 DEF OrderedPlan

LEMMA ChangeStep == ASSUME AutoInv, NEW k \in {"on", "reboot"}, ChangeWindow(k) PROVE AutoInv'
<1> DEFINE now == config.data
           next == [now.window EXCEPT ![k] = ~@]
           row == [old |-> now, window |-> next, stage |-> "sent", answer |-> NoConfig]
<1>1. now \in OrderedPlan /\ now.window \in WindowSetting
  BY AutoParts DEF OrderedPlan, Plan
<1>2. next \in WindowSetting
  BY <1>1 DEF WindowSetting
<1>3. /\ config' = [state |-> "ok", data |-> [now EXCEPT !.window = next]] /\ saves' = Append(saves, row)
      /\ UNCHANGED <<plan, made, configFetch, library, ruleForm, prompt, edits>> /\ AutoMove
  BY DEF ChangeWindow, Holds
<1> HIDE DEF now, next
<1>4. config' \in [state : {"pending", "error", "ok"}, data : OrderedPlan]
  BY <1>1, <1>2, <1>3, WindowOfPlan
<1>5. row \in SaveRow
  BY <1>1, <1>2, NoneOrdered DEF SaveRow
<1> HIDE DEF row
<1>6. saves' \in Seq(SaveRow)
  BY <1>3, <1>5, AutoParts
<1> QED BY <1>3, <1>4, <1>6, PlanStays, MovesCount

LEMMA SavesOf == ASSUME AutoInv, NEW i \in DOMAIN saves
    PROVE  saves[i] \in SaveRow /\ \A row \in SaveRow : [saves EXCEPT ![i] = row] \in Seq(SaveRow)
<1>1. saves \in Seq(SaveRow)
  BY AutoParts
<1>2. saves[i] \in SaveRow
  BY <1>1
<1>3. ASSUME NEW row \in SaveRow PROVE [saves EXCEPT ![i] = row] \in Seq(SaveRow)
  BY <1>1, ExceptSeq
<1> QED BY <1>2, <1>3

LEMMA WindowSteps ==
    ASSUME AutoInv, NEW i \in DOMAIN saves, WindowServed(i) \/ \E ok \in BOOLEAN : WindowOver(i, ok)
    PROVE  AutoInv'
<1> DEFINE s == saves[i]
<1>1. s \in SaveRow
  BY SavesOf
<1>2. s.old \in OrderedPlan /\ s.answer \in OrderedPlan /\ s.window \in WindowSetting /\ NoConfig \in OrderedPlan
  BY <1>1, NoneOrdered DEF SaveRow
<1>3. CASE WindowServed(i)
  <2>1. autoMoves' \in Nat /\ UNCHANGED <<made, config, configFetch, library, ruleForm, prompt, edits, autoMoves>>
    BY <1>3, AutoParts DEF WindowServed
  <2>2. CASE UNCHANGED plan /\ saves' = [saves EXCEPT ![i].stage = "refused"]
    <3>1. saves' = [saves EXCEPT ![i] = [s EXCEPT !.stage = "refused"]]
      BY <2>2
    <3>2. [s EXCEPT !.stage = "refused"] \in SaveRow
      BY <1>1 DEF SaveRow
    <3>3. saves' \in Seq(SaveRow)
      BY <3>1, <3>2, SavesOf
    <3> QED BY <2>1, <2>2, <3>3, PlanStays
  <2>3. CASE /\ plan' = [plan EXCEPT !.window = saves[i].window]
             /\ saves' = [saves EXCEPT ![i].stage = "done", ![i].answer = plan']
    <3>1. plan' \in OrderedPlan /\ plan'.rules = plan.rules
      BY <1>2, <2>3, AutoParts, WindowOfPlan
    <3>2. saves' = [saves EXCEPT ![i] = [s EXCEPT !.stage = "done", !.answer = plan']]
      BY <2>3
    <3>3. [s EXCEPT !.stage = "done", !.answer = plan'] \in SaveRow
      BY <1>1, <3>1 DEF SaveRow
    <3>4. saves' \in Seq(SaveRow)
      BY <3>2, <3>3, SavesOf
    <3>5. IdsGiven'
      BY <2>1, <3>1, AutoParts DEF IdsGiven
    <3> QED BY <2>1, <3>1, <3>4, <3>5, AutoParts DEF AutoInv, AutoShapes
  <2> QED BY <1>3, <2>2, <2>3 DEF WindowServed
<1>4. CASE \E ok \in BOOLEAN : WindowOver(i, ok)
  <2>1. PICK ok \in BOOLEAN : WindowOver(i, ok)
    BY <1>4
  <2> DEFINE row == [old |-> NoConfig, window |-> s.window, stage |-> "over", answer |-> NoConfig]
  <2>2. saves' = [saves EXCEPT ![i] = row] /\ config' = [state |-> "ok", data |-> IF ok THEN s.answer ELSE s.old]
        /\ UNCHANGED <<plan, made, configFetch, library, ruleForm, prompt, edits, autoMoves>>
    BY <2>1 DEF WindowOver, Holds
  <2>3. row \in SaveRow
    BY <1>2 DEF SaveRow
  <2> HIDE DEF row
  <2>4. saves' \in Seq(SaveRow)
    BY <2>2, <2>3, SavesOf
  <2>5. config' \in [state : {"pending", "error", "ok"}, data : OrderedPlan]
    BY <1>2, <2>2
  <2> QED BY <2>2, <2>4, <2>5, PlanStays, AutoParts
<1> QED BY <1>3, <1>4

-----------------------------------------------------------------------------
(* Requests on rules and schedules, and what asks for them.                *)

LEMMA SendStep == ASSUME AutoInv, NEW e \in Edit, NEW n \in Nat, SendEdit(e, n) PROVE edits' \in SUBSET EditRow
<1>1. [body |-> e, stage |-> "sent", n |-> n] \in EditRow
  BY DEF EditRow
<1> QED BY <1>1, AutoParts DEF SendEdit

LEMMA AskSteps ==
    ASSUME AutoInv, NEW e \in Edit, AutoMove, AskOrSend(e)
    PROVE  (prompt' = prompt \/ prompt' \in Edit) /\ (edits' \subseteq edits \/ edits' \in SUBSET EditRow)
<1>1. autoMoves' \in Nat
  BY MovesCount
<1> QED BY <1>1, SendStep DEF AskOrSend

LEMMA RowsOf ==
    ASSUME AutoInv
    PROVE  /\ \A i \in DOMAIN config.data.rules : config.data.rules[i] \in RuleRow
           /\ \A i \in DOMAIN config.data.schedules : config.data.schedules[i] \in ScheduleRow
<1>1. config.data \in OrderedPlan
  BY AutoParts
<1>2. config.data.rules \in Seq(RuleRow) /\ config.data.schedules \in Seq(ScheduleRow)
  BY <1>1 DEF OrderedPlan, Plan
<1> QED BY <1>2

LEMMA RuleEdits ==
    ASSUME NEW r \in RuleRow, NEW what \in {"create", "update", "delete"}, NEW on \in BOOLEAN, NEW form \in BOOLEAN
    PROVE  /\ [NoEdit EXCEPT !.what = what, !.id = r.id, !.scope = r.scope, !.on = on] \in Edit
           /\ [NoEdit EXCEPT !.what = what, !.id = r.id, !.scope = r.scope, !.on = on, !.fromForm = form] \in Edit
           /\ [NoEdit EXCEPT !.table = "rules", !.id = r.id] \in Edit
           /\ [NoEdit EXCEPT !.what = what, !.on = on, !.fromForm = form] \in Edit
<1>1. NoEdit \in Edit
  BY NoneOrdered
<1>2. r.id \in 0 .. MaxItems /\ r.scope \in Scope
  BY AutoAssumption DEF RuleRow
<1> QED BY <1>1, <1>2 DEF Edit

LEMMA ScheduleEdits ==
    ASSUME NEW r \in ScheduleRow, NEW what \in {"create", "update", "delete"}, NEW on \in BOOLEAN, NEW form \in BOOLEAN
    PROVE  /\ [NoEdit EXCEPT !.table = "schedules", !.what = what, !.id = r.id, !.script = r.script, !.on = on] \in Edit
           /\ [NoEdit EXCEPT !.table = "schedules", !.what = what, !.id = r.id, !.script = r.script, !.on = on,
                             !.fromForm = form] \in Edit
           /\ [NoEdit EXCEPT !.table = "schedules", !.id = r.id] \in Edit
           /\ [NoEdit EXCEPT !.table = "schedules", !.what = what, !.on = on, !.fromForm = form] \in Edit
<1>1. NoEdit \in Edit
  BY NoneOrdered
<1>2. r.id \in 0 .. MaxItems /\ r.script \in ScriptId
  BY AutoAssumption DEF ScheduleRow
<1> QED BY <1>1, <1>2 DEF Edit

LEMMA SwitchSteps ==
    ASSUME AutoInv, NEW t \in {"rules", "schedules"}, NEW i \in DOMAIN config.data[t], SwitchRow(t, i) \/ RemoveRow(t, i)
    PROVE  AutoInv'
<1> DEFINE row == config.data[t][i]
<1>1. AutoMove /\ UNCHANGED <<plan, made, config, configFetch, library, ruleForm, saves>>
  BY DEF SwitchRow, RemoveRow
<1>2. \E e \in Edit : AskOrSend(e)
  <2>1. CASE t = "rules"
    <3>1. row \in RuleRow /\ row.on \in BOOLEAN
      BY <2>1, RowsOf DEF RuleRow
    <3>2. CASE SwitchRow(t, i)
      BY <2>1, <3>1, <3>2, RuleEdits DEF SwitchRow
    <3>3. CASE RemoveRow(t, i)
      BY <2>1, <3>1, <3>3, RuleEdits DEF RemoveRow
    <3> QED BY <3>2, <3>3
  <2>2. CASE t = "schedules"
    <3>1. row \in ScheduleRow /\ row.on \in BOOLEAN
      BY <2>2, RowsOf DEF ScheduleRow
    <3>2. CASE SwitchRow(t, i)
      <4>1. AskOrSend([NoEdit EXCEPT !.table = "schedules", !.what = "update", !.id = row.id, !.script = row.script,
                                     !.on = ~row.on])
        BY <2>2, <3>2 DEF SwitchRow
      <4> QED BY <3>1, <4>1, ScheduleEdits
    <3>3. CASE RemoveRow(t, i)
      BY <2>2, <3>1, <3>3, ScheduleEdits DEF RemoveRow
    <3> QED BY <3>2, <3>3
  <2> QED BY <2>1, <2>2
<1> QED BY <1>1, <1>2, AskSteps, MovesCount, PlanStays

LEMMA OpenSteps == ASSUME AutoInv, OpenRuleForm \/ OpenScheduleForm PROVE AutoInv'
<1>1. AutoMove /\ UNCHANGED <<plan, made, config, configFetch, library, prompt, edits, saves>>
  BY DEF OpenRuleForm, OpenScheduleForm
<1>2. \E e \in Edit : Opened(e)
  <2>1. CASE OpenRuleForm
    <3>1. CASE Opened([NoEdit EXCEPT !.what = "create", !.on = TRUE, !.fromForm = TRUE])
      <4>1. [NoEdit EXCEPT !.what = "create", !.on = TRUE, !.fromForm = TRUE] \in Edit
        BY NoneOrdered DEF Edit
      <4> QED BY <3>1, <4>1
    <3>2. CASE \E r \in ToSet(config.data.rules) :
                  Opened([NoEdit EXCEPT !.what = "update", !.id = r.id, !.scope = r.scope, !.on = r.on, !.fromForm = TRUE])
      <4>1. PICK r \in ToSet(config.data.rules) :
               Opened([NoEdit EXCEPT !.what = "update", !.id = r.id, !.scope = r.scope, !.on = r.on, !.fromForm = TRUE])
        BY <3>2
      <4>2. r \in RuleRow /\ r.on \in BOOLEAN
        BY RowsOf DEF ToSet, RuleRow
      <4> QED BY <4>1, <4>2, RuleEdits
    <3> QED BY <2>1, <3>1, <3>2 DEF OpenRuleForm
  <2>2. CASE OpenScheduleForm
    <3>1. CASE Opened([NoEdit EXCEPT !.table = "schedules", !.what = "create", !.on = TRUE, !.fromForm = TRUE])
      <4>1. [NoEdit EXCEPT !.table = "schedules", !.what = "create", !.on = TRUE, !.fromForm = TRUE] \in Edit
        BY NoneOrdered DEF Edit
      <4> QED BY <3>1, <4>1
    <3>2. CASE \E s \in ToSet(config.data.schedules) :
                  Opened([NoEdit EXCEPT !.table = "schedules", !.what = "update", !.id = s.id, !.script = s.script,
                                        !.on = s.on, !.fromForm = TRUE])
      <4>1. PICK s \in ToSet(config.data.schedules) :
               Opened([NoEdit EXCEPT !.table = "schedules", !.what = "update", !.id = s.id, !.script = s.script,
                                     !.on = s.on, !.fromForm = TRUE])
        BY <3>2
      <4>2. s \in ScheduleRow /\ s.on \in BOOLEAN
        BY RowsOf DEF ToSet, ScheduleRow
      <4> QED BY <4>1, <4>2, ScheduleEdits
    <3> QED BY <2>2, <3>1, <3>2 DEF OpenScheduleForm
  <2> QED BY <2>1, <2>2
<1>3. ruleForm' \in [draft : Edit, d : Edit]
  BY <1>2 DEF Opened
<1> QED BY <1>1, <1>3, MovesCount, PlanStays

LEMMA FormSteps ==
    ASSUME AutoInv, FillRuleForm \/ SubmitRuleForm \/ CloseRuleForm \/ ConfirmEdit \/ DeclineEdit
    PROVE  AutoInv'
<1>1. autoMoves \in Nat /\ ruleForm.d \in Edit /\ ruleForm.draft \in Edit /\ prompt \in Edit /\ NoEdit \in Edit
  BY AutoParts, NoneOrdered
<1>2. NoForm \in [draft : Edit, d : Edit]
  BY <1>1 DEF NoForm
<1>3. CASE FillRuleForm
  <2>1. UNCHANGED <<plan, made, config, configFetch, library, prompt, edits, saves, autoMoves>>
    BY <1>3 DEF FillRuleForm
  <2>2. \E e \in Edit : ruleForm' = [ruleForm EXCEPT !.d = e]
    <3>1. CASE \E s \in Scope : ruleForm' = [ruleForm EXCEPT !.d.scope = s]
      <4>1. PICK s \in Scope : ruleForm' = [ruleForm EXCEPT !.d.scope = s]
        BY <3>1
      <4>2. [ruleForm.d EXCEPT !.scope = s] \in Edit
        BY <1>1 DEF Edit
      <4> QED BY <4>1, <4>2
    <3>2. CASE \E s \in ScriptId : ruleForm' = [ruleForm EXCEPT !.d.script = s]
      <4>1. PICK s \in ScriptId : ruleForm' = [ruleForm EXCEPT !.d.script = s]
        BY <3>2
      <4>2. [ruleForm.d EXCEPT !.script = s] \in Edit
        BY <1>1 DEF Edit
      <4> QED BY <4>1, <4>2
    <3> QED BY <1>3, <3>1, <3>2 DEF FillRuleForm
  <2>3. ruleForm' \in [draft : Edit, d : Edit]
    BY <2>2, AutoParts
  <2> QED BY <1>1, <2>1, <2>3, PlanStays
<1>4. CASE SubmitRuleForm
  <2>1. AutoMove /\ AskOrSend(ruleForm.d) /\ UNCHANGED <<plan, made, config, configFetch, library, ruleForm, saves>>
    BY <1>4 DEF SubmitRuleForm
  <2> QED BY <1>1, <2>1, AskSteps, MovesCount, PlanStays
<1>5. CASE CloseRuleForm
  BY <1>1, <1>2, <1>5, PlanStays DEF CloseRuleForm
<1>6. CASE ConfirmEdit
  <2>1. prompt' = NoEdit /\ SendEdit(prompt, autoMoves)
        /\ UNCHANGED <<plan, made, config, configFetch, library, ruleForm, saves, autoMoves>>
    BY <1>6 DEF ConfirmEdit
  <2>2. edits' \in SUBSET EditRow
    BY <1>1, <2>1, SendStep
  <2> QED BY <1>1, <2>1, <2>2, PlanStays
<1>7. CASE DeclineEdit
  BY <1>1, <1>7, PlanStays DEF DeclineEdit
<1> QED BY <1>3, <1>4, <1>5, <1>6, <1>7

-----------------------------------------------------------------------------
(* The tables as a request leaves them.                                    *)

LEMMA RemovedOf ==
    ASSUME NEW S, NEW s \in Seq(S), NEW i \in 1 .. Len(s)
    PROVE  /\ RemoveAt(s, i) \in Seq(S) /\ Len(RemoveAt(s, i)) = Len(s) - 1
           /\ \A j \in 1 .. Len(s) - 1 : RemoveAt(s, i)[j] = s[IF j < i THEN j ELSE j + 1]
<1> DEFINE a == SubSeq(s, 1, i - 1)
           b == SubSeq(s, i + 1, Len(s))
           l == Len(s)
<1>1. l \in Nat /\ i \in Nat /\ 1 <= i /\ i <= l /\ \A j \in 1 .. l : s[j] \in S
  BY LenProperties, ElementOfSeq
<1>2. a \in Seq(S) /\ Len(a) = i - 1 /\ \A j \in 1 .. i - 1 : a[j] = s[j]
  BY <1>1, SubSeqProperties
<1>3. b \in Seq(S) /\ Len(b) = l - i /\ \A j \in 1 .. l - i : b[j] = s[i + j]
  <2>1. i + 1 \in Int /\ l \in Int /\ \A j \in i + 1 .. l : s[j] \in S
    BY <1>1
  <2>2. /\ b \in Seq(S) /\ Len(b) = IF i + 1 <= l THEN l - (i + 1) + 1 ELSE 0
        /\ \A j \in 1 .. l - (i + 1) + 1 : b[j] = s[(i + 1) + j - 1]
    BY <2>1, SubSeqProperties
  <2>3. l - (i + 1) + 1 = l - i /\ \A j \in 1 .. l - i : (i + 1) + j - 1 = i + j
    BY <1>1
  <2> HIDE DEF b, l
  <2> QED BY <1>1, <2>2, <2>3
<1>4. RemoveAt(s, i) = a \o b
  BY DEF RemoveAt, a, b
<1> HIDE DEF a, b, l
<1>5. /\ a \o b \in Seq(S) /\ Len(a \o b) = Len(a) + Len(b)
      /\ \A j \in 1 .. Len(a) + Len(b) : (a \o b)[j] = IF j <= Len(a) THEN a[j] ELSE b[j - Len(a)]
  BY <1>2, <1>3, ConcatProperties
<1>6. Len(a) + Len(b) = l - 1
  BY <1>1, <1>2, <1>3
<1>7. ASSUME NEW j \in 1 .. l - 1 PROVE (a \o b)[j] = s[IF j < i THEN j ELSE j + 1]
  <2>1. CASE j < i
    BY <1>1, <1>2, <1>5, <1>6, <2>1
  <2>2. CASE j >= i
    <3>1. j - (i - 1) \in 1 .. l - i /\ i + (j - (i - 1)) = j + 1
      BY <1>1, <2>2
    <3>2. (a \o b)[j] = b[j - (i - 1)]
      BY <1>1, <1>2, <1>5, <1>6, <2>2
    <3>3. b[j - (i - 1)] = s[i + (j - (i - 1))]
      BY <1>3, <3>1
    <3> QED BY <1>1, <2>2, <3>1, <3>2, <3>3
  <2>3. j < i \/ j >= i
    BY <1>1
  <2> QED BY <2>1, <2>2, <2>3
<1> QED BY <1>4, <1>5, <1>6, <1>7 DEF l

LEMMA RulesEdited ==
    ASSUME AutoInv, NEW e \in Edit, e.table = "rules",
           e.what # "create" => \E i \in DOMAIN plan.rules : plan.rules[i].id = e.id,
           e.what = "create" => made.rules < MaxItems
    PROVE  /\ Edited(e) \in Seq(RuleRow) /\ OldestFirst(Edited(e))
           /\ \A i \in 1 .. Len(Edited(e)) :
                 Edited(e)[i].id <= (IF e.what = "create" THEN made.rules + 1 ELSE made.rules)
<1> DEFINE rows == plan.rules
           n == Len(rows)
<1>1. rows \in Seq(RuleRow) /\ OldestFirst(rows)
  BY AutoParts DEF OrderedPlan, Plan
<1>2. n \in Nat /\ DOMAIN rows = 1 .. n /\ \A i \in 1 .. n : rows[i] \in RuleRow
  BY <1>1, LenProperties, ElementOfSeq
<1>3. made.rules \in 0 .. MaxItems /\ MaxItems \in Nat /\ e.scope \in Scope /\ e.on \in BOOLEAN
      /\ e.what \in {"create", "update", "delete"}
  BY AutoParts, AutoAssumption DEF Edit
<1>4. \A i \in 1 .. n : rows[i].id \in Nat /\ rows[i].id <= made.rules
  <2>1. \A i \in 1 .. n : rows[i].id \in 1 .. MaxItems
    BY <1>2 DEF RuleRow
  <2> QED BY <2>1, <1>3, AutoParts DEF IdsGiven
<1>5. \A i, j \in 1 .. n : i < j => rows[i].id < rows[j].id
  BY <1>1 DEF OldestFirst
<1>6. plan[e.table] = rows
  OBVIOUS
<1>7. CASE e.what = "create"
  <2> DEFINE new == [id |-> made.rules + 1, scope |-> e.scope, on |-> e.on]
  <2>1. Edited(e) = Append(rows, new)
    BY <1>6, <1>7 DEF Edited
  <2>2. made.rules + 1 \in 1 .. MaxItems
    BY <1>3, <1>7
  <2>3. new \in RuleRow /\ new.id = made.rules + 1
    BY <1>3, <2>2 DEF RuleRow
  <2> HIDE DEF rows, n, new
  <2>4. /\ Append(rows, new) \in Seq(RuleRow) /\ Len(Append(rows, new)) = n + 1
        /\ Append(rows, new)[n + 1] = new /\ \A i \in 1 .. n : Append(rows, new)[i] = rows[i]
    BY <1>1, <2>3, AppendProperties DEF n
  <2>5. \A i \in 1 .. n + 1 : i \in 1 .. n \/ i = n + 1
    BY <1>2
  <2>6. \A i \in 1 .. n + 1 : Append(rows, new)[i].id <= made.rules + 1
    BY <1>3, <1>4, <2>3, <2>4, <2>5
  <2>7. ASSUME NEW i \in 1 .. n + 1, NEW j \in 1 .. n + 1, i < j
        PROVE  Append(rows, new)[i].id < Append(rows, new)[j].id
    <3>1. i \in 1 .. n
      BY <1>2, <2>7
    <3>2. CASE j \in 1 .. n
      BY <1>5, <2>4, <2>7, <3>1, <3>2
    <3>3. CASE j = n + 1
      BY <1>3, <1>4, <2>3, <2>4, <3>1, <3>3
    <3> QED BY <2>5, <3>2, <3>3
  <2> QED BY <1>7, <2>1, <2>4, <2>6, <2>7 DEF OldestFirst
<1>8. CASE e.what = "update"
  <2> DEFINE row(i) == IF rows[i].id # e.id THEN rows[i] ELSE [rows[i] EXCEPT !.scope = e.scope, !.on = e.on]
             t == [i \in 1 .. n |-> row(i)]
  <2>1. Edited(e) = t
    BY <1>2, <1>6, <1>8 DEF Edited
  <2>2. \A i \in 1 .. n : row(i) \in RuleRow /\ row(i).id = rows[i].id
    BY <1>2, <1>3 DEF RuleRow
  <2> HIDE DEF rows, n, row
  <2>3. t \in [1 .. n -> RuleRow]
    BY <2>2
  <2>4. t \in Seq(RuleRow) /\ Len(t) = n
    BY <1>2, <2>3, LenProperties
  <2>5. \A i \in 1 .. n : t[i].id = rows[i].id
    BY <2>2
  <2> HIDE DEF t
  <2> QED BY <1>4, <1>5, <1>8, <2>1, <2>4, <2>5 DEF OldestFirst
<1>9. CASE e.what = "delete"
  <2> DEFINE k == CHOOSE i \in DOMAIN rows : rows[i].id = e.id
             t == RemoveAt(rows, k)
             at(j) == IF j < k THEN j ELSE j + 1
  <2>1. k \in 1 .. n
    BY <1>2, <1>9
  <2>2. Edited(e) = t
    BY <1>6, <1>9 DEF Edited
  <2> HIDE DEF k
  <2>3. t \in Seq(RuleRow) /\ Len(t) = n - 1 /\ \A j \in 1 .. n - 1 : t[j] = rows[at(j)]
    BY <1>1, <2>1, RemovedOf
  <2> HIDE DEF t, rows, n
  <2>4. \A j \in 1 .. n - 1 : at(j) \in 1 .. n
    BY <1>2, <2>1
  <2>5. \A i, j \in 1 .. n - 1 : i < j => at(i) < at(j)
    BY <1>2, <2>1
  <2> HIDE DEF at
  <2>6. \A j \in 1 .. n - 1 : t[j].id <= made.rules
    BY <1>4, <2>3, <2>4
  <2>7. \A i, j \in 1 .. n - 1 : i < j => t[i].id < t[j].id
    BY <1>5, <2>3, <2>4, <2>5
  <2> QED BY <1>9, <2>2, <2>3, <2>6, <2>7 DEF OldestFirst
<1> QED BY <1>3, <1>7, <1>8, <1>9

LEMMA SchedulesEdited ==
    ASSUME AutoInv, NEW e \in Edit, e.table = "schedules",
           e.what # "create" => \E i \in DOMAIN plan.schedules : plan.schedules[i].id = e.id,
           e.what = "create" => made.schedules < MaxItems
    PROVE  Edited(e) \in Seq(ScheduleRow)
<1> DEFINE rows == plan.schedules
           n == Len(rows)
<1>1. rows \in Seq(ScheduleRow)
  BY AutoParts DEF OrderedPlan, Plan
<1>2. n \in Nat /\ DOMAIN rows = 1 .. n /\ \A i \in 1 .. n : rows[i] \in ScheduleRow
  BY <1>1, LenProperties, ElementOfSeq
<1>3. made.schedules \in 0 .. MaxItems /\ MaxItems \in Nat /\ e.script \in ScriptId /\ e.on \in BOOLEAN
      /\ e.what \in {"create", "update", "delete"}
  BY AutoParts, AutoAssumption DEF Edit
<1>4. plan[e.table] = rows
  OBVIOUS
<1>5. CASE e.what = "create"
  <2>1. Edited(e) = Append(rows, [id |-> made.schedules + 1, script |-> e.script, on |-> e.on])
    BY <1>4, <1>5 DEF Edited
  <2>2. made.schedules + 1 \in 1 .. MaxItems
    BY <1>3, <1>5
  <2>3. [id |-> made.schedules + 1, script |-> e.script, on |-> e.on] \in ScheduleRow
    BY <1>3, <2>2 DEF ScheduleRow
  <2> HIDE DEF rows
  <2> QED BY <1>1, <2>1, <2>3, AppendProperties
<1>6. CASE e.what = "update"
  <2> DEFINE row(i) == IF rows[i].id # e.id THEN rows[i] ELSE [rows[i] EXCEPT !.on = e.on]
             t == [i \in 1 .. n |-> row(i)]
  <2>1. Edited(e) = t
    BY <1>2, <1>4, <1>6 DEF Edited
  <2>2. \A i \in 1 .. n : row(i) \in ScheduleRow
    BY <1>2, <1>3 DEF ScheduleRow
  <2> HIDE DEF rows, n, row
  <2>3. t \in [1 .. n -> ScheduleRow]
    BY <2>2
  <2> QED BY <1>2, <2>1, <2>3
<1>7. CASE e.what = "delete"
  <2> DEFINE k == CHOOSE i \in DOMAIN rows : rows[i].id = e.id
  <2>1. k \in 1 .. n
    BY <1>2, <1>7
  <2>2. Edited(e) = RemoveAt(rows, k)
    BY <1>4, <1>7 DEF Edited
  <2> HIDE DEF k
  <2> QED BY <1>1, <2>1, <2>2, RemovedOf
<1> QED BY <1>3, <1>5, <1>6, <1>7

LEMMA ServedEditStep == ASSUME AutoInv, NEW e \in edits, EditServed(e) PROVE AutoInv'
<1>1. e \in EditRow /\ e.body \in Edit /\ autoMoves \in Nat
  BY AutoParts DEF EditRow
<1>2. [e EXCEPT !.stage = "done"] \in EditRow /\ [e EXCEPT !.stage = "refused"] \in EditRow
  BY <1>1 DEF EditRow
<1>3. edits' \in SUBSET EditRow
  BY <1>2, AutoParts DEF EditServed
<1>4. UNCHANGED <<config, configFetch, library, ruleForm, prompt, saves, autoMoves>>
  BY DEF EditServed
<1>5. CASE UNCHANGED <<plan, made>>
  BY <1>1, <1>3, <1>4, <1>5, PlanStays
<1>6. CASE /\ e.body.what # "create" => \E i \in DOMAIN plan[e.body.table] : plan[e.body.table][i].id = e.body.id
           /\ e.body.what = "create" => made[e.body.table] < MaxItems
           /\ plan' = [plan EXCEPT ![e.body.table] = Edited(e.body)]
           /\ made' = [made EXCEPT ![e.body.table] = IF e.body.what = "create" THEN @ + 1 ELSE @]
  <2>1. e.body.table \in {"rules", "schedules"}
    BY <1>1 DEF Edit
  <2>2. plan \in Plan /\ OldestFirst(plan.rules) /\ MaxItems \in Nat
        /\ made \in [{"rules", "schedules"} -> 0 .. MaxItems]
    BY AutoParts, AutoAssumption DEF OrderedPlan
  <2>3. made' \in [{"rules", "schedules"} -> 0 .. MaxItems]
    BY <1>6, <2>1, <2>2
  <2>4. CASE e.body.table = "rules"
    <3>1. /\ Edited(e.body) \in Seq(RuleRow) /\ OldestFirst(Edited(e.body))
          /\ \A i \in 1 .. Len(Edited(e.body)) :
                Edited(e.body)[i].id <= (IF e.body.what = "create" THEN made.rules + 1 ELSE made.rules)
      BY <1>1, <1>6, <2>4, RulesEdited
    <3>2. plan' \in Plan /\ plan'.rules = Edited(e.body)
      BY <1>6, <2>2, <2>4, <3>1 DEF Plan
    <3>3. made'.rules = IF e.body.what = "create" THEN made.rules + 1 ELSE made.rules
      BY <1>6, <2>2, <2>4
    <3>4. plan' \in OrderedPlan /\ IdsGiven'
      BY <3>1, <3>2, <3>3 DEF OrderedPlan, IdsGiven
    <3> QED BY <1>3, <1>4, <2>3, <3>4, AutoParts DEF AutoInv, AutoShapes
  <2>5. CASE e.body.table = "schedules"
    <3>1. Edited(e.body) \in Seq(ScheduleRow)
      BY <1>1, <1>6, <2>5, SchedulesEdited
    <3>2. plan' \in Plan /\ plan'.rules = plan.rules
      BY <1>6, <2>2, <2>5, <3>1 DEF Plan
    <3>3. made'.rules = made.rules
      BY <1>6, <2>2, <2>5
    <3>4. plan' \in OrderedPlan /\ IdsGiven'
      BY <2>2, <3>2, <3>3, AutoParts DEF OrderedPlan, IdsGiven
    <3> QED BY <1>3, <1>4, <2>3, <3>4, AutoParts DEF AutoInv, AutoShapes
  <2> QED BY <2>1, <2>4, <2>5
<1> QED BY <1>5, <1>6 DEF EditServed

LEMMA EditOverSteps == ASSUME AutoInv, NEW e \in edits, RowSaved(e) \/ EditFails(e) PROVE AutoInv'
<1>1. autoMoves \in Nat /\ NoForm \in [draft : Edit, d : Edit] /\ edits' \subseteq edits
  BY AutoParts, NoneOrdered DEF NoForm, RowSaved, EditFails
<1>2. CASE RowSaved(e)
  <2>1. configFetch' \in [stage : {"none", "asked", "answered"}, answer : OrderedPlan]
    BY <1>2, NoneOrdered DEF RowSaved, ReloadConfig, ConfigLoading
  <2>2. ruleForm' = ruleForm \/ ruleForm' \in [draft : Edit, d : Edit]
    BY <1>1, <1>2 DEF RowSaved
  <2> QED BY <1>1, <1>2, <2>1, <2>2, PlanStays DEF RowSaved
<1>3. CASE EditFails(e)
  BY <1>1, <1>3, PlanStays DEF EditFails
<1> QED BY <1>2, <1>3

LEMMA AutoInvStep == AutoInv /\ [AutoNext]_autoVars => AutoInv'
<1> SUFFICES ASSUME AutoInv, [AutoNext]_autoVars PROVE AutoInv'
  OBVIOUS
<1>1. CASE ConfigAsked \/ ConfigServed \/ ConfigArrives \/ ConfigLost \/ LibraryLoads
  BY <1>1, ConfigSteps
<1>2. CASE OpenRuleForm \/ OpenScheduleForm
  BY <1>2, OpenSteps
<1>3. CASE FillRuleForm \/ SubmitRuleForm \/ CloseRuleForm \/ ConfirmEdit \/ DeclineEdit
  BY <1>3, FormSteps
<1>4. CASE \E k \in {"on", "reboot"} : ChangeWindow(k)
  BY <1>4, ChangeStep
<1>5. CASE \E i \in DOMAIN saves : WindowServed(i) \/ \E ok \in BOOLEAN : WindowOver(i, ok)
  BY <1>5, WindowSteps
<1>6. CASE \E t \in {"rules", "schedules"} : \E i \in DOMAIN config.data[t] : SwitchRow(t, i) \/ RemoveRow(t, i)
  BY <1>6, SwitchSteps
<1>7. CASE \E e \in edits : EditServed(e) \/ RowSaved(e) \/ EditFails(e)
  BY <1>7, ServedEditStep, EditOverSteps
<1>8. CASE UNCHANGED autoVars
  BY <1>8, PlanStays, AutoParts DEF autoVars
<1> QED BY <1>1, <1>2, <1>3, <1>4, <1>5, <1>6, <1>7, <1>8 DEF AutoNext

\* Whatever rules were made, changed, switched off and removed, and whichever
\* answer the page still holds: the rule it names for a device is the one the
\* server decides by (effectiveRule, effective_rule).
THEOREM RuleIsTheServers == AutoSpec => []SameRule
<1>1. AutoInit => AutoInv
  BY AutoInvInit
<1>2. AutoInv /\ [AutoNext]_autoVars => AutoInv'
  BY AutoInvStep
<1>3. AutoInv => SameRule
  BY InvSame
<1> QED BY <1>1, <1>2, <1>3, PTL DEF AutoSpec

-----------------------------------------------------------------------------
(* The updates of a device: whom an install is for, which device a run     *)
(* belongs to, and, per device, why what the tab holds is as new as what   *)
(* it claims, or what is still going to make it so.                        *)

TabCallRow == [kind: {"none", "install", "scan", "queue", "cancel"}, device: TabDevice \cup {0},
               whole: BOOLEAN, run: RunId \cup {0}, mine: BOOLEAN, via: TabDevice \cup {0},
               stage: {"none", "sent", "done", "refused"}]
TabServerTypes ==
    /\ runs \in [RunId -> [device: TabDevice \cup {0}, over: BOOLEAN]]
    /\ waiting \in [TabDevice -> WaitingRow]
TabQueryTypes ==
    /\ DOMAIN tabCache = TabQuery /\ \A q \in TabQuery : DOMAIN tabCache[q] = TabDevice
    /\ tabCache = [q \in TabQuery |-> [d \in TabDevice |-> tabCache[q][d]]]
    /\ \A d \in TabDevice : tabCache.patches[d] \in PatchAnswer \cup {NotAnswered}
    /\ tabStale \in [TabQuery -> SUBSET TabDevice] /\ tabFailed \in [TabQuery -> SUBSET TabDevice]
    /\ tabLoad = [q \in TabQuery |-> tabLoad[q]]
    /\ tabLoad.patches.stage = "answered" => tabLoad.patches.answer \in PatchAnswer
    /\ \A q \in TabQuery : tabLoad[q].stage \in {"asked", "answered"} \/ tabLoad[q] = NoTabLoad
    /\ tabDevice = 0 => \A q \in TabQuery : tabLoad[q] = NoTabLoad
TabTypes ==
    /\ tabDevice \in TabDevice \cup {0} /\ started \in RunId \cup {0} /\ carried \in BOOLEAN
    /\ tabQuestion \in [device: TabDevice \cup {0}, whole: BOOLEAN]
    /\ tabCalls \in [TabSlot -> TabCallRow]
    /\ toldRun \in RunId \cup {0} /\ reloads \in [TabDevice -> 0 .. 3] /\ unseenRow \subseteq TabDevice

InstallFor(d, whole) == <<d, whole>> \in consented /\ tabCache.patches[d] # NotAnswered
TabCallFine(c) ==
    /\ c.stage # "none" \/ c.kind = "install" => {c.device, c.via} \subseteq TabDevice
    /\ c.kind = "install" => InstallFor(c.device, c.whole)
    /\ c.kind = "install" /\ c.stage = "done" => c.run # 0 /\ runs[c.run].device = c.device
TabCallsFine == \A c \in TabSlot : TabCallFine(tabCalls[c])
AskedFine ==
    tabQuestion # NoInstallAsk =>
       {tabDevice, tabQuestion.device} \subseteq TabDevice /\ tabCache.patches[tabQuestion.device] # NotAnswered

Changing(d) ==
    \E c \in TabSlot :
       tabCalls[c].stage = "done" /\ tabCalls[c].kind \in {"queue", "cancel"} /\ tabCalls[c].device = d
RowKnown(d) ==
    /\ d \in tabStale.actions \cup tabFailed.actions \/ tabCache.actions[d] \in {NotAnswered, waiting[d]}
    /\ d = tabDevice => IF tabLoad.actions = NoTabLoad
                          THEN d \in tabFailed.actions \/ tabCache.actions[d] = waiting[d]
                          ELSE tabLoad.actions.stage = "asked" \/ tabLoad.actions.answer = waiting[d]
RowsTrue == \A d \in TabDevice : RowKnown(d) \/ d \in unseenRow \/ Changing(d)

RunOfDevice(r, d) == r # 0 => runs[r].device = d
ConsoleOwn ==
    /\ \A d \in TabDevice : tabCache.patches[d] = NotAnswered \/ RunOfDevice(tabCache.patches[d].run, d)
    /\ tabLoad.patches.stage = "answered" => RunOfDevice(tabLoad.patches.answer.run, tabDevice)
    /\ started # 0 /\ ~carried =>
          /\ tabDevice # 0 /\ runs[started].device = tabDevice
          /\ tabCache.patches[tabDevice] # NotAnswered

EndRead(r, d) ==
    /\ d \in tabStale.patches \cup tabFailed.patches \/ r \in tabCache.patches[d].over
    /\ d = tabDevice => IF tabLoad.patches = NoTabLoad
                          THEN d \in tabFailed.patches \/ r \in tabCache.patches[d].over
                          ELSE tabLoad.patches.stage = "asked" \/ r \in tabLoad.patches.answer.over
EndOf(r, d) ==
    /\ d \in TabDevice /\ runs[r].over /\ tabCache.patches[d] # NotAnswered
    /\ reloads[d] > 0 \/ EndRead(r, d)
EndKnown == ~carried /\ toldRun # 0 => EndOf(toldRun, runs[toldRun].device)

UpdInv ==
    /\ TabServerTypes /\ TabQueryTypes /\ TabTypes
    /\ TabCallsFine /\ AskedFine /\ RowsTrue /\ ConsoleOwn /\ EndKnown

LEMMA TabZero == 0 \notin TabDevice /\ 0 \notin RunId
BY TabAssumption DEF TabDevice, RunId

LEMMA AnswersDiffer == ASSUME NEW a \in PatchAnswer PROVE a # NotAnswered
<1>1. DOMAIN a = {"run", "over"}
  BY DEF PatchAnswer
<1>2. DOMAIN NotAnswered = {"state", "whole"}
  BY DEF NotAnswered
<1>3. "run" \notin {"state", "whole"}
  OBVIOUS
<1> QED BY <1>1, <1>2, <1>3

LEMMA UpdInvInit == UpdatesInit => UpdInv
<1> SUFFICES ASSUME UpdatesInit PROVE UpdInv
  OBVIOUS
<1> USE DEF UpdatesInit
<1>1. TabServerTypes
  BY DEF TabServerTypes, NoInstall, NoRowYet, WaitingRow
<1>2. TabQueryTypes
  BY DEF TabQueryTypes, TabQuery, NoTabLoad
<1>3. TabTypes
  <2>1. NoInstallAsk \in [device: TabDevice \cup {0}, whole: BOOLEAN] /\ NoTabCall \in TabCallRow
    BY DEF NoInstallAsk, NoTabCall, TabCallRow
  <2>2. tabQuestion \in [device: TabDevice \cup {0}, whole: BOOLEAN] /\ tabCalls \in [TabSlot -> TabCallRow]
    BY <2>1
  <2>3. reloads \in [TabDevice -> 0 .. 3]
    OBVIOUS
  <2> QED BY <2>2, <2>3 DEF TabTypes
<1>4. TabCallsFine
  BY DEF TabCallsFine, TabCallFine, NoTabCall
<1>5. AskedFine /\ EndKnown
  BY DEF AskedFine, EndKnown
<1>6. RowsTrue
  BY TabZero DEF RowsTrue, RowKnown, TabQuery
<1>7. ConsoleOwn
  BY DEF ConsoleOwn, TabQuery, NoTabLoad
<1> QED BY <1>1, <1>2, <1>3, <1>4, <1>5, <1>6, <1>7 DEF UpdInv

-----------------------------------------------------------------------------
(* What stays as it is.                                                    *)

\* A run keeps its device, and its end.
RunsKept ==
    \A r \in RunId : runs[r].device # 0 =>
       runs'[r].device = runs[r].device /\ (runs[r].over => runs'[r].over)

LEMMA TabCallsStay ==
    ASSUME TabCallsFine, AskedFine, UNCHANGED <<runs, tabCache, tabDevice, tabCalls, tabQuestion, consented>>
    PROVE  TabCallsFine' /\ AskedFine'
BY DEF TabCallsFine, TabCallFine, AskedFine, InstallFor

LEMMA RowsStay ==
    ASSUME RowsTrue, UNCHANGED <<waiting, tabCache, tabStale, tabFailed, tabLoad, tabDevice>>,
           unseenRow \subseteq unseenRow',
           \A d \in TabDevice : Changing(d) => Changing(d)' \/ d \in unseenRow'
    PROVE  RowsTrue'
BY DEF RowsTrue, RowKnown

LEMMA ConsoleStaysOwn ==
    ASSUME ConsoleOwn, UNCHANGED <<runs, tabCache, tabLoad, tabDevice, started, carried>>
    PROVE  ConsoleOwn'
BY DEF ConsoleOwn, RunOfDevice

LEMMA EndStays ==
    ASSUME EndKnown, UNCHANGED <<runs, tabCache, tabStale, tabFailed, tabLoad, tabDevice, carried, reloads>>,
           toldRun' \in {0, toldRun}
    PROVE  EndKnown'
BY DEF EndKnown, EndOf, EndRead

LEMMA EndGoesOn ==
    ASSUME EndKnown, TabTypes, toldRun' \in {0, toldRun}, carried => carried',
           \A r \in RunId, d \in TabDevice :
              runs[r].device = d /\ EndOf(r, d) => runs'[r].device = d /\ EndOf(r, d)'
    PROVE  EndKnown'
<1> SUFFICES ASSUME ~ carried', toldRun' # 0 PROVE EndOf(toldRun, runs[toldRun].device)'
  BY DEF EndKnown
<1>1. ~ carried /\ toldRun' = toldRun /\ toldRun \in RunId
  BY DEF TabTypes
<1>2. PICK d \in TabDevice : runs[toldRun].device = d /\ EndOf(toldRun, d)
  BY <1>1 DEF EndKnown, EndOf
<1>3. PICK r \in RunId : r = toldRun
  BY <1>1
<1>4. runs'[r].device = d /\ EndOf(r, d)'
  BY <1>2, <1>3
<1> QED BY <1>1, <1>3, <1>4 DEF EndOf, EndRead

LEMMA UpdParts ==
    ASSUME UpdInv
    PROVE  /\ TabServerTypes /\ TabQueryTypes /\ TabTypes
           /\ TabCallsFine /\ AskedFine /\ RowsTrue /\ ConsoleOwn /\ EndKnown
BY DEF UpdInv

-----------------------------------------------------------------------------
(* The two queries.                                                        *)

LEMMA LoadAsksStep == ASSUME UpdInv, NEW q \in TabQuery, TabAsks(q) PROVE UpdInv'
<1> USE UpdParts
<1>1. tabLoad' = [tabLoad EXCEPT ![q] = TabLoading] /\ tabDevice # 0
      /\ UNCHANGED <<tabServerVars, tabCache, tabStale, tabFailed, tabPanelVars, tabAskVars, tabCalls, reloads, unseenRow>>
  BY DEF TabAsks
<1>2. tabLoad'[q] = TabLoading /\ \A p \in TabQuery : p # q => tabLoad'[p] = tabLoad[p]
  BY <1>1 DEF TabQueryTypes
<1>3. TabLoading.stage = "asked" /\ TabLoading # NoTabLoad /\ {"patches", "actions"} \subseteq TabQuery
  BY DEF TabLoading, NoTabLoad, TabQuery
<1>4. TabServerTypes' /\ TabTypes'
  BY <1>1 DEF TabServerTypes, TabTypes, tabServerVars, tabPanelVars, tabAskVars
<1>5. TabQueryTypes'
  BY <1>1, <1>2, <1>3 DEF TabQueryTypes, tabPanelVars, TabQuery
<1>6. TabCallsFine' /\ AskedFine'
  BY <1>1, TabCallsStay DEF tabServerVars, tabAskVars, tabPanelVars
<1>7. RowsTrue'
  BY <1>1, <1>2, <1>3 DEF RowsTrue, RowKnown, Changing, tabServerVars, tabPanelVars, TabQuery
<1>8. ConsoleOwn'
  BY <1>1, <1>2, <1>3 DEF ConsoleOwn, RunOfDevice, tabServerVars, tabPanelVars, TabQuery
<1>9. EndKnown'
  BY <1>1, <1>2, <1>3 DEF EndKnown, EndOf, EndRead, tabServerVars, tabPanelVars, TabQuery
<1> QED BY <1>4, <1>5, <1>6, <1>7, <1>8, <1>9 DEF UpdInv

LEMMA LoadAnswerTrue ==
    ASSUME UpdInv, tabDevice # 0
    PROVE  /\ TabAnswer("patches", tabDevice) \in PatchAnswer
           /\ RunOfDevice(TabAnswer("patches", tabDevice).run, tabDevice)
           /\ \A r \in RunId : runs[r].over => r \in TabAnswer("patches", tabDevice).over
           /\ TabAnswer("actions", tabDevice) = waiting[tabDevice]
<1>1. RunOf(tabDevice) \in RunId \cup {0} /\ RunOfDevice(RunOf(tabDevice), tabDevice)
  BY DEF RunOf, Running, RunOfDevice
<1> QED BY <1>1 DEF TabAnswer, PatchAnswer

LEMMA LoadServedStep == ASSUME UpdInv, NEW q \in TabQuery, TabServed(q) PROVE UpdInv'
<1> USE UpdParts
<1> DEFINE answer == TabAnswer(q, tabDevice)
<1>1. tabLoad' = [tabLoad EXCEPT ![q] = [stage |-> "answered", answer |-> answer]] /\ tabLoad[q].stage = "asked"
      /\ UNCHANGED <<tabServerVars, tabCache, tabStale, tabFailed, tabPanelVars, tabAskVars, tabCalls, reloads, unseenRow>>
  BY DEF TabServed
<1>2. tabDevice # 0
  BY <1>1 DEF TabQueryTypes, NoTabLoad
<1>3. q = "patches" => /\ answer \in PatchAnswer /\ RunOfDevice(answer.run, tabDevice)
                       /\ \A r \in RunId : runs[r].over => r \in answer.over
  BY <1>2, LoadAnswerTrue
<1>4. q = "actions" => answer = waiting[tabDevice]
  BY <1>2, LoadAnswerTrue
<1> HIDE DEF answer
<1>5. /\ tabLoad'[q].stage = "answered" /\ tabLoad'[q].answer = answer /\ tabLoad'[q] # NoTabLoad
      /\ \A p \in TabQuery : p # q => tabLoad'[p] = tabLoad[p]
  BY <1>1 DEF TabQueryTypes, NoTabLoad
<1>6. {"patches", "actions"} \subseteq TabQuery
  BY DEF TabQuery
<1>7. TabServerTypes' /\ TabTypes'
  BY <1>1 DEF TabServerTypes, TabTypes, tabServerVars, tabPanelVars, tabAskVars
<1>8. TabQueryTypes'
  BY <1>1, <1>2, <1>3, <1>5, <1>6 DEF TabQueryTypes, tabPanelVars, TabQuery
<1>9. TabCallsFine' /\ AskedFine'
  BY <1>1, TabCallsStay DEF tabServerVars, tabAskVars, tabPanelVars
<1>10. RowsTrue'
  BY <1>1, <1>4, <1>5, <1>6 DEF RowsTrue, RowKnown, Changing, tabServerVars, tabPanelVars, TabQuery
<1>11. ConsoleOwn'
  BY <1>1, <1>3, <1>5, <1>6 DEF ConsoleOwn, RunOfDevice, tabServerVars, tabPanelVars, TabQuery
<1>12. EndKnown'
  BY <1>1, <1>3, <1>5, <1>6 DEF EndKnown, EndOf, EndRead, tabServerVars, tabPanelVars, TabQuery, TabTypes
<1> QED BY <1>7, <1>8, <1>9, <1>10, <1>11, <1>12 DEF UpdInv

LEMMA LoadLostStep == ASSUME UpdInv, NEW q \in TabQuery, TabLost(q) PROVE UpdInv'
<1> USE UpdParts
<1>1. tabLoad' = [tabLoad EXCEPT ![q] = NoTabLoad] /\ tabFailed' = [tabFailed EXCEPT ![q] = @ \cup {tabDevice}]
      /\ tabLoad[q] # NoTabLoad
      /\ UNCHANGED <<tabServerVars, tabCache, tabStale, tabPanelVars, tabAskVars, tabCalls, reloads, unseenRow>>
  BY DEF TabLost
<1>2. tabDevice \in TabDevice
  BY <1>1 DEF TabQueryTypes, TabTypes
<1>3. /\ tabLoad'[q] = NoTabLoad /\ tabFailed'[q] = tabFailed[q] \cup {tabDevice}
      /\ \A p \in TabQuery : p # q => tabLoad'[p] = tabLoad[p] /\ tabFailed'[p] = tabFailed[p]
  BY <1>1 DEF TabQueryTypes
<1>4. {"patches", "actions"} \subseteq TabQuery /\ NoTabLoad.stage = "none"
  BY DEF TabQuery, NoTabLoad
<1>5. TabServerTypes' /\ TabTypes'
  BY <1>1 DEF TabServerTypes, TabTypes, tabServerVars, tabPanelVars, tabAskVars
<1>6. TabQueryTypes'
  BY <1>1, <1>2, <1>3, <1>4 DEF TabQueryTypes, tabPanelVars
<1>7. TabCallsFine' /\ AskedFine'
  BY <1>1, TabCallsStay DEF tabServerVars, tabAskVars, tabPanelVars
<1>8. RowsTrue'
  BY <1>1, <1>3, <1>4 DEF RowsTrue, RowKnown, Changing, tabServerVars, tabPanelVars, TabQuery
<1>9. ConsoleOwn'
  BY <1>1, <1>3, <1>4 DEF ConsoleOwn, RunOfDevice, tabServerVars, tabPanelVars, TabQuery
<1>10. EndKnown'
  BY <1>1, <1>3, <1>4 DEF EndKnown, EndOf, EndRead, tabServerVars, tabPanelVars, TabQuery
<1> QED BY <1>5, <1>6, <1>7, <1>8, <1>9, <1>10 DEF UpdInv

LEMMA LoadArrivesStep == ASSUME UpdInv, NEW q \in TabQuery, TabArrives(q) PROVE UpdInv'
<1> USE UpdParts
<1> DEFINE answer == tabLoad[q].answer
<1>1. /\ tabLoad[q].stage = "answered" /\ tabLoad' = [tabLoad EXCEPT ![q] = NoTabLoad]
      /\ tabCache' = [tabCache EXCEPT ![q][tabDevice] = answer]
      /\ tabStale' = [tabStale EXCEPT ![q] = @ \ {tabDevice}] /\ tabFailed' = [tabFailed EXCEPT ![q] = @ \ {tabDevice}]
      /\ UNCHANGED <<tabServerVars, tabDevice, started, carried, tabAskVars, tabCalls, reloads>>
      /\ toldRun' \in {0, toldRun}
  BY DEF TabArrives, ConsoleStays
<1>2. tabDevice \in TabDevice /\ (q = "patches" => answer \in PatchAnswer /\ answer # NotAnswered)
  BY <1>1, AnswersDiffer DEF TabQueryTypes, TabTypes, NoTabLoad
<1>3. /\ tabLoad'[q] = NoTabLoad /\ \A p \in TabQuery : p # q => tabLoad'[p] = tabLoad[p]
      /\ tabStale'[q] = tabStale[q] \ {tabDevice} /\ tabFailed'[q] = tabFailed[q] \ {tabDevice}
      /\ \A p \in TabQuery : p # q => tabStale'[p] = tabStale[p] /\ tabFailed'[p] = tabFailed[p]
  BY <1>1 DEF TabQueryTypes
<1>4. /\ DOMAIN tabCache' = TabQuery /\ \A p \in TabQuery : DOMAIN tabCache'[p] = TabDevice
      /\ tabCache' = [p \in TabQuery |-> [d \in TabDevice |-> tabCache'[p][d]]]
  BY <1>1, <1>2 DEF TabQueryTypes
<1>5. /\ tabCache'[q][tabDevice] = answer /\ \A d \in TabDevice : d # tabDevice => tabCache'[q][d] = tabCache[q][d]
      /\ \A p \in TabQuery : p # q => tabCache'[p] = tabCache[p]
  BY <1>1, <1>2 DEF TabQueryTypes
<1>6. {"patches", "actions"} \subseteq TabQuery /\ NoTabLoad.stage = "none"
  BY DEF TabQuery, NoTabLoad
<1>7. /\ unseenRow' \subseteq unseenRow /\ unseenRow \subseteq unseenRow' \cup {tabDevice}
      /\ tabDevice \notin unseenRow' =>
            tabDevice \notin unseenRow \/ (q = "actions" /\ answer = waiting[tabDevice])
  BY DEF TabArrives
<1>8. TabServerTypes' /\ TabTypes'
  BY <1>1, <1>7 DEF TabServerTypes, TabTypes, tabServerVars, tabPanelVars, tabAskVars
<1>9. TabQueryTypes'
  <2>1. \A d \in TabDevice : tabCache'.patches[d] \in PatchAnswer \cup {NotAnswered}
    BY <1>2, <1>5, <1>6 DEF TabQueryTypes
  <2>2. tabStale' \in [TabQuery -> SUBSET TabDevice] /\ tabFailed' \in [TabQuery -> SUBSET TabDevice]
    BY <1>1 DEF TabQueryTypes
  <2>3. tabLoad' = [p \in TabQuery |-> tabLoad'[p]]
    BY <1>1 DEF TabQueryTypes
  <2> QED BY <1>1, <1>2, <1>3, <1>4, <1>6, <2>1, <2>2, <2>3 DEF TabQueryTypes
<1>10. TabCallsFine' /\ AskedFine'
  <2>1. \A d \in TabDevice : tabCache.patches[d] # NotAnswered => tabCache'.patches[d] # NotAnswered
    BY <1>2, <1>5, <1>6
  <2> QED BY <1>1, <2>1 DEF TabCallsFine, TabCallFine, AskedFine, InstallFor, tabServerVars, tabAskVars, NoTabCall
<1>11. RowsTrue'
  <2> SUFFICES ASSUME NEW d \in TabDevice, d \notin unseenRow', ~ Changing(d) PROVE RowKnown(d)'
    BY <1>1 DEF RowsTrue, Changing
  <2>1. CASE q = "actions" /\ d = tabDevice
    <3>1. answer = waiting[d]
      BY <1>1, <1>2, <1>7, <2>1 DEF RowsTrue, RowKnown, NoTabLoad
    <3> QED BY <1>1, <1>3, <1>5, <1>6, <2>1, <3>1 DEF RowKnown, tabServerVars
  <2>2. CASE ~ (q = "actions" /\ d = tabDevice)
    <3>1. RowKnown(d)
      BY <1>7, <2>2 DEF RowsTrue
    <3> QED BY <1>1, <1>3, <1>5, <1>6, <2>2, <3>1 DEF RowKnown, tabServerVars, TabQuery
  <2> QED BY <2>1, <2>2
<1>12. ConsoleOwn'
  BY <1>1, <1>2, <1>3, <1>5, <1>6 DEF ConsoleOwn, RunOfDevice, tabServerVars, tabPanelVars, TabQuery
<1>13. EndKnown'
  <2> SUFFICES ASSUME NEW r \in RunId, NEW d \in TabDevice, runs[r].device = d, EndOf(r, d)
               PROVE  runs'[r].device = d /\ EndOf(r, d)'
    BY <1>1, EndGoesOn DEF tabServerVars
  <2>1. runs'[r].device = d /\ runs'[r].over /\ tabCache'.patches[d] # NotAnswered /\ reloads' = reloads
    BY <1>1, <1>2, <1>5, <1>6 DEF EndOf, tabServerVars
  <2>2. ASSUME EndRead(r, d) PROVE EndRead(r, d)'
    <3>1. CASE q = "patches" /\ d = tabDevice
      <4>1. r \in answer.over
        BY <1>1, <2>2, <3>1 DEF EndRead, NoTabLoad
      <4> QED BY <1>1, <1>3, <1>5, <1>6, <3>1, <4>1 DEF EndRead
    <3>2. CASE ~ (q = "patches" /\ d = tabDevice)
      BY <1>1, <1>3, <1>5, <1>6, <2>2, <3>2 DEF EndRead, TabQuery
    <3> QED BY <3>1, <3>2
  <2> QED BY <2>1, <2>2 DEF EndOf
<1> QED BY <1>8, <1>9, <1>10, <1>11, <1>12, <1>13 DEF UpdInv

LEMMA HintStep == ASSUME UpdInv, TabHint PROVE UpdInv'
<1> USE UpdParts
<1>1. /\ tabStale' = [q \in TabQuery |-> TabDevice]
      /\ tabLoad' = [q \in TabQuery |-> IF tabDevice = 0 \/ JoinsTabLoad(q) THEN tabLoad[q] ELSE TabLoading]
      /\ UNCHANGED <<tabServerVars, tabCache, tabFailed, tabPanelVars, tabAskVars, tabCalls, reloads, unseenRow>>
  BY DEF TabHint
<1>2. \A q \in TabQuery :
         /\ tabStale'[q] = TabDevice
         /\ tabLoad'[q] = TabLoading \/ (tabLoad'[q] = tabLoad[q] /\ (tabDevice = 0 \/ JoinsTabLoad(q)))
  BY <1>1
<1>3. TabLoading.stage = "asked" /\ TabLoading # NoTabLoad /\ {"patches", "actions"} \subseteq TabQuery
  BY DEF TabLoading, NoTabLoad, TabQuery
<1>4. TabServerTypes' /\ TabTypes'
  BY <1>1 DEF TabServerTypes, TabTypes, tabServerVars, tabPanelVars, tabAskVars
<1>5. TabQueryTypes'
  <2>1. tabStale' \in [TabQuery -> SUBSET TabDevice] /\ tabLoad' = [q \in TabQuery |-> tabLoad'[q]]
    BY <1>1
  <2>2. tabDevice = 0 => \A q \in TabQuery : tabLoad'[q] = tabLoad[q]
    BY <1>1
  <2> QED BY <1>1, <1>2, <1>3, <2>1, <2>2 DEF TabQueryTypes, tabPanelVars
<1>6. TabCallsFine' /\ AskedFine'
  BY <1>1, TabCallsStay DEF tabServerVars, tabAskVars, tabPanelVars
<1>7. RowsTrue'
  BY <1>1, <1>2, <1>3, TabZero DEF RowsTrue, RowKnown, Changing, JoinsTabLoad, tabServerVars, tabPanelVars
<1>8. ConsoleOwn'
  BY <1>1, <1>2, <1>3 DEF ConsoleOwn, RunOfDevice, tabServerVars, tabPanelVars
<1>9. EndKnown'
  <2> SUFFICES ASSUME NEW r \in RunId, NEW d \in TabDevice, runs[r].device = d, EndOf(r, d)
               PROVE  runs'[r].device = d /\ EndOf(r, d)'
    BY <1>1, EndGoesOn DEF tabPanelVars
  <2> QED BY <1>1, <1>2, <1>3, TabZero DEF EndOf, EndRead, JoinsTabLoad, tabServerVars, tabPanelVars
<1> QED BY <1>4, <1>5, <1>6, <1>7, <1>8, <1>9 DEF UpdInv

LEMMA ReloadStep == ASSUME UpdInv, NEW e \in TabDevice, ReloadDue(e) PROVE UpdInv'
<1> USE UpdParts
<1>1. /\ reloads[e] > 0 /\ reloads' = [reloads EXCEPT ![e] = @ - 1]
      /\ tabStale' = [tabStale EXCEPT !["patches"] = @ \cup {e}]
      /\ tabLoad' = IF e = tabDevice /\ ~ JoinsTabLoad("patches") THEN [tabLoad EXCEPT !["patches"] = TabLoading]
                                                                 ELSE tabLoad
      /\ UNCHANGED <<tabServerVars, tabCache, tabFailed, tabPanelVars, tabAskVars, tabCalls, unseenRow>>
  BY DEF ReloadDue, InvalidatesTab
<1>2. {"patches", "actions"} \subseteq TabQuery
  BY DEF TabQuery
<1>3. /\ tabStale'.patches = tabStale.patches \cup {e} /\ tabStale'.actions = tabStale.actions
      /\ tabLoad'.actions = tabLoad.actions
      /\ \/ tabLoad'.patches = TabLoading
         \/ tabLoad'.patches = tabLoad.patches /\ (e # tabDevice \/ JoinsTabLoad("patches"))
  BY <1>1, <1>2 DEF TabQueryTypes
<1>4. TabLoading.stage = "asked" /\ TabLoading # NoTabLoad
  BY DEF TabLoading, NoTabLoad
<1>5. TabServerTypes' /\ TabTypes'
  <2>1. reloads' \in [TabDevice -> 0 .. 3]
    BY <1>1 DEF TabTypes
  <2> QED BY <1>1, <2>1 DEF TabServerTypes, TabTypes, tabServerVars, tabPanelVars, tabAskVars
<1>6. TabQueryTypes'
  <2>1. tabStale' \in [TabQuery -> SUBSET TabDevice]
    BY <1>1 DEF TabQueryTypes
  <2>2. tabLoad' = [q \in TabQuery |-> tabLoad'[q]]
    BY <1>1 DEF TabQueryTypes
  <2>3. \A q \in TabQuery : tabLoad'[q] = TabLoading \/ tabLoad'[q] = tabLoad[q]
    BY <1>1 DEF TabQueryTypes
  <2>4. tabDevice = 0 => tabLoad' = tabLoad
    BY <1>1, TabZero
  <2> QED BY <1>1, <1>2, <1>4, <2>1, <2>2, <2>3, <2>4 DEF TabQueryTypes, tabPanelVars
<1>7. TabCallsFine' /\ AskedFine'
  BY <1>1, TabCallsStay DEF tabServerVars, tabAskVars, tabPanelVars
<1>8. RowsTrue'
  BY <1>1, <1>3 DEF RowsTrue, RowKnown, Changing, tabServerVars, tabPanelVars
<1>9. ConsoleOwn'
  BY <1>1, <1>3, <1>4 DEF ConsoleOwn, RunOfDevice, tabServerVars, tabPanelVars
<1>10. EndKnown'
  <2> SUFFICES ASSUME NEW r \in RunId, NEW d \in TabDevice, runs[r].device = d, EndOf(r, d)
               PROVE  runs'[r].device = d /\ EndOf(r, d)'
    BY <1>1, EndGoesOn DEF tabPanelVars
  <2>1. runs'[r].device = d /\ runs'[r].over /\ tabCache'.patches[d] # NotAnswered
    BY <1>1 DEF EndOf, tabServerVars
  <2>2. CASE d = e
    <3>1. EndRead(r, d)'
      BY <1>1, <1>3, <1>4, <2>1, <2>2 DEF EndRead, JoinsTabLoad, tabPanelVars
    <3> QED BY <2>1, <3>1 DEF EndOf
  <2>3. CASE d # e
    <3>1. reloads'[d] = reloads[d]
      BY <1>1, <2>3 DEF TabTypes
    <3>2. EndRead(r, d) => EndRead(r, d)'
      BY <1>1, <1>3, <1>4, <2>3 DEF EndRead, tabPanelVars
    <3> QED BY <2>1, <3>1, <3>2 DEF EndOf
  <2> QED BY <2>2, <2>3
<1> QED BY <1>5, <1>6, <1>7, <1>8, <1>9, <1>10 DEF UpdInv

-----------------------------------------------------------------------------
(* Coming and going.                                                       *)

\* Any step that puts the tab on a device.
LEMMA MountStep ==
    ASSUME UpdInv, NEW e \in TabDevice, tabDevice' = e,
           tabLoad' \in [TabQuery -> {NoTabLoad, TabLoading}], \A q \in TabQuery : Observed(q, e),
           UNCHANGED <<tabServerVars, tabCache, tabStale, tabFailed, started, tabAskVars, reloads, unseenRow>>,
           carried' \in BOOLEAN, carried => carried', started # 0 => carried', toldRun' \in {0, toldRun},
           tabCalls' \in [TabSlot -> TabCallRow],
           \A c \in TabSlot : \/ tabCalls'[c] = tabCalls[c]
                              \/ tabCalls[c].mine /\ tabCalls'[c] = [tabCalls[c] EXCEPT !.via = e]
    PROVE  UpdInv'
<1> USE UpdParts
<1>1. {"patches", "actions"} \subseteq TabQuery /\ TabLoading.stage = "asked" /\ TabLoading # NoTabLoad
      /\ NoTabLoad.stage = "none" /\ ~ NoTabCall.mine
  BY DEF TabLoading, NoTabLoad, TabQuery, NoTabCall
<1>2. \A q \in TabQuery : \/ tabLoad'[q] = TabLoading
                          \/ tabLoad'[q] = NoTabLoad /\ tabCache[q][e] # NotAnswered /\ e \notin tabStale[q]
  BY DEF Observed
<1>3. \A c \in TabSlot : /\ tabCalls'[c].kind = tabCalls[c].kind /\ tabCalls'[c].device = tabCalls[c].device
                         /\ tabCalls'[c].whole = tabCalls[c].whole /\ tabCalls'[c].run = tabCalls[c].run
                         /\ tabCalls'[c].stage = tabCalls[c].stage /\ tabCalls'[c].via \in {tabCalls[c].via, e}
  BY <1>1 DEF TabTypes, TabCallRow
<1>4. TabServerTypes' /\ TabTypes'
  BY DEF TabServerTypes, TabTypes, tabServerVars, tabAskVars
<1>5. TabQueryTypes'
  BY <1>1, <1>2, TabZero DEF TabQueryTypes
<1>6. TabCallsFine' /\ AskedFine'
  BY <1>3 DEF TabCallsFine, TabCallFine, AskedFine, InstallFor, tabServerVars, tabAskVars
<1>7. RowsTrue'
  <2>1. \A d \in TabDevice : RowKnown(d) => RowKnown(d)'
    BY <1>1, <1>2 DEF RowKnown, tabServerVars
  <2>2. \A d \in TabDevice : Changing(d) => Changing(d)'
    BY <1>3 DEF Changing
  <2> QED BY <2>1, <2>2 DEF RowsTrue
<1>8. ConsoleOwn'
  BY <1>1, <1>2 DEF ConsoleOwn, RunOfDevice, tabServerVars
<1>9. EndKnown'
  <2> SUFFICES ASSUME NEW r \in RunId, NEW d \in TabDevice, runs[r].device = d, EndOf(r, d)
               PROVE  runs'[r].device = d /\ EndOf(r, d)'
    BY EndGoesOn
  <2>1. EndRead(r, d) => EndRead(r, d)'
    BY <1>1, <1>2 DEF EndRead
  <2> QED BY <2>1 DEF EndOf, tabServerVars
<1> QED BY <1>4, <1>5, <1>6, <1>7, <1>8, <1>9 DEF UpdInv

LEMMA ShowStep == ASSUME UpdInv, NEW e \in TabDevice, ShowTab(e) PROVE UpdInv'
<1> USE UpdParts
<1>1. started # 0 => carried
  <2>1. tabDevice = 0
    BY DEF ShowTab
  <2> QED BY <2>1 DEF ConsoleOwn, TabTypes
<1>2. tabCalls' = tabCalls /\ tabCalls \in [TabSlot -> TabCallRow] /\ carried' = carried /\ carried \in BOOLEAN
  BY DEF ShowTab, TabTypes
<1> QED BY <1>1, <1>2, MountStep DEF ShowTab

LEMMA SwitchStep == ASSUME UpdInv, NEW e \in TabDevice, SwitchTab(e) PROVE UpdInv'
<1> USE UpdParts
<1>1. tabCalls' = [c \in TabSlot |-> IF tabCalls[c].mine THEN [tabCalls[c] EXCEPT !.via = e] ELSE tabCalls[c]]
  BY DEF SwitchTab
<1>2. tabCalls' \in [TabSlot -> TabCallRow]
  <2>1. \A c \in TabSlot : tabCalls[c] \in TabCallRow /\ [tabCalls[c] EXCEPT !.via = e] \in TabCallRow
    BY DEF TabTypes, TabCallRow
  <2> QED BY <1>1, <2>1
<1>3. carried' = (carried \/ started # 0) /\ carried \in BOOLEAN
  BY DEF SwitchTab, TabTypes
<1>4. toldRun' \in {0, toldRun}
  BY DEF SwitchTab, ConsoleStays
<1> QED BY <1>1, <1>2, <1>3, <1>4, MountStep DEF SwitchTab

LEMMA LeaveStep == ASSUME UpdInv, LeaveTab PROVE UpdInv'
<1> USE UpdParts
<1>1. /\ tabDevice' = 0 /\ started' = 0 /\ carried' = FALSE /\ toldRun' = 0 /\ tabQuestion' = NoInstallAsk
      /\ tabLoad' = [q \in TabQuery |-> NoTabLoad]
      /\ tabCalls' = [c \in TabSlot |-> [tabCalls[c] EXCEPT !.mine = FALSE]]
      /\ UNCHANGED <<tabServerVars, tabCache, tabStale, tabFailed, consented, reloads, unseenRow>>
  BY DEF LeaveTab
<1>2. {"patches", "actions"} \subseteq TabQuery /\ NoTabLoad.stage = "none"
  BY DEF NoTabLoad, TabQuery
<1>3. tabCalls' \in [TabSlot -> TabCallRow]
  <2>1. \A c \in TabSlot : tabCalls[c] \in TabCallRow /\ [tabCalls[c] EXCEPT !.mine = FALSE] \in TabCallRow
    BY DEF TabTypes, TabCallRow
  <2> QED BY <1>1, <2>1
<1>4. \A c \in TabSlot : /\ tabCalls'[c].kind = tabCalls[c].kind /\ tabCalls'[c].device = tabCalls[c].device
                         /\ tabCalls'[c].whole = tabCalls[c].whole /\ tabCalls'[c].run = tabCalls[c].run
                         /\ tabCalls'[c].stage = tabCalls[c].stage /\ tabCalls'[c].via = tabCalls[c].via
  BY <1>1 DEF TabTypes, TabCallRow
<1>6. TabServerTypes' /\ TabTypes'
  <2>1. NoInstallAsk \in [device: TabDevice \cup {0}, whole: BOOLEAN]
    BY DEF NoInstallAsk
  <2> QED BY <1>1, <1>3, <2>1 DEF TabServerTypes, TabTypes, tabServerVars
<1>7. TabQueryTypes'
  BY <1>1, <1>2 DEF TabQueryTypes
<1>8. TabCallsFine' /\ AskedFine'
  BY <1>1, <1>4 DEF TabCallsFine, TabCallFine, AskedFine, InstallFor, tabServerVars
<1>9. RowsTrue'
  <2>1. \A d \in TabDevice : Changing(d) => Changing(d)'
    BY <1>4 DEF Changing
  <2> QED BY <1>1, <2>1, TabZero DEF RowsTrue, RowKnown, tabServerVars
<1>10. ConsoleOwn' /\ EndKnown'
  BY <1>1, <1>2 DEF ConsoleOwn, RunOfDevice, EndKnown, tabServerVars
<1> QED BY <1>6, <1>7, <1>8, <1>9, <1>10 DEF UpdInv

-----------------------------------------------------------------------------
(* The user's requests.                                                    *)

LEMMA FreeTabSlot ==
    ASSUME FreeTabSlots # {}
    PROVE  (CHOOSE c \in FreeTabSlots : \A e \in FreeTabSlots : c <= e) \in FreeTabSlots
<1>1. FreeTabSlots \subseteq Nat
  BY TabAssumption DEF FreeTabSlots, TabSlot
<1>2. \E c \in FreeTabSlots : \A e \in FreeTabSlots : c <= e
  BY <1>1, LeastOf
<1> QED BY <1>2

LEMMA RequestStep ==
    ASSUME UpdInv, NEW kind \in {"install", "scan", "queue", "cancel"}, NEW d \in TabDevice,
           NEW whole \in BOOLEAN, Requests(kind, d, whole), tabDevice \in TabDevice,
           kind = "install" => <<d, whole>> \in consented' /\ tabCache.patches[d] # NotAnswered,
           consented \subseteq consented', tabQuestion' \in {tabQuestion, NoInstallAsk}
    PROVE  UpdInv'
<1> USE UpdParts
<1> DEFINE call == [kind |-> kind, device |-> d, whole |-> whole, run |-> 0, mine |-> TRUE,
                    via |-> tabDevice, stage |-> "sent"]
<1>1. PICK c \in FreeTabSlots : tabCalls' = [tabCalls EXCEPT ![c] = call]
  BY FreeTabSlot DEF Requests
<1>2. call \in TabCallRow /\ call.kind = kind /\ call.device = d /\ call.whole = whole /\ call.stage = "sent"
      /\ call.via = tabDevice
  BY DEF TabCallRow, TabTypes
<1> HIDE DEF call
<1>3. /\ c \in TabSlot /\ tabCalls[c] = NoTabCall /\ tabCalls'[c] = call
      /\ \A e \in TabSlot : e # c => tabCalls'[e] = tabCalls[e]
  BY <1>1 DEF FreeTabSlots, TabTypes
<1>4. UNCHANGED <<tabServerVars, tabQueryVars, tabPanelVars, reloads, unseenRow>>
  BY DEF Requests
<1>5. TabServerTypes' /\ TabQueryTypes'
  BY <1>4 DEF TabServerTypes, TabQueryTypes, tabServerVars, tabQueryVars, tabPanelVars
<1>6. TabTypes'
  <2>1. NoInstallAsk \in [device: TabDevice \cup {0}, whole: BOOLEAN]
    BY DEF NoInstallAsk
  <2>2. tabCalls' \in [TabSlot -> TabCallRow]
    BY <1>1, <1>2 DEF TabTypes
  <2>3. tabQuestion' \in [device: TabDevice \cup {0}, whole: BOOLEAN]
    BY <2>1 DEF TabTypes
  <2> QED BY <1>4, <2>2, <2>3 DEF TabTypes, tabPanelVars
<1>7. TabCallsFine'
  <2> SUFFICES ASSUME NEW e \in TabSlot PROVE TabCallFine(tabCalls[e])'
    BY DEF TabCallsFine
  <2>1. CASE e = c
    BY <1>2, <1>3, <1>4, <2>1 DEF TabCallFine, InstallFor, tabQueryVars
  <2>2. CASE e # c
    <3>1. TabCallFine(tabCalls[e]) /\ tabCalls'[e] = tabCalls[e]
      BY <1>3, <2>2 DEF TabCallsFine
    <3> QED BY <1>4, <3>1 DEF TabCallFine, InstallFor, tabQueryVars, tabServerVars
  <2> QED BY <2>1, <2>2
<1>8. AskedFine'
  BY <1>4 DEF AskedFine, tabQueryVars, tabPanelVars
<1>9. RowsTrue'
  <2>1. \A x \in TabDevice : Changing(x) => Changing(x)'
    BY <1>3 DEF Changing, NoTabCall
  <2> QED BY <1>4, <2>1, RowsStay DEF tabServerVars, tabQueryVars, tabPanelVars
<1>10. ConsoleOwn' /\ EndKnown'
  BY <1>4, ConsoleStaysOwn, EndStays DEF tabServerVars, tabQueryVars, tabPanelVars
<1> QED BY <1>5, <1>6, <1>7, <1>8, <1>9, <1>10 DEF UpdInv

LEMMA AskStep ==
    ASSUME UpdInv, UNCHANGED <<tabServerVars, tabQueryVars, tabPanelVars, consented, tabCalls, reloads, unseenRow>>,
           \/ tabQuestion' \in {tabQuestion, NoInstallAsk}
           \/ /\ tabDevice \in TabDevice /\ tabCache.patches[tabDevice] # NotAnswered
              /\ \E whole \in BOOLEAN : tabQuestion' = [device |-> tabDevice, whole |-> whole]
    PROVE  UpdInv'
<1> USE UpdParts
<1> USE DEF tabServerVars, tabQueryVars, tabPanelVars
<1>1. TabServerTypes' /\ TabQueryTypes'
  BY DEF TabServerTypes, TabQueryTypes
<1>2. tabQuestion' \in [device: TabDevice \cup {0}, whole: BOOLEAN]
  <2>1. NoInstallAsk \in [device: TabDevice \cup {0}, whole: BOOLEAN]
    BY DEF NoInstallAsk
  <2>2. tabQuestion \in [device: TabDevice \cup {0}, whole: BOOLEAN]
    BY DEF TabTypes
  <2> QED BY <2>1, <2>2
<1>3. TabTypes'
  BY <1>2 DEF TabTypes
<1>4. TabCallsFine' /\ AskedFine'
  BY DEF TabCallsFine, TabCallFine, AskedFine, InstallFor
<1>5. RowsTrue'
  BY RowsStay DEF Changing
<1>6. ConsoleOwn' /\ EndKnown'
  BY ConsoleStaysOwn, EndStays
<1> QED BY <1>1, <1>3, <1>4, <1>5, <1>6 DEF UpdInv

LEMMA UserSteps ==
    ASSUME UpdInv,
           \/ ScanTab \/ InstallNow \/ InstallNotNow \/ Withdraw
           \/ \E whole \in Scopes : AskInstallNow(whole) \/ QueueInstall(whole)
    PROVE  UpdInv'
<1> USE UpdParts
<1>1. UnaskedTab => tabDevice \in TabDevice
  BY DEF UnaskedTab, TabTypes
<1>2. ASSUME ScanTab PROVE UpdInv'
  BY <1>1, <1>2, RequestStep DEF ScanTab, tabAskVars
<1>3. ASSUME NEW whole \in Scopes, QueueInstall(whole) PROVE UpdInv'
  BY <1>1, <1>3, RequestStep, TabAssumption DEF QueueInstall, tabAskVars
<1>4. ASSUME Withdraw PROVE UpdInv'
  BY <1>1, <1>4, RequestStep DEF Withdraw, tabAskVars
<1>5. ASSUME NEW whole \in Scopes, AskInstallNow(whole) PROVE UpdInv'
  <2>1. whole \in BOOLEAN
    BY TabAssumption
  <2> QED BY <1>1, <1>5, <2>1, AskStep DEF AskInstallNow
<1>6. ASSUME InstallNotNow PROVE UpdInv'
  BY <1>6, AskStep DEF InstallNotNow
<1>7. ASSUME InstallNow PROVE UpdInv'
  <2>1. {tabDevice, tabQuestion.device} \subseteq TabDevice /\ tabQuestion.whole \in BOOLEAN
        /\ tabCache.patches[tabQuestion.device] # NotAnswered
    BY <1>7 DEF InstallNow, AskedFine, TabTypes
  <2> QED BY <1>7, <2>1, RequestStep DEF InstallNow, DeviceAsked
<1> QED BY <1>2, <1>3, <1>4, <1>5, <1>6, <1>7

-----------------------------------------------------------------------------
(* The server.                                                             *)

LEMMA NewRunUnused ==
    ASSUME UnusedRuns # {}
    PROVE  NewRun \in RunId /\ runs[NewRun] = NoInstall
<1>1. UnusedRuns \subseteq Nat
  BY TabAssumption DEF UnusedRuns, RunId
<1>2. \E r \in UnusedRuns : \A s \in UnusedRuns : r <= s
  BY <1>1, LeastOf
<1> QED BY <1>2 DEF NewRun, UnusedRuns

\* A run begins, or ends.
LEMMA StartKeeps ==
    ASSUME TabServerTypes, NEW d \in TabDevice, NEW over \in BOOLEAN, Starts(d, over)
    PROVE  /\ RunsKept /\ runs' \in [RunId -> [device: TabDevice \cup {0}, over: BOOLEAN]]
           /\ NewRun \in RunId /\ runs'[NewRun].device = d
<1>1. /\ NewRun \in RunId /\ runs[NewRun] = NoInstall
      /\ runs' = [runs EXCEPT ![NewRun] = [device |-> d, over |-> over]]
  BY NewRunUnused DEF Starts
<1> QED BY <1>1 DEF RunsKept, TabServerTypes, NoInstall

LEMMA EndKeeps ==
    ASSUME TabServerTypes, NEW r \in RunId, InstallEnds(r)
    PROVE  RunsKept /\ runs' \in [RunId -> [device: TabDevice \cup {0}, over: BOOLEAN]]
BY DEF RunsKept, TabServerTypes, InstallEnds

\* A step of the server that changes the rows of the devices in U only.
LEMMA ServerStep ==
    ASSUME UpdInv, TabServerTypes', RunsKept,
           NEW U \in SUBSET TabDevice, \A d \in TabDevice \ U : waiting'[d] = waiting[d],
           \A d \in U : d \in unseenRow' \/ Changing(d)',
           \A d \in TabDevice : Changing(d) => Changing(d)',
           unseenRow \subseteq unseenRow', unseenRow' \subseteq TabDevice,
           UNCHANGED <<tabQueryVars, tabPanelVars, tabAskVars, reloads>>,
           tabCalls' \in [TabSlot -> TabCallRow],
           \A c \in TabSlot :
              \/ tabCalls'[c] = tabCalls[c]
              \/ /\ tabCalls[c].stage # "none"
                 /\ tabCalls'[c].kind = tabCalls[c].kind /\ tabCalls'[c].device = tabCalls[c].device
                 /\ tabCalls'[c].whole = tabCalls[c].whole /\ tabCalls'[c].via = tabCalls[c].via
                 /\ tabCalls[c].kind = "install" /\ tabCalls'[c].stage = "done" =>
                       tabCalls'[c].run \in RunId /\ runs'[tabCalls'[c].run].device = tabCalls[c].device
    PROVE  UpdInv'
<1> USE UpdParts
<1> USE DEF tabQueryVars, tabPanelVars, tabAskVars
<1>1. TabQueryTypes' /\ TabTypes'
  BY DEF TabQueryTypes, TabTypes
<1>2. \A r \in RunId : \A d \in TabDevice : runs[r].device = d =>
         runs'[r].device = d /\ (runs[r].over => runs'[r].over)
  BY TabZero DEF RunsKept
<1>3. TabCallsFine'
  <2> SUFFICES ASSUME NEW c \in TabSlot PROVE TabCallFine(tabCalls[c])'
    BY DEF TabCallsFine
  <2>1. TabCallFine(tabCalls[c]) /\ tabCalls[c] \in TabCallRow
    BY DEF TabCallsFine, TabTypes
  <2>2. CASE tabCalls'[c] = tabCalls[c]
    <3>1. tabCalls[c].kind = "install" /\ tabCalls[c].stage = "done" =>
             tabCalls[c].run \in RunId /\ tabCalls[c].device \in TabDevice
      BY <2>1 DEF TabCallFine, TabCallRow
    <3> QED BY <1>2, <2>1, <2>2, <3>1 DEF TabCallFine, InstallFor
  <2>3. CASE tabCalls'[c] # tabCalls[c]
    BY <2>1, <2>3, TabZero DEF TabCallFine, InstallFor
  <2> QED BY <2>2, <2>3
<1>4. AskedFine'
  BY DEF AskedFine
<1>5. RowsTrue'
  BY DEF RowsTrue, RowKnown
<1>6. ConsoleOwn'
  <2>1. \A d \in TabDevice : tabCache.patches[d] # NotAnswered /\ tabCache.patches[d].run # 0 =>
           runs'[tabCache.patches[d].run].device = d
    <3> SUFFICES ASSUME NEW d \in TabDevice, tabCache.patches[d] # NotAnswered, tabCache.patches[d].run # 0
                 PROVE  runs'[tabCache.patches[d].run].device = d
      OBVIOUS
    <3>1. tabCache.patches[d].run \in RunId /\ runs[tabCache.patches[d].run].device = d
      BY DEF TabQueryTypes, PatchAnswer, ConsoleOwn, RunOfDevice
    <3> QED BY <1>2, <3>1
  <2>2. tabLoad.patches.stage = "answered" /\ tabLoad.patches.answer.run # 0 =>
           runs'[tabLoad.patches.answer.run].device = tabDevice
    <3> SUFFICES ASSUME tabLoad.patches.stage = "answered", tabLoad.patches.answer.run # 0
                 PROVE  runs'[tabLoad.patches.answer.run].device = tabDevice
      OBVIOUS
    <3>1. tabLoad.patches.answer.run \in RunId /\ runs[tabLoad.patches.answer.run].device = tabDevice
      BY DEF TabQueryTypes, PatchAnswer, ConsoleOwn, RunOfDevice
    <3>2. tabDevice \in TabDevice
      BY DEF TabQueryTypes, TabTypes, NoTabLoad, TabQuery
    <3> QED BY <1>2, <3>1, <3>2
  <2>3. started # 0 /\ ~ carried => tabDevice # 0 /\ runs'[started].device = tabDevice
    <3> SUFFICES ASSUME started # 0, ~ carried PROVE tabDevice # 0 /\ runs'[started].device = tabDevice
      OBVIOUS
    <3>1. started \in RunId /\ tabDevice \in TabDevice /\ runs[started].device = tabDevice
      BY DEF ConsoleOwn, TabTypes
    <3> QED BY <1>2, <3>1, TabZero
  <2> QED BY <2>1, <2>2, <2>3 DEF ConsoleOwn, RunOfDevice
<1>7. EndKnown'
  <2> SUFFICES ASSUME NEW r \in RunId, NEW d \in TabDevice, runs[r].device = d, EndOf(r, d)
               PROVE  runs'[r].device = d /\ EndOf(r, d)'
    BY EndGoesOn
  <2> QED BY <1>2 DEF EndOf, EndRead
<1> QED BY <1>1, <1>3, <1>4, <1>5, <1>6, <1>7 DEF UpdInv

LEMMA BehindSteps ==
    ASSUME UpdInv, NEW d \in TabDevice,
           OtherInstalls(d) \/ RowRuns(d) \/ \E whole \in BOOLEAN : OtherQueues(d, whole)
    PROVE  UpdInv'
<1> USE UpdParts
<1>1. /\ unseenRow' = unseenRow \cup {d} /\ UNCHANGED <<tabQueryVars, tabPanelVars, tabAskVars, tabCalls, reloads>>
      /\ Starts(d, FALSE) \/ UNCHANGED runs
      /\ UNCHANGED waiting \/ \E state \in {"pending", "dispatched"}, whole \in BOOLEAN :
                                 waiting' = [waiting EXCEPT ![d] = [state |-> state, whole |-> whole]]
  <2>1. ASSUME NEW whole \in BOOLEAN PROVE Merged(d, whole) \in BOOLEAN /\ waiting[d].whole \in BOOLEAN
    BY DEF Merged, TabServerTypes, WaitingRow
  <2> QED BY <2>1 DEF OtherInstalls, RowRuns, OtherQueues, Behind, RowIs
<1>2. RunsKept /\ runs' \in [RunId -> [device: TabDevice \cup {0}, over: BOOLEAN]]
  BY <1>1, StartKeeps DEF TabServerTypes, RunsKept
<1>3. waiting' \in [TabDevice -> WaitingRow] /\ \A e \in TabDevice \ {d} : waiting'[e] = waiting[e]
  BY <1>1 DEF TabServerTypes, WaitingRow
<1>4. TabServerTypes'
  BY <1>2, <1>3 DEF TabServerTypes
<1>5. \A e \in TabDevice : Changing(e) => Changing(e)'
  BY <1>1 DEF Changing
<1>6. {d} \in SUBSET TabDevice /\ unseenRow' \subseteq TabDevice /\ d \in unseenRow' /\ unseenRow \subseteq unseenRow'
      /\ tabCalls' = tabCalls /\ tabCalls' \in [TabSlot -> TabCallRow]
  BY <1>1 DEF TabTypes
<1> QED BY <1>1, <1>2, <1>3, <1>4, <1>5, <1>6, ServerStep

LEMMA RunEndsStep == ASSUME UpdInv, NEW r \in RunId, InstallEnds(r) PROVE UpdInv'
<1> USE UpdParts
<1> DEFINE d == runs[r].device
<1>1. d \in TabDevice
  <2>1. runs[r] \in [device: TabDevice \cup {0}, over: BOOLEAN] /\ runs[r] # NoInstall /\ ~ runs[r].over
    BY DEF InstallEnds, TabServerTypes
  <2>2. runs[r] = [device |-> runs[r].device, over |-> runs[r].over]
    BY <2>1
  <2> QED BY <2>1, <2>2 DEF NoInstall
<1>2. /\ unseenRow' = unseenRow \cup {d} /\ UNCHANGED <<tabQueryVars, tabPanelVars, tabAskVars, tabCalls, reloads>>
      /\ UNCHANGED waiting \/ waiting' = [waiting EXCEPT ![d] = [state |-> "closed", whole |-> waiting[d].whole]]
  BY DEF InstallEnds, Behind, RowIs
<1> HIDE DEF d
<1>3. RunsKept /\ runs' \in [RunId -> [device: TabDevice \cup {0}, over: BOOLEAN]]
  BY EndKeeps
<1>4. waiting' \in [TabDevice -> WaitingRow] /\ \A e \in TabDevice \ {d} : waiting'[e] = waiting[e]
  BY <1>1, <1>2 DEF TabServerTypes, WaitingRow
<1>5. TabServerTypes'
  BY <1>3, <1>4 DEF TabServerTypes
<1>6. \A e \in TabDevice : Changing(e) => Changing(e)'
  BY <1>2 DEF Changing
<1>7. {d} \in SUBSET TabDevice /\ unseenRow' \subseteq TabDevice /\ d \in unseenRow' /\ unseenRow \subseteq unseenRow'
      /\ tabCalls' = tabCalls /\ tabCalls' \in [TabSlot -> TabCallRow]
  BY <1>1, <1>2 DEF TabTypes
<1> QED BY <1>2, <1>3, <1>4, <1>5, <1>6, <1>7, ServerStep

LEMMA ServedAs ==
    ASSUME UpdInv, NEW c \in TabSlot, tabCalls[c].stage = "sent",
           NEW stage \in {"done", "refused"}, NEW began \in RunId \cup {0}, Served(c, stage, began),
           UNCHANGED runs \/ \E over \in BOOLEAN : Starts(tabCalls[c].device, over),
           \/ UNCHANGED waiting
           \/ /\ stage = "done" /\ tabCalls[c].kind \in {"queue", "cancel"}
              /\ \E state \in {"pending", "dispatched", "cancelled"}, whole \in BOOLEAN :
                    RowIs(tabCalls[c].device, state, whole),
           tabCalls[c].kind = "install" /\ stage = "done" =>
              began = NewRun /\ \E over \in BOOLEAN : Starts(tabCalls[c].device, over),
           UNCHANGED <<tabQueryVars, tabPanelVars, tabAskVars, reloads, unseenRow>>
    PROVE  UpdInv'
<1> USE UpdParts
<1> DEFINE d == tabCalls[c].device
<1>1. tabCalls[c] \in TabCallRow /\ d \in TabDevice
  BY DEF TabTypes, TabCallsFine, TabCallFine
<1>2. RunsKept /\ runs' \in [RunId -> [device: TabDevice \cup {0}, over: BOOLEAN]]
  BY <1>1, StartKeeps DEF TabServerTypes, RunsKept
<1>3. waiting' \in [TabDevice -> WaitingRow] /\ \A e \in TabDevice \ {d} : waiting'[e] = waiting[e]
  <2>1. CASE UNCHANGED waiting
    BY <2>1 DEF TabServerTypes
  <2>2. ASSUME NEW state \in {"pending", "dispatched", "cancelled"}, NEW whole \in BOOLEAN, RowIs(d, state, whole)
        PROVE  waiting' \in [TabDevice -> WaitingRow] /\ \A e \in TabDevice \ {d} : waiting'[e] = waiting[e]
    <3>1. [state |-> state, whole |-> whole] \in WaitingRow
      BY DEF WaitingRow
    <3> QED BY <1>1, <2>2, <3>1 DEF RowIs, TabServerTypes
  <2> QED BY <2>1, <2>2
<1>4. TabServerTypes'
  BY <1>2, <1>3 DEF TabServerTypes
<1>5. tabCalls' = [tabCalls EXCEPT ![c] = [tabCalls[c] EXCEPT !.stage = stage, !.run = began]]
  BY <1>1 DEF Served, TabTypes
<1>6. [tabCalls[c] EXCEPT !.stage = stage, !.run = began] \in TabCallRow
  BY <1>1 DEF TabCallRow
<1>7. tabCalls' \in [TabSlot -> TabCallRow]
  BY <1>5, <1>6 DEF TabTypes
<1>8. /\ tabCalls'[c].kind = tabCalls[c].kind /\ tabCalls'[c].device = d /\ tabCalls'[c].whole = tabCalls[c].whole
      /\ tabCalls'[c].stage = stage /\ tabCalls'[c].run = began /\ tabCalls'[c].via = tabCalls[c].via
      /\ \A e \in TabSlot : e # c => tabCalls'[e] = tabCalls[e]
  BY <1>1, <1>5 DEF TabTypes, TabCallRow
<1>9. \A e \in TabDevice : Changing(e) => Changing(e)'
  BY <1>8 DEF Changing
<1>10. tabCalls[c].kind = "install" /\ stage = "done" => began \in RunId /\ runs'[began].device = d
  BY <1>1, StartKeeps
<1>11. CASE UNCHANGED waiting
  <2>1. {} \in SUBSET TabDevice /\ unseenRow' \subseteq TabDevice
    BY DEF TabTypes
  <2> QED BY <1>2, <1>4, <1>7, <1>8, <1>9, <1>10, <1>11, <2>1, ServerStep
<1>12. CASE stage = "done" /\ tabCalls[c].kind \in {"queue", "cancel"}
  <2>1. {d} \in SUBSET TabDevice /\ unseenRow' \subseteq TabDevice
    BY <1>1 DEF TabTypes
  <2>2. Changing(d)'
    BY <1>8, <1>12 DEF Changing
  <2> QED BY <1>2, <1>3, <1>4, <1>7, <1>8, <1>9, <1>10, <2>1, <2>2, ServerStep
<1> QED BY <1>11, <1>12

LEMMA RequestServedStep == ASSUME UpdInv, NEW c \in TabSlot, TabCallServed(c) PROVE UpdInv'
<1> USE UpdParts
<1> DEFINE d == tabCalls[c].device
<1>1. /\ tabCalls[c].stage = "sent" /\ d \in TabDevice
      /\ UNCHANGED <<tabQueryVars, tabPanelVars, tabAskVars, reloads, unseenRow>>
  BY DEF TabCallServed, TabCallsFine, TabCallFine
<1>2. Merged(d, tabCalls[c].whole) \in BOOLEAN /\ waiting[d].whole \in BOOLEAN
  BY <1>1 DEF Merged, TabServerTypes, WaitingRow, TabCallRow, TabTypes
<1>3. ASSUME tabCalls[c].kind = "scan", Served(c, "done", 0), UNCHANGED tabServerVars PROVE UpdInv'
  BY <1>1, <1>3, ServedAs DEF tabServerVars
<1>4. ASSUME tabCalls[c].kind = "install", NEW over \in BOOLEAN, Starts(d, over), Served(c, "done", NewRun),
             UNCHANGED waiting
      PROVE  UpdInv'
  <2>1. NewRun \in RunId
    BY <1>4, NewRunUnused DEF Starts
  <2> QED BY <1>1, <1>4, <2>1, ServedAs
<1>5. ASSUME tabCalls[c].kind = "queue", Served(c, "done", 0),
             \/ RowIs(d, "pending", Merged(d, tabCalls[c].whole)) /\ UNCHANGED runs
             \/ Starts(d, FALSE) /\ RowIs(d, "dispatched", Merged(d, tabCalls[c].whole))
      PROVE  UpdInv'
  BY <1>1, <1>2, <1>5, ServedAs
<1>6. ASSUME tabCalls[c].kind = "cancel", Served(c, "done", 0), RowIs(d, "cancelled", waiting[d].whole),
             UNCHANGED runs
      PROVE  UpdInv'
  BY <1>1, <1>2, <1>6, ServedAs
<1>7. ASSUME Served(c, "refused", 0), UNCHANGED tabServerVars PROVE UpdInv'
  BY <1>1, <1>7, ServedAs DEF tabServerVars
<1> QED BY <1>3, <1>4, <1>5, <1>6, <1>7 DEF TabCallServed

-----------------------------------------------------------------------------
(* The answers, and the console's end.                                     *)

\* A request is over: what it was about is known, if it is not the request
\* itself that is going to tell.
LEMMA OverKeeps ==
    ASSUME UpdInv, NEW c \in TabSlot, tabCalls' = [tabCalls EXCEPT ![c] = NoTabCall]
    PROVE  /\ tabCalls' \in [TabSlot -> TabCallRow]
           /\ \A d \in TabDevice : \/ Changing(d) => Changing(d)'
                                   \/ /\ tabCalls[c].stage = "done" /\ tabCalls[c].kind \in {"queue", "cancel"}
                                      /\ d = tabCalls[c].device
           /\ UNCHANGED <<runs, tabCache, consented, tabQuestion, tabDevice>> => TabCallsFine' /\ AskedFine'
<1> USE UpdParts
<1>1. NoTabCall \in TabCallRow /\ NoTabCall.stage = "none" /\ NoTabCall.kind = "none"
  BY DEF NoTabCall, TabCallRow
<1>2. tabCalls' \in [TabSlot -> TabCallRow]
  BY <1>1 DEF TabTypes
<1>3. tabCalls'[c] = NoTabCall /\ \A e \in TabSlot : e # c => tabCalls'[e] = tabCalls[e]
  BY DEF TabTypes
<1>4. \A d \in TabDevice : \/ Changing(d) => Changing(d)'
                           \/ /\ tabCalls[c].stage = "done" /\ tabCalls[c].kind \in {"queue", "cancel"}
                              /\ d = tabCalls[c].device
  BY <1>3 DEF Changing
<1>5. UNCHANGED <<runs, tabCache, consented, tabQuestion, tabDevice>> => TabCallsFine' /\ AskedFine'
  BY <1>1, <1>3 DEF TabCallsFine, TabCallFine, AskedFine, InstallFor
<1> QED BY <1>2, <1>4, <1>5

LEMMA TabFailsStep == ASSUME UpdInv, NEW c \in TabSlot, TabCallFails(c) PROVE UpdInv'
<1> USE UpdParts
<1>1. /\ tabCalls' = [tabCalls EXCEPT ![c] = NoTabCall] /\ tabCalls[c].stage \in {"done", "refused"}
      /\ UNCHANGED <<tabServerVars, tabQueryVars, tabPanelVars, tabAskVars, reloads>>
      /\ unseenRow \subseteq unseenRow' /\ unseenRow' \subseteq unseenRow \cup {tabCalls[c].device}
      /\ tabCalls[c].stage = "done" => tabCalls[c].device \in unseenRow'
  BY DEF TabCallFails
<1> USE DEF tabServerVars, tabQueryVars, tabPanelVars, tabAskVars
<1>2. tabCalls[c].device \in TabDevice
  BY <1>1 DEF TabCallsFine, TabCallFine
<1>3. TabServerTypes' /\ TabQueryTypes'
  BY <1>1 DEF TabServerTypes, TabQueryTypes
<1>4. TabTypes'
  BY <1>1, <1>2, OverKeeps DEF TabTypes
<1>5. TabCallsFine' /\ AskedFine'
  BY <1>1, OverKeeps
<1>6. RowsTrue'
  <2>1. \A d \in TabDevice : Changing(d) => Changing(d)' \/ d \in unseenRow'
    BY <1>1, OverKeeps
  <2> QED BY <1>1, <2>1, RowsStay
<1>7. ConsoleOwn' /\ EndKnown'
  BY <1>1, ConsoleStaysOwn, EndStays
<1> QED BY <1>3, <1>4, <1>5, <1>6, <1>7 DEF UpdInv

LEMMA InstallDoneStep ==
    ASSUME UpdInv, NEW c \in TabSlot, TabCallDone(c), tabCalls[c].kind = "install"
    PROVE  UpdInv'
<1> USE UpdParts
<1> DEFINE call == tabCalls[c]
<1>1. /\ call.stage = "done" /\ tabCalls' = [tabCalls EXCEPT ![c] = NoTabCall]
      /\ UNCHANGED <<tabServerVars, tabDevice, tabAskVars, tabQueryVars, reloads, unseenRow>>
      /\ started' = (IF call.mine THEN call.run ELSE started)
      /\ carried' = (carried \/ (call.mine /\ call.device # tabDevice))
      /\ toldRun' \in {0, toldRun}
  BY DEF TabCallDone, ConsoleStays
<1> USE DEF tabServerVars, tabQueryVars, tabAskVars
<1>2. /\ call \in TabCallRow /\ call.device \in TabDevice /\ call.run \in RunId
      /\ runs[call.run].device = call.device /\ tabCache.patches[call.device] # NotAnswered
  BY <1>1 DEF TabTypes, TabCallRow, TabCallsFine, TabCallFine, InstallFor
<1>3. carried' \in BOOLEAN /\ started' \in RunId \cup {0}
  BY <1>1, <1>2 DEF TabTypes
<1>4. TabServerTypes' /\ TabQueryTypes'
  BY <1>1 DEF TabServerTypes, TabQueryTypes
<1>5. TabTypes'
  BY <1>1, <1>3, OverKeeps DEF TabTypes
<1>6. TabCallsFine' /\ AskedFine'
  BY <1>1, OverKeeps
<1>7. RowsTrue'
  <2>1. \A d \in TabDevice : Changing(d) => Changing(d)'
    BY <1>1, OverKeeps
  <2> QED BY <1>1, <2>1, RowsStay
<1>8. ConsoleOwn'
  <2>1. started' # 0 /\ ~ carried' => /\ tabDevice # 0 /\ runs[started'].device = tabDevice
                                      /\ tabCache.patches[tabDevice] # NotAnswered
    BY <1>1, <1>2, TabZero DEF ConsoleOwn
  <2> QED BY <1>1, <2>1 DEF ConsoleOwn, RunOfDevice
<1>9. EndKnown'
  <2>1. \A r \in RunId, d \in TabDevice : EndOf(r, d) => EndOf(r, d)'
    BY <1>1 DEF EndOf, EndRead
  <2>2. carried => carried'
    BY <1>1
  <2> QED BY <1>1, <2>1, <2>2, EndGoesOn
<1> QED BY <1>4, <1>5, <1>6, <1>7, <1>8, <1>9 DEF UpdInv

LEMMA ScanDoneStep ==
    ASSUME UpdInv, NEW c \in TabSlot, TabCallDone(c), tabCalls[c].kind = "scan"
    PROVE  UpdInv'
<1> USE UpdParts
<1> DEFINE e == tabCalls[c].device
<1>1. /\ tabCalls[c].stage = "done" /\ tabCalls' = [tabCalls EXCEPT ![c] = NoTabCall]
      /\ UNCHANGED <<tabServerVars, tabDevice, tabAskVars, tabQueryVars, started, carried, toldRun, unseenRow>>
      /\ reloads[e] < 2 /\ reloads' = [reloads EXCEPT ![e] = @ + 1]
  BY DEF TabCallDone
<1> USE DEF tabServerVars, tabQueryVars, tabAskVars
<1>2. e \in TabDevice
  BY <1>1 DEF TabCallsFine, TabCallFine
<1> HIDE DEF e
<1>3. reloads' \in [TabDevice -> 0 .. 3] /\ \A d \in TabDevice : reloads[d] > 0 => reloads'[d] > 0
  BY <1>1, <1>2 DEF TabTypes
<1>4. TabServerTypes' /\ TabQueryTypes'
  BY <1>1 DEF TabServerTypes, TabQueryTypes
<1>5. TabTypes'
  BY <1>1, <1>3, OverKeeps DEF TabTypes
<1>6. TabCallsFine' /\ AskedFine'
  BY <1>1, OverKeeps
<1>7. RowsTrue'
  <2>1. \A d \in TabDevice : Changing(d) => Changing(d)'
    BY <1>1, OverKeeps
  <2> QED BY <1>1, <2>1, RowsStay
<1>8. ConsoleOwn'
  BY <1>1, ConsoleStaysOwn
<1>9. EndKnown'
  <2>1. \A r \in RunId, d \in TabDevice : EndOf(r, d) => EndOf(r, d)'
    BY <1>1, <1>3 DEF EndOf, EndRead
  <2> QED BY <1>1, <2>1, EndGoesOn
<1> QED BY <1>4, <1>5, <1>6, <1>7, <1>8, <1>9 DEF UpdInv

LEMMA RowDoneStep ==
    ASSUME UpdInv, NEW c \in TabSlot, TabCallDone(c), tabCalls[c].kind \notin {"install", "scan"}
    PROVE  UpdInv'
<1> USE UpdParts
<1> DEFINE e == tabCalls[c].device
           v == tabCalls[c].via
<1>1. /\ tabCalls[c].stage = "done" /\ tabCalls' = [tabCalls EXCEPT ![c] = NoTabCall]
      /\ UNCHANGED <<tabServerVars, tabDevice, tabAskVars, tabCache, tabFailed, started, carried, toldRun, reloads>>
      /\ tabStale' = [tabStale EXCEPT !["actions"] = @ \cup {v}]
      /\ tabLoad' = IF v = tabDevice /\ ~ JoinsTabLoad("actions") THEN [tabLoad EXCEPT !["actions"] = TabLoading]
                                                                ELSE tabLoad
      /\ unseenRow' = IF v # e \/ (v = tabDevice /\ JoinsTabLoad("actions")) THEN unseenRow \cup {e} ELSE unseenRow
  BY DEF TabCallDone, RowsAfter, InvalidatesTab
<1> USE DEF tabServerVars, tabAskVars
<1>2. e \in TabDevice /\ v \in TabDevice /\ {"patches", "actions"} \subseteq TabQuery
  BY <1>1 DEF TabCallsFine, TabCallFine, TabQuery
<1> HIDE DEF e, v
<1>3. /\ tabStale'.actions = tabStale.actions \cup {v} /\ tabStale'.patches = tabStale.patches
      /\ tabLoad'.patches = tabLoad.patches
      /\ \/ tabLoad'.actions = TabLoading
         \/ tabLoad'.actions = tabLoad.actions /\ (v # tabDevice \/ JoinsTabLoad("actions"))
      /\ tabDevice = 0 => tabLoad' = tabLoad
  BY <1>1, <1>2, TabZero DEF TabQueryTypes
<1>4. TabLoading.stage = "asked" /\ TabLoading # NoTabLoad
  BY DEF TabLoading, NoTabLoad
<1>5. TabServerTypes' /\ TabTypes'
  BY <1>1, <1>2, OverKeeps DEF TabServerTypes, TabTypes
<1>6. TabQueryTypes'
  <2>1. tabStale' \in [TabQuery -> SUBSET TabDevice]
    BY <1>1, <1>2 DEF TabQueryTypes
  <2>2. tabLoad' = [q \in TabQuery |-> tabLoad'[q]]
    BY <1>1 DEF TabQueryTypes
  <2>3. \A q \in TabQuery : tabLoad'[q] = TabLoading \/ tabLoad'[q] = tabLoad[q]
    BY <1>1 DEF TabQueryTypes
  <2> QED BY <1>1, <1>2, <1>3, <1>4, <2>1, <2>2, <2>3 DEF TabQueryTypes
<1>7. TabCallsFine' /\ AskedFine'
  BY <1>1, OverKeeps
<1>8. RowsTrue'
  <2> SUFFICES ASSUME NEW d \in TabDevice, d \notin unseenRow', ~ Changing(d)' PROVE RowKnown(d)'
    BY DEF RowsTrue
  <2>1. CASE d = e
    <3>1. v = d /\ (d = tabDevice => ~ JoinsTabLoad("actions"))
      BY <1>1, <2>1
    <3> QED BY <1>1, <1>3, <1>4, <3>1 DEF RowKnown
  <2>2. CASE d # e
    <3>1. ~ Changing(d) /\ d \notin unseenRow
      BY <1>1, <2>2, OverKeeps DEF e
    <3>2. RowKnown(d)
      BY <3>1 DEF RowsTrue
    <3> QED BY <1>1, <1>3, <1>4, <3>2 DEF RowKnown, JoinsTabLoad
  <2> QED BY <2>1, <2>2
<1>9. ConsoleOwn'
  BY <1>1, <1>3 DEF ConsoleOwn, RunOfDevice
<1>10. EndKnown'
  <2>1. \A r \in RunId, d \in TabDevice : EndOf(r, d) => EndOf(r, d)'
    BY <1>1, <1>3 DEF EndOf, EndRead
  <2> QED BY <1>1, <2>1, EndGoesOn
<1> QED BY <1>5, <1>6, <1>7, <1>8, <1>9, <1>10 DEF UpdInv

LEMMA ToldStep == ASSUME UpdInv, ConsoleTold PROVE UpdInv'
<1> USE UpdParts
<1>1. /\ ConsoleRun # 0 /\ runs[ConsoleRun].over /\ toldRun' = ConsoleRun /\ reloads[tabDevice] < 3
      /\ reloads' = [reloads EXCEPT ![tabDevice] = @ + 1]
      /\ UNCHANGED <<tabServerVars, tabQueryVars, tabDevice, started, carried, tabAskVars, tabCalls, unseenRow>>
  BY DEF ConsoleTold, ReloadsSoon
<1> USE DEF tabServerVars, tabQueryVars, tabAskVars
<1>2. tabDevice \in TabDevice
  BY <1>1 DEF ConsoleRun, TabTypes
<1>3. reloads' \in [TabDevice -> 0 .. 3] /\ reloads'[tabDevice] > 0
  BY <1>1, <1>2 DEF TabTypes
<1>4. ConsoleRun \in RunId \cup {0}
  BY <1>2 DEF ConsoleRun, TabTypes, TabQueryTypes, PatchAnswer
<1>5. ~ carried => runs[ConsoleRun].device = tabDevice /\ tabCache.patches[tabDevice] # NotAnswered
  BY <1>1, <1>2 DEF ConsoleRun, ConsoleOwn, RunOfDevice
<1>6. TabServerTypes' /\ TabQueryTypes'
  BY <1>1 DEF TabServerTypes, TabQueryTypes
<1>7. TabTypes'
  BY <1>1, <1>3, <1>4 DEF TabTypes
<1>8. TabCallsFine' /\ AskedFine'
  BY <1>1, TabCallsStay
<1>9. RowsTrue'
  <2>1. \A d \in TabDevice : Changing(d) => Changing(d)'
    BY <1>1 DEF Changing
  <2> QED BY <1>1, <2>1, RowsStay
<1>10. ConsoleOwn'
  BY <1>1, ConsoleStaysOwn
<1>11. EndKnown'
  BY <1>1, <1>2, <1>3, <1>5 DEF EndKnown, EndOf
<1> QED BY <1>6, <1>7, <1>8, <1>9, <1>10, <1>11 DEF UpdInv

LEMMA UpdInvStep == UpdInv /\ [UpdatesNext]_tabVars => UpdInv'
<1> SUFFICES ASSUME UpdInv, [UpdatesNext]_tabVars PROVE UpdInv'
  OBVIOUS
<1>1. CASE UNCHANGED tabVars
  BY <1>1, AskStep DEF tabVars, tabAskVars
<1>2. ASSUME NEW d \in TabDevice, NEW whole \in Scopes, OtherQueues(d, whole) PROVE UpdInv'
  BY <1>2, BehindSteps, TabAssumption
<1>3. ASSUME NEW c \in TabSlot, TabCallDone(c) PROVE UpdInv'
  BY <1>3, InstallDoneStep, ScanDoneStep, RowDoneStep
<1>4. ASSUME NEW q \in TabQuery, TabAsks(q) \/ TabServed(q) \/ TabArrives(q) \/ TabLost(q) PROVE UpdInv'
  BY <1>4, LoadAsksStep, LoadServedStep, LoadArrivesStep, LoadLostStep
<1>5. ASSUME NEW d \in TabDevice, ShowTab(d) \/ SwitchTab(d) \/ OtherInstalls(d) \/ RowRuns(d) \/ ReloadDue(d)
      PROVE  UpdInv'
  BY <1>5, ShowStep, SwitchStep, BehindSteps, ReloadStep
<1>6. ASSUME NEW c \in TabSlot, TabCallServed(c) \/ TabCallFails(c) PROVE UpdInv'
  BY <1>6, RequestServedStep, TabFailsStep
<1> QED BY <1>1, <1>2, <1>3, <1>4, <1>5, <1>6, LeaveStep, UserSteps, ToldStep, HintStep, RunEndsStep DEF UpdatesNext

\* An install goes where and as far as was read and confirmed; the list of
\* waiting installs and, after the end of a run, the list of updates are as
\* new as they claim once nothing is under way (UpdatesTab install, reload,
\* onFinished; QueuedActions refresh), for any devices, runs and requests.
THEOREM UpdatesAreHonest == UpdatesSpec => []UpdatesHonest
<1>1. UpdInv => UpdatesHonest
  <2> SUFFICES ASSUME UpdInv PROVE UpdatesHonest
    OBVIOUS
  <2> USE UpdParts
  <2>1. AsAsked
    BY DEF AsAsked, TabCallsFine, TabCallFine, InstallFor
  <2>2. RowsSettle
    <3> SUFFICES ASSUME TabSettled("actions"), tabDevice \notin unseenRow
                 PROVE  tabCache.actions[tabDevice] = waiting[tabDevice]
      BY DEF RowsSettle
    <3>1. tabDevice \in TabDevice /\ ~ Changing(tabDevice)
      BY DEF TabSettled, TabTypes, Changing, NoTabCall
    <3> QED BY <3>1 DEF RowsTrue, RowKnown, TabSettled
  <2>3. EndReloaded
    <3> SUFFICES ASSUME TabSettled("patches"), reloads[tabDevice] = 0, ~ carried, toldRun # 0,
                        runs[toldRun].device = tabDevice
                 PROVE  tabCache.patches[tabDevice] # NotAnswered /\ toldRun \in tabCache.patches[tabDevice].over
      BY DEF EndReloaded
    <3>1. EndOf(toldRun, tabDevice)
      BY DEF EndKnown
    <3> QED BY <3>1 DEF EndOf, EndRead, TabSettled
  <2> QED BY <2>1, <2>2, <2>3 DEF UpdatesHonest
<1> QED BY <1>1, UpdInvInit, UpdInvStep, PTL DEF UpdatesSpec

-----------------------------------------------------------------------------
(* The persons page: what the question said of each account is what the    *)
(* deletion does to it.                                                    *)

LoginRows == [LoginId -> Login]
SavingRow == [stage: {"none", "sent", "done", "refused"}, id: 0 .. Persons, made: 0 .. Persons,
              login: BOOLEAN, selected: 0 .. Persons]
ClearRows == [stage: {"none", "gone", "loop"}, rows: LoginRows]
PersonShapes ==
    /\ people \subseteq PersonId /\ given \in BOOLEAN /\ logins \in LoginRows /\ personList \subseteq PersonId
    /\ listedFetch \in [stage: {"none", "asked", "answered"}, answer: SUBSET PersonId]
    /\ known \in [loaded: BOOLEAN, rows: LoginRows]
    /\ knownFetch \in [stage: {"none", "asked", "answered"}, answer: LoginRows]
    /\ behind \in [known: BOOLEAN, answer: BOOLEAN] /\ visits \in Seq(Visit)
    /\ deletion \in Removal /\ removal \in [PersonId -> Removal]
    /\ clearing \in [PersonId -> ClearRows]
    /\ draft \in [open: BOOLEAN, id: 0 .. Persons] /\ saving \in SavingRow

\* What a list says of the accounts, for the persons there are.
SaysRight(rows) == \A p \in people, a \in LoginId : FateOf(rows, p, a) = FateOf(logins, p, a)
\* Before the last id is given, nothing has been heard of its person, nor of
\* the account that comes with it.
Unheard(rows) == ~given => ~rows[PersonAccounts].there /\ \A a \in LoginId : rows[a].person # Persons
UnheardPersons(S) == ~given => Persons \notin S
QuestionFine(r) ==
    /\ r.stage \in {"asked", "sent"} /\ r.sure /\ r.person \in people =>
          \A a \in LoginId : r.told[a] = FateOf(logins, r.person, a)
    /\ ~given => r.told[PersonAccounts] = "kept" /\ r.person # Persons

\* An account in a deletion's loop: as it was read and told, or treated as told.
Treated(told, row, login, p) ==
    IF row.there THEN /\ login.there /\ login.person = p /\ row.viewer = login.viewer
                      /\ told = (IF login.viewer THEN "deleted" ELSE "unlinked")
    ELSE /\ told = "deleted" => ~login.there
         /\ told = "unlinked" => login.there /\ login.person = 0
LoopFine(p) ==
    /\ clearing[p].stage # "none" => removal[p].stage = "sent" /\ p \notin people
    /\ clearing[p].stage = "gone" /\ removal[p].sure => \A a \in LoginId : removal[p].told[a] = FateOf(logins, p, a)
    /\ clearing[p].stage = "loop" /\ removal[p].sure =>
          \A a \in LoginId : Treated(removal[p].told[a], clearing[p].rows[a], logins[a], p)

PersonFacts ==
    /\ UnheardPersons(people) /\ UnheardPersons(personList) /\ UnheardPersons(listedFetch.answer)
    /\ Unheard(logins) /\ Unheard(known.rows) /\ Unheard(knownFetch.answer)
    /\ saving.made # 0 => given
    /\ known.loaded /\ ~behind.known => SaysRight(known.rows)
    /\ knownFetch.stage = "answered" /\ ~behind.answer => SaysRight(knownFetch.answer)
    /\ QuestionFine(deletion) /\ (deletion.stage # "none" => deletion.person \in PersonId)
    /\ \A p \in PersonId : QuestionFine(removal[p]) /\ (removal[p].stage # "none" => removal[p].person = p)
    /\ \A p \in PersonId : LoopFine(p)
PersonInv == PersonShapes /\ PersonFacts

LEMMA PersonIds == Persons \in PersonId /\ PersonId \subseteq Nat /\ PersonId \subseteq 0 .. Persons /\ Persons # 1
                   /\ PersonAccounts \in LoginId /\ Persons \in Nat
BY PersonAssumption DEF PersonId, LoginId

LEMMA NoLoginsFine == NoLogins \in LoginRows /\ Unheard(NoLogins)
<1>1. NoLogins \in LoginRows
  BY PersonIds DEF NoLogins, NoLogin, Login, LoginRows
<1>2. \A a \in LoginId : NoLogins[a].there = FALSE /\ NoLogins[a].person = 0
  BY DEF NoLogins, NoLogin
<1> QED BY <1>1, <1>2, PersonIds, PersonAssumption DEF Unheard

LEMMA NoRemovalFine == /\ NoRemoval \in Removal /\ NoRemoval.stage = "none" /\ QuestionFine(NoRemoval)
<1>1. NoRemoval \in Removal
  BY PersonIds DEF NoRemoval, Removal, Visit, Fate
<1>2. NoRemoval.stage = "none" /\ NoRemoval.person = 0 /\ NoRemoval.told = [a \in LoginId |-> "kept"]
  BY DEF NoRemoval
<1> QED BY <1>1, <1>2, PersonIds, PersonAssumption DEF QuestionFine

LEMMA NoClearingFine == NoClearing \in ClearRows /\ NoClearing.stage = "none"
BY NoLoginsFine DEF NoClearing, ClearRows

LEMMA PersonInvInit == PersonInit => PersonInv
<1> SUFFICES ASSUME PersonInit PROVE PersonInv
  OBVIOUS
<1>1. /\ people = 1 .. Persons - 1 /\ given = FALSE
      /\ logins = [a \in LoginId |-> IF a = PersonAccounts THEN NoLogin
                                     ELSE [person |-> 1, viewer |-> a > 1, there |-> TRUE]]
      /\ personList = {} /\ listedFetch = Loading /\ known = NotLoaded /\ knownFetch = Asking
      /\ behind = [known |-> FALSE, answer |-> FALSE]
      /\ deletion = NoRemoval /\ removal = [p \in PersonId |-> NoRemoval]
      /\ draft = NoDraft /\ saving = NoSaving /\ clearing = [p \in PersonId |-> NoClearing]
  BY DEF PersonInit
<1>2. visits \in Seq(Visit)
  BY PersonIds, PersonAssumption DEF PersonInit, Visit
<1>3. \A a \in LoginId : (a > 1) \in BOOLEAN
  BY DEF LoginId
<1>4. logins \in LoginRows
  BY <1>1, <1>3, PersonAssumption DEF LoginRows, Login, NoLogin
<1>5. Unheard(logins)
  BY <1>1, PersonAssumption, PersonIds DEF Unheard, NoLogin
<1>6. people \subseteq PersonId /\ Persons \notin people
  BY <1>1, PersonAssumption DEF PersonId
<1>7. listedFetch \in [stage: {"none", "asked", "answered"}, answer: SUBSET PersonId] /\ listedFetch.answer = {}
  BY <1>1 DEF Loading
<1>8. known \in [loaded: BOOLEAN, rows: LoginRows] /\ known.loaded = FALSE /\ known.rows = NoLogins
  BY <1>1, NoLoginsFine DEF NotLoaded
<1>9. /\ knownFetch \in [stage: {"none", "asked", "answered"}, answer: LoginRows]
      /\ knownFetch.stage = "asked" /\ knownFetch.answer = NoLogins
  BY <1>1, NoLoginsFine DEF Asking
<1>10. draft \in [open: BOOLEAN, id: 0 .. Persons] /\ saving \in SavingRow /\ saving.made = 0
  BY <1>1, PersonIds DEF NoDraft, NoSaving, SavingRow
<1>11. PersonShapes
  BY <1>1, <1>2, <1>4, <1>6, <1>7, <1>8, <1>9, <1>10, NoRemovalFine, NoClearingFine DEF PersonShapes
<1>12. PersonFacts
  <2>1. \A p \in PersonId : LoopFine(p)
    BY <1>1, NoClearingFine DEF LoopFine
  <2> QED BY <1>1, <1>5, <1>6, <1>7, <1>8, <1>9, <1>10, <2>1, NoLoginsFine, NoRemovalFine
          DEF PersonFacts, UnheardPersons
<1> QED BY <1>11, <1>12 DEF PersonInv

-----------------------------------------------------------------------------
(* The way through the page, and the dialog of a person.                   *)

LEMMA WayFine ==
    ASSUME NEW t \in Seq(Visit)
    PROVE  /\ Front(t) \in Seq(Visit) /\ (t # <<>> => Last(t) \in Visit)
           /\ \A v \in Visit : Append(t, v) \in Seq(Visit) /\ (t # <<>> => ReplaceLast(t, v) \in Seq(Visit))
<1>1. Len(t) \in Nat /\ t \in [1 .. Len(t) -> Visit]
  BY LenProperties
<1>2. Front(t) \in Seq(Visit)
  <2>1. Len(t) - 1 \in Int /\ \A i \in 1 .. Len(t) - 1 : t[i] \in Visit
    BY <1>1
  <2>2. SubSeq(t, 1, Len(t) - 1) \in Seq(Visit)
    BY <2>1, SubSeqProperties
  <2> QED BY <2>2 DEF Front
<1>3. ASSUME t # <<>> PROVE Len(t) \in 1 .. Len(t)
  BY <1>1, <1>3, EmptySeq
<1>4. t # <<>> => Last(t) \in Visit
  BY <1>1, <1>3 DEF Last
<1>5. ASSUME NEW v \in Visit PROVE Append(t, v) \in Seq(Visit)
  BY AppendProperties
<1>6. ASSUME NEW v \in Visit, t # <<>> PROVE ReplaceLast(t, v) \in Seq(Visit)
  <2>1. [t EXCEPT ![Len(t)] = v] \in [1 .. Len(t) -> Visit]
    BY <1>1
  <2> QED BY <1>1, <2>1 DEF ReplaceLast
<1> QED BY <1>2, <1>4, <1>5, <1>6

CoreStays == UNCHANGED <<people, given, logins, personList, listedFetch, known, knownFetch, behind, deletion, removal,
                           clearing>>

LEMMA WayStep ==
    ASSUME PersonInv, CoreStays, visits' \in Seq(Visit), draft' \in [open: BOOLEAN, id: 0 .. Persons],
           saving' \in SavingRow, saving'.made # 0 => given
    PROVE  PersonInv'
<1>1. PersonShapes'
  BY DEF PersonInv, PersonShapes, CoreStays
<1>2. PersonFacts'
  <2>1. \A p \in PersonId : LoopFine(p)'
    BY DEF PersonInv, PersonFacts, CoreStays, LoopFine, Treated, FateOf, AccountsOf
  <2> QED BY <2>1 DEF PersonInv, PersonFacts, CoreStays, UnheardPersons, Unheard, SaysRight, QuestionFine, FateOf, AccountsOf
<1> QED BY <1>1, <1>2 DEF PersonInv

LEMMA ShapesOf == ASSUME PersonInv
    PROVE  /\ visits \in Seq(Visit) /\ draft \in [open: BOOLEAN, id: 0 .. Persons] /\ saving \in SavingRow
           /\ saving.made # 0 => given
           /\ visits # <<>> => Last(visits) \in Visit /\ OpenPerson \in 0 .. Persons
<1>1. visits \in Seq(Visit)
  BY DEF PersonInv, PersonShapes
<1>2. visits # <<>> => Last(visits) \in Visit
  BY <1>1, WayFine
<1> QED BY <1>1, <1>2 DEF PersonInv, PersonShapes, PersonFacts, OpenPerson, Visit

LEMMA WaySteps ==
    ASSUME PersonInv,
           BackToList \/ StepsBack \/ BrowserBack \/ NarrowList \/ CloseDraft \/ SaveDraft \/ SaveFails
           \/ LoginCopied \/ (\E p \in PersonId : SelectPerson(p)) \/ (\E id \in PersonId \cup {0} : OpenDraft(id))
           \/ (\E b \in BOOLEAN : LoginClosed(b) \/ LoginGivenUp(b))
    PROVE  PersonInv'
<1> USE DEF peopleVars, cacheVars, wayVars, deleteVars, draftVars
<1>1. CoreStays
  BY DEF CoreStays, BackToList, StepsBack, BrowserBack, NarrowList, CloseDraft, SaveDraft, SaveFails, LoginCopied,
         SelectPerson, OpenDraft, LoginClosed, LoginGivenUp
<1>2. CASE visits' = visits /\ draft' = draft /\ saving' = saving
  BY <1>1, <1>2, ShapesOf, WayStep
<1>3. CASE BackToList \/ StepsBack \/ BrowserBack \/ NarrowList \/ (\E p \in PersonId : SelectPerson(p))
  <2>1. draft' = draft /\ saving' = saving
    BY <1>3 DEF BackToList, StepsBack, BrowserBack, NarrowList, SelectPerson
  <2>2. Here
    BY <1>3 DEF BackToList, StepsBack, BrowserBack, NarrowList, SelectPerson, PersonMove
  <2>3. PICK v \in Visit : visits' \in {visits, Front(visits), Append(visits, v), ReplaceLast(visits, v)}
    <3>1. CASE BackToList
      <4>1. [person |-> 0, fromList |-> FALSE] \in Visit
        BY PersonIds DEF Visit
      <4> QED BY <3>1, <4>1 DEF BackToList, LeaveDetail
    <3>2. CASE NarrowList
      <4>1. [person |-> OpenPerson, fromList |-> FALSE] \in Visit
        BY <2>2, ShapesOf DEF Visit, Here
      <4> QED BY <3>2, <4>1 DEF NarrowList
    <3>3. CASE \E p \in PersonId : SelectPerson(p)
      <4>1. PICK p \in PersonId : SelectPerson(p)
        BY <3>3
      <4>2. [person |-> p, fromList |-> OpenPerson = 0] \in Visit
        BY PersonIds DEF Visit
      <4> QED BY <4>1, <4>2 DEF SelectPerson, Goes
    <3>4. CASE StepsBack \/ BrowserBack
      BY <2>2, <3>4, ShapesOf DEF StepsBack, BrowserBack, Here
    <3> QED BY <1>3, <3>1, <3>2, <3>3, <3>4
  <2>4. visits' \in Seq(Visit)
    BY <2>2, <2>3, ShapesOf, WayFine DEF Here
  <2> QED BY <1>1, <2>1, <2>4, ShapesOf, WayStep
<1>4. CASE CloseDraft \/ (\E id \in PersonId \cup {0} : OpenDraft(id))
  <2>1. visits' = visits /\ saving' = saving
    BY <1>4 DEF CloseDraft, OpenDraft
  <2>2. draft' \in [open: BOOLEAN, id: 0 .. Persons]
    <3>1. NoDraft \in [open: BOOLEAN, id: 0 .. Persons]
      BY PersonIds DEF NoDraft
    <3>2. ASSUME NEW id \in PersonId \cup {0}, OpenDraft(id) PROVE draft' \in [open: BOOLEAN, id: 0 .. Persons]
      <4>1. id \in 0 .. Persons /\ draft' = [open |-> TRUE, id |-> id]
        BY <3>2, PersonIds DEF OpenDraft
      <4> QED BY <4>1
    <3> QED BY <1>4, <3>1, <3>2 DEF CloseDraft
  <2> QED BY <1>1, <2>1, <2>2, ShapesOf, WayStep
<1>5. CASE SaveDraft \/ SaveFails
  <2>1. visits' = visits /\ draft' = draft
    BY <1>5 DEF SaveDraft, SaveFails
  <2>2. saving' \in SavingRow /\ saving'.made = 0
    <3>1. NoSaving \in SavingRow /\ NoSaving.made = 0
      BY PersonIds DEF NoSaving, SavingRow
    <3>2. CASE SaveDraft
      <4>1. saving' = [NoSaving EXCEPT !.stage = "sent", !.id = draft.id, !.selected = OpenPerson]
        BY <3>2 DEF SaveDraft
      <4>2. draft.id \in 0 .. Persons /\ OpenPerson \in 0 .. Persons
        BY <3>2, ShapesOf DEF SaveDraft, Here
      <4> QED BY <3>1, <4>1, <4>2 DEF SavingRow
    <3> QED BY <1>5, <3>1, <3>2 DEF SaveFails
  <2> QED BY <1>1, <2>1, <2>2, ShapesOf, WayStep
<1>6. CASE LoginCopied \/ (\E b \in BOOLEAN : LoginClosed(b) \/ LoginGivenUp(b))
  BY <1>2, <1>6 DEF LoginCopied, LoginClosed, LoginGivenUp
<1> QED BY <1>3, <1>4, <1>5, <1>6

-----------------------------------------------------------------------------
(* The two lists.                                                          *)

QuestionsStand == UNCHANGED <<people, given, logins, deletion, removal, clearing>>

\* The lists and what is known of them move; the questions stay.
LEMMA ListStep ==
    ASSUME PersonInv, QuestionsStand, UNCHANGED <<visits, draft, saving>>,
           personList' \subseteq PersonId, listedFetch' \in [stage: {"none", "asked", "answered"}, answer: SUBSET PersonId],
           known' \in [loaded: BOOLEAN, rows: LoginRows],
           knownFetch' \in [stage: {"none", "asked", "answered"}, answer: LoginRows],
           behind' \in [known: BOOLEAN, answer: BOOLEAN],
           UnheardPersons(personList'), UnheardPersons(listedFetch'.answer),
           Unheard(known'.rows), Unheard(knownFetch'.answer),
           known'.loaded /\ ~behind'.known => SaysRight(known'.rows),
           knownFetch'.stage = "answered" /\ ~behind'.answer => SaysRight(knownFetch'.answer)
    PROVE  PersonInv'
<1>1. PersonShapes'
  BY DEF PersonInv, PersonShapes, QuestionsStand
<1>2. /\ QuestionFine(deletion)' /\ (deletion'.stage # "none" => deletion'.person \in PersonId)
      /\ \A p \in PersonId : QuestionFine(removal[p])' /\ (removal'[p].stage # "none" => removal'[p].person = p)
  BY DEF PersonInv, PersonFacts, QuestionsStand, QuestionFine, FateOf, AccountsOf
<1>3. /\ UnheardPersons(people)' /\ UnheardPersons(personList)' /\ UnheardPersons(listedFetch.answer)'
      /\ Unheard(logins)' /\ Unheard(known.rows)' /\ Unheard(knownFetch.answer)' /\ (saving'.made # 0 => given')
  BY DEF PersonInv, PersonFacts, QuestionsStand, UnheardPersons, Unheard
<1>4. /\ known'.loaded /\ ~behind'.known => SaysRight(known.rows)'
      /\ knownFetch'.stage = "answered" /\ ~behind'.answer => SaysRight(knownFetch.answer)'
  BY DEF SaysRight, QuestionsStand, FateOf, AccountsOf
<1>5. \A p \in PersonId : LoopFine(p)'
  BY DEF PersonInv, PersonFacts, QuestionsStand, LoopFine, Treated, FateOf, AccountsOf
<1> QED BY <1>1, <1>2, <1>3, <1>4, <1>5 DEF PersonInv, PersonFacts

LEMMA ListsOf == ASSUME PersonInv
    PROVE  /\ people \subseteq PersonId /\ logins \in LoginRows /\ personList \subseteq PersonId
           /\ listedFetch \in [stage: {"none", "asked", "answered"}, answer: SUBSET PersonId]
           /\ known \in [loaded: BOOLEAN, rows: LoginRows]
           /\ knownFetch \in [stage: {"none", "asked", "answered"}, answer: LoginRows]
           /\ behind \in [known: BOOLEAN, answer: BOOLEAN]
           /\ UnheardPersons(people) /\ UnheardPersons(personList) /\ UnheardPersons(listedFetch.answer)
           /\ Unheard(logins) /\ Unheard(known.rows) /\ Unheard(knownFetch.answer)
           /\ known.loaded /\ ~behind.known => SaysRight(known.rows)
           /\ knownFetch.stage = "answered" /\ ~behind.answer => SaysRight(knownFetch.answer)
BY DEF PersonInv, PersonShapes, PersonFacts

\* The list of persons on its way, as it was asked for and as nobody asks.
LEMMA ListedAnew ==
    /\ Loading \in [stage: {"none", "asked", "answered"}, answer: SUBSET PersonId]
    /\ NotLoading \in [stage: {"none", "asked", "answered"}, answer: SUBSET PersonId]
    /\ UnheardPersons(Loading.answer) /\ UnheardPersons(NotLoading.answer)
BY DEF Loading, NotLoading, UnheardPersons

LEMMA KnownAnew ==
    /\ Asking \in [stage: {"none", "asked", "answered"}, answer: LoginRows]
    /\ NotAsking \in [stage: {"none", "asked", "answered"}, answer: LoginRows]
    /\ Asking.stage = "asked" /\ NotAsking.stage = "none"
    /\ Asking.answer = NoLogins /\ NotAsking.answer = NoLogins
BY NoLoginsFine DEF Asking, NotAsking

LEMMA ListSteps ==
    ASSUME PersonInv, Fetches \/ ListsServed \/ ListedArrives \/ KnownArrives \/ ListsLost
    PROVE  PersonInv'
<1> USE DEF peopleVars, wayVars, deleteVars, draftVars
<1>1. QuestionsStand /\ UNCHANGED <<visits, draft, saving>>
  BY DEF QuestionsStand, Fetches, ListsServed, ListedArrives, KnownArrives, ListsLost
<1>2. CASE UNCHANGED <<personList, known, behind>> /\ listedFetch' \in {listedFetch, Loading, NotLoading}
           /\ knownFetch' \in {knownFetch, Asking, NotAsking}
  <2>1. /\ listedFetch' \in [stage: {"none", "asked", "answered"}, answer: SUBSET PersonId]
        /\ UnheardPersons(listedFetch'.answer)
    BY <1>2, ListsOf, ListedAnew
  <2>2. /\ knownFetch' \in [stage: {"none", "asked", "answered"}, answer: LoginRows]
        /\ Unheard(knownFetch'.answer)
        /\ knownFetch'.stage = "answered" /\ ~behind'.answer => SaysRight(knownFetch'.answer)
    BY <1>2, ListsOf, KnownAnew, NoLoginsFine
  <2> QED BY <1>1, <1>2, <2>1, <2>2, ListsOf, ListStep
<1>3. CASE Fetches \/ ListsLost
  BY <1>2, <1>3 DEF Fetches, ListsLost
<1>4. CASE ListsServed
  <2>1. CASE listedFetch' = [stage |-> "answered", answer |-> people] /\ UNCHANGED <<knownFetch, behind>>
    <3>1. /\ listedFetch' \in [stage: {"none", "asked", "answered"}, answer: SUBSET PersonId]
          /\ UnheardPersons(listedFetch'.answer)
      BY <2>1, ListsOf
    <3>2. UNCHANGED <<personList, known>>
      BY <1>4 DEF ListsServed
    <3> QED BY <1>1, <2>1, <3>1, <3>2, ListsOf, ListStep
  <2>2. CASE /\ knownFetch' = [stage |-> "answered", answer |-> logins]
             /\ behind' = [behind EXCEPT !.answer = FALSE] /\ UNCHANGED listedFetch
    <3>1. /\ knownFetch' \in [stage: {"none", "asked", "answered"}, answer: LoginRows]
          /\ knownFetch'.answer = logins
      BY <2>2, ListsOf
    <3>2. behind' \in [known: BOOLEAN, answer: BOOLEAN] /\ behind'.known = behind.known
      BY <2>2, ListsOf
    <3>3. UNCHANGED <<personList, known>>
      BY <1>4 DEF ListsServed
    <3>4. SaysRight(logins)
      BY DEF SaysRight
    <3>5. /\ Unheard(knownFetch'.answer) /\ (knownFetch'.stage = "answered" /\ ~behind'.answer => SaysRight(knownFetch'.answer))
          /\ known'.loaded /\ ~behind'.known => SaysRight(known'.rows)
      BY <3>1, <3>2, <3>3, <3>4, ListsOf
    <3> QED BY <1>1, <2>2, <3>1, <3>2, <3>3, <3>5, ListsOf, ListStep
  <2> QED BY <1>4, <2>1, <2>2 DEF ListsServed
<1>5. CASE ListedArrives
  <2>1. personList' = listedFetch.answer /\ listedFetch' = NotLoading /\ UNCHANGED <<known, knownFetch, behind>>
    BY <1>5 DEF ListedArrives
  <2>2. personList' \subseteq PersonId /\ UnheardPersons(personList')
    BY <2>1, ListsOf
  <2> QED BY <1>1, <2>1, <2>2, ListsOf, ListedAnew, ListStep
<1>6. CASE KnownArrives
  <2>1. /\ knownFetch.stage = "answered" /\ known' = [loaded |-> TRUE, rows |-> knownFetch.answer]
        /\ knownFetch' = NotAsking /\ behind' = [behind EXCEPT !.known = behind.answer]
        /\ UNCHANGED <<personList, listedFetch>>
    BY <1>6 DEF KnownArrives
  <2>2. /\ known' \in [loaded: BOOLEAN, rows: LoginRows] /\ known'.rows = knownFetch.answer
        /\ behind' \in [known: BOOLEAN, answer: BOOLEAN] /\ behind'.known = behind.answer
    BY <2>1, ListsOf
  <2>3. Unheard(known'.rows) /\ (known'.loaded /\ ~behind'.known => SaysRight(known'.rows))
    BY <2>1, <2>2, ListsOf
  <2>4. /\ knownFetch' \in [stage: {"none", "asked", "answered"}, answer: LoginRows]
        /\ Unheard(knownFetch'.answer) /\ knownFetch'.stage = "none"
    BY <2>1, KnownAnew, NoLoginsFine
  <2> QED BY <1>1, <2>1, <2>2, <2>3, <2>4, ListsOf, ListStep
<1> QED BY <1>3, <1>4, <1>5, <1>6

-----------------------------------------------------------------------------
(* The question: asked, declined, confirmed.                               *)

\* A deletion that nothing touches is where it was.
LEMMA LoopStays ==
    ASSUME PersonInv, UNCHANGED <<people, logins>>, NEW q \in PersonId, removal'[q] = removal[q], clearing'[q] = clearing[q]
    PROVE  LoopFine(q)'
BY DEF PersonInv, PersonFacts, LoopFine, Treated, FateOf, AccountsOf

\* The persons, the lists and the rest stay; the questions move.
LEMMA QuestionStep ==
    ASSUME PersonInv,
           UNCHANGED <<people, given, logins, personList, listedFetch, known, knownFetch, behind, visits, draft, saving>>,
           deletion' \in Removal, removal' \in [PersonId -> Removal], clearing' \in [PersonId -> ClearRows],
           \A p \in PersonId : LoopFine(p)',
           QuestionFine(deletion'), deletion'.stage # "none" => deletion'.person \in PersonId,
           \A p \in PersonId : QuestionFine(removal'[p]) /\ (removal'[p].stage # "none" => removal'[p].person = p)
    PROVE  PersonInv'
<1>1. PersonShapes'
  BY DEF PersonInv, PersonShapes
<1>2. QuestionFine(deletion)' /\ \A p \in PersonId : QuestionFine(removal[p])'
  BY DEF QuestionFine, FateOf, AccountsOf
<1>3. /\ UnheardPersons(people)' /\ UnheardPersons(personList)' /\ UnheardPersons(listedFetch.answer)'
      /\ Unheard(logins)' /\ Unheard(known.rows)' /\ Unheard(knownFetch.answer)' /\ (saving'.made # 0 => given')
  BY DEF PersonInv, PersonFacts, UnheardPersons, Unheard
<1>4. /\ known'.loaded /\ ~behind'.known => SaysRight(known.rows)'
      /\ knownFetch'.stage = "answered" /\ ~behind'.answer => SaysRight(knownFetch.answer)'
  BY DEF PersonInv, PersonFacts, SaysRight, FateOf, AccountsOf
<1> QED BY <1>1, <1>2, <1>3, <1>4 DEF PersonInv, PersonFacts

LEMMA QuestionsOf == ASSUME PersonInv
    PROVE  /\ deletion \in Removal /\ removal \in [PersonId -> Removal] /\ QuestionFine(deletion)
           /\ clearing \in [PersonId -> ClearRows] /\ \A p \in PersonId : LoopFine(p)
           /\ deletion.stage # "none" => deletion.person \in PersonId
           /\ \A p \in PersonId : QuestionFine(removal[p]) /\ (removal[p].stage # "none" => removal[p].person = p)
BY DEF PersonInv, PersonShapes, PersonFacts

\* The person on show is one of the list.
LEMMA ShownIsListed == ASSUME PersonInv, ShownPerson # 0 PROVE ShownPerson \in personList
<1>1. CASE Chosen # 0
  BY <1>1 DEF ShownPerson, Chosen
<1>2. CASE Chosen = 0
  <2>1. Visible # {} /\ ShownPerson = CHOOSE p \in Visible : \A o \in Visible : p <= o
    BY <1>2 DEF ShownPerson
  <2>2. Visible \subseteq personList /\ Visible \subseteq Nat
    BY ListsOf, PersonIds DEF Visible
  <2>3. \E p \in Visible : \A o \in Visible : p <= o
    BY <2>1, <2>2, LeastOf
  <2>4. ShownPerson \in Visible
    BY <2>1, <2>3
  <2> QED BY <2>2, <2>4
<1> QED BY <1>1, <1>2

LEMMA AskDeletionStep == ASSUME PersonInv, AskDeletion PROVE PersonInv'
<1> USE DEF peopleVars, cacheVars, wayVars, draftVars
<1> DEFINE s == ShownPerson
           fate == [a \in LoginId |-> FateOf(known.rows, s, a)]
<1>1. /\ s # 0 /\ visits # <<>> /\ removal' = removal /\ clearing' = clearing
      /\ deletion' = [stage |-> "asked", told |-> fate, sure |-> known.loaded /\ ~behind.known,
                      person |-> s, at |-> Last(visits)]
      /\ UNCHANGED <<people, given, logins, personList, listedFetch, known, knownFetch, behind, visits, draft, saving>>
  BY DEF AskDeletion, PersonMove, Here
<1>2. s \in personList /\ s \in PersonId
  BY <1>1, ShownIsListed, ListsOf
<1>3. fate \in [LoginId -> Fate]
  BY DEF FateOf, Fate
<1>4. (known.loaded /\ ~behind.known) \in BOOLEAN /\ Last(visits) \in Visit
  BY <1>1, ListsOf, ShapesOf
<1> HIDE DEF s
<1>5. ASSUME known.loaded /\ ~behind.known, s \in people, NEW a \in LoginId
      PROVE  fate[a] = FateOf(logins, s, a)
  BY <1>5, ListsOf DEF SaysRight
<1>6. ~given => fate[PersonAccounts] = "kept" /\ s # Persons
  <2>1. ~given => ~known.rows[PersonAccounts].there /\ Persons \notin personList
    BY ListsOf DEF Unheard, UnheardPersons
  <2>2. ASSUME ~given PROVE fate[PersonAccounts] = "kept"
    BY <2>1, <2>2, PersonIds DEF FateOf, AccountsOf
  <2> QED BY <1>2, <2>1, <2>2
<1> HIDE DEF fate
<1>7. deletion' \in Removal
  BY <1>1, <1>2, <1>3, <1>4, PersonIds DEF Removal
<1>8. /\ deletion'.stage = "asked" /\ deletion'.told = fate /\ (deletion'.sure <=> known.loaded /\ ~behind.known)
      /\ deletion'.person = s
  BY <1>1
<1>9. QuestionFine(deletion')
  BY <1>5, <1>6, <1>8 DEF QuestionFine
<1>10. \A p \in PersonId : LoopFine(p)'
  BY <1>1, LoopStays
<1> QED BY <1>1, <1>2, <1>7, <1>8, <1>9, <1>10, QuestionsOf, QuestionStep

LEMMA AnswerSteps == ASSUME PersonInv, DeclineDeletion \/ ConfirmDeletion PROVE PersonInv'
<1> USE DEF peopleVars, cacheVars, wayVars, draftVars
<1>1. /\ deletion' = NoRemoval /\ deletion.stage = "asked" /\ clearing' = clearing
      /\ UNCHANGED <<people, given, logins, personList, listedFetch, known, knownFetch, behind, visits, draft, saving>>
  BY DEF DeclineDeletion, ConfirmDeletion
<1>2. CASE removal' = removal
  <2>1. \A p \in PersonId : LoopFine(p)'
    BY <1>1, <1>2, LoopStays
  <2> QED BY <1>1, <1>2, <2>1, QuestionsOf, NoRemovalFine, QuestionStep
<1>3. CASE ConfirmDeletion
  <2> DEFINE r == [deletion EXCEPT !.stage = "sent"]
             p == deletion.person
  <2>1. removal' = [removal EXCEPT ![p] = r] /\ removal[p].stage = "none"
    BY <1>3 DEF ConfirmDeletion
  <2>2. /\ r \in Removal /\ r.stage = "sent" /\ r.told = deletion.told /\ r.sure = deletion.sure /\ r.person = p
    BY QuestionsOf DEF Removal
  <2> HIDE DEF r
  <2>3. QuestionFine(r)
    BY <1>1, <2>2, QuestionsOf DEF QuestionFine
  <2>4. p \in PersonId /\ removal \in [PersonId -> Removal]
    BY <1>1, QuestionsOf
  <2>5. removal' \in [PersonId -> Removal] /\ removal'[p] = r /\ \A q \in PersonId : q # p => removal'[q] = removal[q]
    BY <2>1, <2>2, <2>4
  <2>6. ASSUME NEW q \in PersonId PROVE QuestionFine(removal'[q]) /\ (removal'[q].stage # "none" => removal'[q].person = q)
    <3>1. CASE q = p
      BY <2>2, <2>3, <2>5, <3>1
    <3>2. CASE q # p
      BY <2>5, <3>2, QuestionsOf
    <3> QED BY <3>1, <3>2
  <2>7. ASSUME NEW q \in PersonId PROVE LoopFine(q)'
    <3>1. CASE q = p
      <4>1. clearing'[q].stage = "none"
        BY <1>1, <2>1, <3>1, QuestionsOf DEF LoopFine
      <4> QED BY <4>1 DEF LoopFine
    <3>2. CASE q # p
      BY <1>1, <2>5, <3>2, LoopStays
    <3> QED BY <3>1, <3>2
  <2> QED BY <1>1, <2>5, <2>6, <2>7, QuestionsOf, NoRemovalFine, QuestionStep
<1> QED BY <1>2, <1>3 DEF DeclineDeletion

-----------------------------------------------------------------------------
(* What happens to the accounts.                                           *)

\* The accounts move, and no question about them is certain any more.
LEMMA UnsureStep ==
    ASSUME PersonInv, AccountsMove,
           UNCHANGED <<people, given, personList, listedFetch, known, knownFetch, visits, draft, saving>>,
           logins' \in LoginRows, Unheard(logins'), clearing' \in [PersonId -> ClearRows],
           \A p \in PersonId : clearing'[p].stage = clearing[p].stage
    PROVE  PersonInv'
<1>1. /\ behind' = [known |-> TRUE, answer |-> TRUE]
      /\ deletion' = [deletion EXCEPT !.sure = FALSE]
      /\ removal' = [p \in PersonId |-> [removal[p] EXCEPT !.sure = FALSE]]
  BY DEF AccountsMove
<1>6. ASSUME NEW r \in Removal, QuestionFine(r)
      PROVE  LET s == [r EXCEPT !.sure = FALSE] IN
             s \in Removal /\ s.sure = FALSE /\ s.person = r.person /\ s.stage = r.stage /\ s.told = r.told
  BY DEF Removal
<1>7. deletion' \in Removal /\ deletion'.sure = FALSE /\ deletion'.person = deletion.person
      /\ deletion'.stage = deletion.stage /\ deletion'.told = deletion.told
  BY <1>1, <1>6, QuestionsOf
<1>8. ASSUME NEW p \in PersonId
      PROVE  /\ removal'[p] \in Removal /\ removal'[p].sure = FALSE /\ removal'[p].person = removal[p].person
             /\ removal'[p].stage = removal[p].stage /\ removal'[p].told = removal[p].told
  <2>1. removal'[p] = [removal[p] EXCEPT !.sure = FALSE]
    BY <1>1
  <2>2. removal[p] \in Removal /\ QuestionFine(removal[p])
    BY QuestionsOf
  <2> QED BY <1>6, <2>1, <2>2
<1>9. removal' \in [PersonId -> Removal]
  <2>1. removal' = [p \in PersonId |-> removal'[p]]
    BY <1>1
  <2> QED BY <1>8, <2>1
<1>10. behind' \in [known: BOOLEAN, answer: BOOLEAN] /\ behind'.known /\ behind'.answer
  BY <1>1
<1>11. PersonShapes'
  BY <1>7, <1>9, <1>10 DEF PersonInv, PersonShapes
<1>12. QuestionFine(deletion)' /\ \A p \in PersonId : QuestionFine(removal[p])'
  <2>1. QuestionFine(deletion)'
    BY <1>7, QuestionsOf DEF QuestionFine
  <2>2. ASSUME NEW p \in PersonId PROVE QuestionFine(removal[p])'
    <3>1. QuestionFine(removal[p])
      BY QuestionsOf
    <3>2. /\ removal'[p].sure = FALSE /\ removal'[p].person = removal[p].person
          /\ removal'[p].told = removal[p].told /\ given' = given
      BY <1>8
    <3> QED BY <3>1, <3>2 DEF QuestionFine
  <2> QED BY <2>1, <2>2
<1>13. /\ UnheardPersons(people)' /\ UnheardPersons(personList)' /\ UnheardPersons(listedFetch.answer)'
       /\ Unheard(logins)' /\ Unheard(known.rows)' /\ Unheard(knownFetch.answer)' /\ (saving'.made # 0 => given')
  BY DEF PersonInv, PersonFacts, UnheardPersons, Unheard
<1>14. /\ deletion'.stage # "none" => deletion'.person \in PersonId
       /\ \A p \in PersonId : removal'[p].stage # "none" => removal'[p].person = p
  BY <1>7, <1>8, QuestionsOf
<1>15. \A p \in PersonId : LoopFine(p)'
  BY <1>8, QuestionsOf DEF LoopFine
<1> QED BY <1>10, <1>11, <1>12, <1>13, <1>14, <1>15 DEF PersonInv, PersonFacts

LEMMA OtherAdminStep == ASSUME PersonInv, NEW a \in LoginId, OtherAdminActs(a) PROVE PersonInv'
<1> USE DEF wayVars, draftVars
<1>1. /\ UNCHANGED <<people, given, personList, listedFetch, known, knownFetch, visits, draft, saving>>
      /\ logins[a].there /\ clearing' = clearing /\ AccountsMove
  BY DEF OtherAdminActs
<1>2. logins \in [LoginId -> Login] /\ Unheard(logins) /\ people \subseteq PersonId /\ UnheardPersons(people)
  BY ListsOf DEF LoginRows
<1>3. PICK v \in Login : logins' = [logins EXCEPT ![a] = v] /\ v.there /\ (~given => v.person # Persons)
  <2>1. CASE logins' = [logins EXCEPT ![a].viewer = ~@]
    <3> DEFINE v == [logins[a] EXCEPT !.viewer = ~@]
    <3>1. logins' = [logins EXCEPT ![a] = v]
      BY <1>2, <2>1
    <3>2. v \in Login /\ v.there /\ v.person = logins[a].person
      BY <1>1, <1>2 DEF Login
    <3> QED BY <1>2, <3>1, <3>2 DEF Unheard
  <2>2. CASE \E p \in (people \cup {0}) \ {logins[a].person} : logins' = [logins EXCEPT ![a].person = p]
    <3>1. PICK p \in people \cup {0} : logins' = [logins EXCEPT ![a].person = p]
      BY <2>2
    <3> DEFINE v == [logins[a] EXCEPT !.person = p]
    <3>2. logins' = [logins EXCEPT ![a] = v]
      BY <1>2, <3>1
    <3>3. p \in 0 .. Persons
      BY <1>2, PersonIds
    <3>4. v \in Login /\ v.there /\ v.person = p
      BY <1>1, <1>2, <3>3 DEF Login
    <3>5. ~given => p # Persons
      BY <1>2, PersonIds, PersonAssumption DEF UnheardPersons
    <3> QED BY <3>2, <3>4, <3>5
  <2> QED BY <2>1, <2>2 DEF OtherAdminActs
<1>4. logins' \in LoginRows /\ logins'[a] = v /\ \A b \in LoginId : b # a => logins'[b] = logins[b]
  BY <1>2, <1>3 DEF LoginRows
<1>5. Unheard(logins')
  <2>1. ~given => a # PersonAccounts
    BY <1>1, <1>2 DEF Unheard
  <2> QED BY <1>2, <1>3, <1>4, <2>1, PersonIds DEF Unheard
<1> QED BY <1>1, <1>4, <1>5, QuestionsOf, UnsureStep

\* The deletion goes no further than its first commit, or not so far; or it is
\* over, one way or the other.
LEMMA RequestEnds ==
    ASSUME PersonInv, NEW p \in PersonId, NEW st \in {"done", "refused"},
           UNCHANGED <<people, given, logins, personList, listedFetch, known, knownFetch, behind, visits, deletion, draft, saving>>,
           removal[p].stage = "sent", removal' = [removal EXCEPT ![p].stage = st],
           clearing' = [clearing EXCEPT ![p] = NoClearing]
    PROVE  PersonInv'
<1> DEFINE r == [removal[p] EXCEPT !.stage = st]
<1>1. removal \in [PersonId -> Removal] /\ removal[p] \in Removal /\ QuestionFine(removal[p]) /\ removal[p].person = p
      /\ clearing \in [PersonId -> ClearRows]
  BY QuestionsOf
<1>2. r \in Removal /\ r.stage = st /\ r.told = removal[p].told /\ r.person = p
  BY <1>1 DEF Removal
<1>3. removal' = [removal EXCEPT ![p] = r]
  BY <1>1
<1> HIDE DEF r
<1>4. removal' \in [PersonId -> Removal] /\ removal'[p] = r /\ \A q \in PersonId : q # p => removal'[q] = removal[q]
  BY <1>1, <1>2, <1>3
<1>5. /\ clearing' \in [PersonId -> ClearRows] /\ clearing'[p].stage = "none"
      /\ \A q \in PersonId : q # p => clearing'[q] = clearing[q]
  BY <1>1, NoClearingFine
<1>6. QuestionFine(r)
  BY <1>1, <1>2 DEF QuestionFine
<1>7. ASSUME NEW q \in PersonId
      PROVE  QuestionFine(removal'[q]) /\ (removal'[q].stage # "none" => removal'[q].person = q) /\ LoopFine(q)'
  <2>1. CASE q = p
    BY <1>2, <1>4, <1>5, <1>6, <2>1 DEF LoopFine
  <2>2. CASE q # p
    BY <1>4, <1>5, <2>2, QuestionsOf, LoopStays
  <2> QED BY <2>1, <2>2
<1> QED BY <1>4, <1>5, <1>7, QuestionsOf, QuestionStep

LEMMA PersonDeletedStep == ASSUME PersonInv, NEW p \in PersonId, PersonDeleted(p) PROVE PersonInv'
<1> USE DEF cacheVars, wayVars, draftVars
<1>1. /\ UNCHANGED <<given, logins, personList, listedFetch, known, knownFetch, behind, visits, deletion, draft, saving>>
      /\ removal[p].stage = "sent" /\ clearing[p].stage = "none"
  BY DEF PersonDeleted
<1>2. CASE removal' = [removal EXCEPT ![p].stage = "refused"] /\ UNCHANGED <<people, clearing>>
  <2> DEFINE r == [removal[p] EXCEPT !.stage = "refused"]
  <2>1. removal \in [PersonId -> Removal] /\ removal[p] \in Removal /\ QuestionFine(removal[p]) /\ removal[p].person = p
    BY <1>1, QuestionsOf
  <2>2. r \in Removal /\ r.stage = "refused" /\ r.told = removal[p].told /\ r.person = p
    BY <2>1 DEF Removal
  <2>3. removal' = [removal EXCEPT ![p] = r]
    BY <1>2, <2>1
  <2> HIDE DEF r
  <2>4. removal' \in [PersonId -> Removal] /\ removal'[p] = r /\ \A q \in PersonId : q # p => removal'[q] = removal[q]
    BY <2>1, <2>2, <2>3
  <2>5. QuestionFine(r)
    BY <2>1, <2>2 DEF QuestionFine
  <2>6. ASSUME NEW q \in PersonId
        PROVE  QuestionFine(removal'[q]) /\ (removal'[q].stage # "none" => removal'[q].person = q) /\ LoopFine(q)'
    <3>1. CASE q = p
      BY <1>1, <1>2, <2>2, <2>4, <2>5, <3>1 DEF LoopFine
    <3>2. CASE q # p
      BY <1>1, <1>2, <2>4, <3>2, QuestionsOf, LoopStays
    <3> QED BY <3>1, <3>2
  <2> QED BY <1>1, <1>2, <2>4, <2>6, QuestionsOf, QuestionStep
<1>3. CASE /\ p \in people /\ people' = people \ {p} /\ clearing' = [clearing EXCEPT ![p].stage = "gone"]
           /\ removal' = removal
  <2>1. /\ clearing \in [PersonId -> ClearRows] /\ people \subseteq PersonId /\ UnheardPersons(people)
        /\ QuestionFine(removal[p]) /\ removal[p].person = p
    BY <1>1, QuestionsOf, ListsOf
  <2>2. /\ clearing' \in [PersonId -> ClearRows] /\ clearing'[p].stage = "gone"
        /\ \A q \in PersonId : q # p => clearing'[q] = clearing[q]
    <3> DEFINE c == [clearing[p] EXCEPT !.stage = "gone"]
    <3>1. c \in ClearRows /\ c.stage = "gone" /\ clearing' = [clearing EXCEPT ![p] = c]
      BY <1>3, <2>1 DEF ClearRows
    <3> HIDE DEF c
    <3> QED BY <2>1, <3>1
  <2>3. PersonShapes'
    BY <1>1, <1>3, <2>1, <2>2 DEF PersonInv, PersonShapes
  <2>4. QuestionFine(deletion)' /\ \A q \in PersonId : QuestionFine(removal[q])'
    BY <1>1, <1>3, QuestionsOf DEF QuestionFine, FateOf, AccountsOf
  <2>5. \A a \in LoginId : removal[p].sure => removal[p].told[a] = FateOf(logins, p, a)
    BY <1>1, <1>3, <2>1 DEF QuestionFine
  <2>6. ASSUME NEW q \in PersonId PROVE LoopFine(q)'
    <3>1. CASE q = p
      BY <1>1, <1>3, <2>2, <2>5, <3>1 DEF LoopFine, FateOf, AccountsOf
    <3>2. CASE q # p
      BY <1>1, <1>3, <2>2, <3>2, QuestionsOf DEF LoopFine, Treated, FateOf, AccountsOf
    <3> QED BY <3>1, <3>2
  <2>7. /\ UnheardPersons(people)' /\ UnheardPersons(personList)' /\ UnheardPersons(listedFetch.answer)'
        /\ Unheard(logins)' /\ Unheard(known.rows)' /\ Unheard(knownFetch.answer)' /\ (saving'.made # 0 => given')
    BY <1>1, <1>3 DEF PersonInv, PersonFacts, UnheardPersons, Unheard
  <2>8. /\ known'.loaded /\ ~behind'.known => SaysRight(known.rows)'
        /\ knownFetch'.stage = "answered" /\ ~behind'.answer => SaysRight(knownFetch.answer)'
    BY <1>1, <1>3, ListsOf DEF SaysRight, FateOf, AccountsOf
  <2> QED BY <1>1, <1>3, <2>3, <2>4, <2>6, <2>7, <2>8, QuestionsOf DEF PersonInv, PersonFacts
<1> QED BY <1>2, <1>3 DEF PersonDeleted

LEMMA LinkedReadStep == ASSUME PersonInv, NEW p \in PersonId, LinkedRead(p) PROVE PersonInv'
<1> USE DEF peopleVars, cacheVars, wayVars, draftVars
<1> DEFINE read == [a \in LoginId |-> IF logins[a].there /\ logins[a].person = p THEN logins[a] ELSE NoLogin]
           c == [stage |-> "loop", rows |-> read]
<1>1. /\ UNCHANGED <<people, given, logins, personList, listedFetch, known, knownFetch, behind, visits, draft, saving>>
      /\ UNCHANGED <<deletion, removal>> /\ clearing[p].stage = "gone" /\ clearing' = [clearing EXCEPT ![p] = c]
  BY DEF LinkedRead
<1>2. clearing \in [PersonId -> ClearRows] /\ logins \in [LoginId -> Login] /\ LoopFine(p)
  BY QuestionsOf, ListsOf DEF LoginRows
<1>3. NoLogin \in Login /\ NoLogin.there = FALSE
  BY PersonIds DEF NoLogin, Login
<1>4. read \in LoginRows
  BY <1>2, <1>3 DEF LoginRows
<1>5. ASSUME removal[p].sure, NEW a \in LoginId PROVE Treated(removal[p].told[a], read[a], logins[a], p)
  <2>1. removal[p].told[a] = FateOf(logins, p, a)
    BY <1>1, <1>2, <1>5 DEF LoopFine
  <2> QED BY <1>3, <2>1 DEF Treated, FateOf, AccountsOf
<1> HIDE DEF read
<1>6. c \in ClearRows /\ c.stage = "loop" /\ c.rows = read
  BY <1>4 DEF ClearRows
<1> HIDE DEF c
<1>7. /\ clearing' \in [PersonId -> ClearRows] /\ clearing'[p] = c
      /\ \A q \in PersonId : q # p => clearing'[q] = clearing[q]
  BY <1>1, <1>2, <1>6
<1>8. ASSUME NEW q \in PersonId PROVE LoopFine(q)'
  <2>1. CASE q = p
    BY <1>1, <1>2, <1>5, <1>6, <1>7, <2>1 DEF LoopFine, Treated
  <2>2. CASE q # p
    BY <1>1, <1>7, <2>2, LoopStays
  <2> QED BY <2>1, <2>2
<1> QED BY <1>1, <1>7, <1>8, QuestionsOf, QuestionStep

LEMMA DeletionServedStep == ASSUME PersonInv, NEW p \in PersonId, DeletionServed(p) PROVE PersonInv'
<1> USE DEF peopleVars, cacheVars, wayVars, draftVars
<1>1. /\ UNCHANGED <<people, given, logins, personList, listedFetch, known, knownFetch, behind, visits, deletion, draft, saving>>
      /\ clearing[p].stage # "none" /\ clearing' = [clearing EXCEPT ![p] = NoClearing]
  BY DEF DeletionServed
<1>2. PICK st \in {"done", "refused"} : removal' = [removal EXCEPT ![p].stage = st]
  BY DEF DeletionServed
<1>3. removal[p].stage = "sent"
  BY <1>1, QuestionsOf DEF LoopFine
<1> QED BY <1>1, <1>2, <1>3, RequestEnds

\* One account of the loop: another person's accounts, as far as they are
\* still what was said of them, stay.
LEMMA AccountServedStep == ASSUME PersonInv, NEW p \in PersonId, NEW a \in LoginId, AccountServed(p, a) PROVE PersonInv'
<1> USE DEF wayVars, draftVars
<1> DEFINE v == IF ~logins[a].there \/ clearing[p].rows[a].viewer THEN NoLogin ELSE [logins[a] EXCEPT !.person = 0]
<1>1. /\ UNCHANGED <<people, given, personList, listedFetch, known, knownFetch, visits, draft, saving>>
      /\ clearing[p].stage = "loop" /\ clearing[p].rows[a].there
      /\ clearing' = [clearing EXCEPT ![p].rows[a] = NoLogin] /\ logins' = [logins EXCEPT ![a] = v]
  BY DEF AccountServed, Left
<1>2. /\ clearing \in [PersonId -> ClearRows] /\ logins \in [LoginId -> Login] /\ Unheard(logins) /\ LoopFine(p)
      /\ p \notin people /\ p # 0 /\ people \subseteq PersonId
  BY <1>1, QuestionsOf, ListsOf DEF LoginRows, LoopFine, PersonId
<1>3. NoLogin \in Login /\ NoLogin.there = FALSE /\ NoLogin.person = 0 /\ 0 # Persons
  BY PersonIds, PersonAssumption DEF NoLogin, Login
<1>4. /\ v \in Login /\ v.person = 0 /\ (v.there <=> logins[a].there /\ ~clearing[p].rows[a].viewer)
  <2>1. LET u == [logins[a] EXCEPT !.person = 0] IN u \in Login /\ u.there = logins[a].there /\ u.person = 0
    BY <1>2, <1>3 DEF Login
  <2>2. CASE ~logins[a].there \/ clearing[p].rows[a].viewer
    BY <1>3, <2>2
  <2>3. CASE logins[a].there /\ ~clearing[p].rows[a].viewer
    BY <2>1, <2>3
  <2> QED BY <2>2, <2>3
<1> HIDE DEF v
<1>5. logins' \in LoginRows /\ logins'[a] = v /\ \A b \in LoginId : b # a => logins'[b] = logins[b]
  BY <1>1, <1>2, <1>4 DEF LoginRows
<1>6. Unheard(logins')
  BY <1>2, <1>3, <1>4, <1>5, PersonIds DEF Unheard
<1>7. /\ clearing' \in [PersonId -> ClearRows] /\ clearing'[p].stage = "loop" /\ ~clearing'[p].rows[a].there
      /\ \A b \in LoginId : b # a => clearing'[p].rows[b] = clearing[p].rows[b]
      /\ \A q \in PersonId : q # p => clearing'[q] = clearing[q]
  <2> DEFINE rows == [clearing[p].rows EXCEPT ![a] = NoLogin]
             c == [clearing[p] EXCEPT !.rows = rows]
  <2>1. clearing[p].rows \in [LoginId -> Login] /\ clearing[p] \in ClearRows
    BY <1>2 DEF ClearRows, LoginRows
  <2>2. rows \in LoginRows /\ rows[a] = NoLogin /\ \A b \in LoginId : b # a => rows[b] = clearing[p].rows[b]
    BY <1>3, <2>1 DEF LoginRows
  <2>3. clearing' = [clearing EXCEPT ![p] = c]
    BY <1>1, <1>2
  <2> HIDE DEF rows
  <2>4. c \in ClearRows /\ c.rows = rows /\ c.stage = "loop"
    BY <1>1, <2>1, <2>2 DEF ClearRows
  <2> HIDE DEF c
  <2> QED BY <1>2, <1>3, <2>2, <2>3, <2>4
<1>8. CASE AccountsMove
  BY <1>1, <1>5, <1>6, <1>7, <1>8, UnsureStep
<1>9. CASE ~(logins[a].there /\ logins[a].person # p) /\ UNCHANGED <<behind, deletion, removal>>
  <2>1. ASSUME NEW q \in PersonId, q # p, NEW b \in LoginId PROVE FateOf(logins', q, b) = FateOf(logins, q, b)
    <3>1. CASE b = a
      <4>1. logins'[a].person = 0 /\ q # 0
        BY <1>4, <1>5, <2>1 DEF PersonId
      <4> QED BY <1>9, <2>1, <3>1, <4>1 DEF FateOf, AccountsOf
    <3>2. CASE b # a
      BY <1>5, <3>2 DEF FateOf, AccountsOf
    <3> QED BY <3>1, <3>2
  <2>2. \A q \in people, b \in LoginId : FateOf(logins', q, b) = FateOf(logins, q, b)
    BY <1>2, <2>1
  <2>3. PersonShapes'
    BY <1>1, <1>5, <1>7, <1>9 DEF PersonInv, PersonShapes
  <2>4. /\ SaysRight(known.rows) => SaysRight(known.rows)'
        /\ SaysRight(knownFetch.answer) => SaysRight(knownFetch.answer)'
    BY <1>1, <2>2 DEF SaysRight, FateOf, AccountsOf
  <2>5. QuestionFine(deletion)' /\ \A q \in PersonId : QuestionFine(removal[q])'
    BY <1>1, <1>9, <2>2, QuestionsOf DEF QuestionFine, FateOf, AccountsOf
  <2>6. ASSUME NEW q \in PersonId, q # p PROVE LoopFine(q)'
    <3>1. LoopFine(q) /\ removal'[q] = removal[q] /\ clearing'[q] = clearing[q] /\ people' = people
      BY <1>1, <1>7, <1>9, <2>6, QuestionsOf
    <3>2. ASSUME NEW b \in LoginId, Treated(removal[q].told[b], clearing[q].rows[b], logins[b], q)
          PROVE  Treated(removal[q].told[b], clearing[q].rows[b], logins'[b], q)
      <4>1. CASE b # a
        BY <1>5, <3>2, <4>1
      <4>2. CASE b = a /\ ~logins[a].there
        BY <1>4, <1>5, <3>2, <4>2 DEF Treated
      <4>3. CASE b = a /\ logins[a].there /\ logins[a].person = p
        BY <1>2, <2>6, <3>2, <4>3 DEF Treated
      <4> QED BY <1>9, <4>1, <4>2, <4>3
    <3>3. clearing'[q].stage = "gone" /\ removal'[q].sure => \A b \in LoginId : removal'[q].told[b] = FateOf(logins', q, b)
      BY <2>1, <2>6, <3>1 DEF LoopFine
    <3>4. clearing'[q].stage = "loop" /\ removal'[q].sure =>
            \A b \in LoginId : Treated(removal'[q].told[b], clearing'[q].rows[b], logins'[b], q)
      BY <3>1, <3>2 DEF LoopFine
    <3> QED BY <3>1, <3>3, <3>4 DEF LoopFine, FateOf, AccountsOf, Treated
  <2>7. LoopFine(p)'
    <3>1. ASSUME removal[p].sure, NEW b \in LoginId
          PROVE  Treated(removal[p].told[b], clearing'[p].rows[b], logins'[b], p)
      <4>1. Treated(removal[p].told[b], clearing[p].rows[b], logins[b], p)
        BY <1>1, <1>2, <3>1 DEF LoopFine
      <4>2. CASE b # a
        BY <1>5, <1>7, <4>1, <4>2
      <4>3. CASE b = a
        BY <1>1, <1>4, <1>5, <1>7, <4>1, <4>3 DEF Treated
      <4> QED BY <4>2, <4>3
    <3>2. removal' = removal /\ clearing'[p].stage = "loop" /\ removal[p].stage = "sent" /\ p \notin people'
      BY <1>1, <1>2, <1>7, <1>9 DEF LoopFine
    <3> QED BY <3>1, <3>2 DEF LoopFine, Treated
  <2>8. /\ UnheardPersons(people)' /\ UnheardPersons(personList)' /\ UnheardPersons(listedFetch.answer)'
        /\ Unheard(logins)' /\ Unheard(known.rows)' /\ Unheard(knownFetch.answer)' /\ (saving'.made # 0 => given')
    BY <1>1, <1>6 DEF PersonInv, PersonFacts, UnheardPersons, Unheard
  <2>9. /\ known'.loaded /\ ~behind'.known => SaysRight(known.rows)'
        /\ knownFetch'.stage = "answered" /\ ~behind'.answer => SaysRight(knownFetch.answer)'
    BY <1>1, <1>9, <2>4, ListsOf
  <2> QED BY <1>1, <1>9, <2>3, <2>5, <2>6, <2>7, <2>8, <2>9, QuestionsOf DEF PersonInv, PersonFacts
<1> QED BY <1>8, <1>9 DEF AccountServed

LEMMA DeletionOverStep == ASSUME PersonInv, NEW p \in PersonId, NEW ok \in BOOLEAN, DeletionOver(p, ok) PROVE PersonInv'
<1> USE DEF peopleVars, draftVars
<1>1. /\ UNCHANGED <<people, given, logins, known, behind, deletion, clearing, draft, saving>> /\ visits # <<>>
      /\ removal' = [removal EXCEPT ![p] = NoRemoval] /\ removal[p].stage # "sent"
  BY DEF DeletionOver, Here
<1>2. removal' \in [PersonId -> Removal] /\ removal'[p] = NoRemoval /\ \A q \in PersonId : q # p => removal'[q] = removal[q]
  BY <1>1, QuestionsOf, NoRemovalFine
<1>3. \A q \in PersonId : QuestionFine(removal'[q]) /\ (removal'[q].stage # "none" => removal'[q].person = q)
  BY <1>2, QuestionsOf, NoRemovalFine
<1>4. /\ personList' \subseteq personList
      /\ UNCHANGED <<listedFetch, knownFetch>> \/ (listedFetch' = Loading /\ knownFetch' = Asking)
  BY DEF DeletionOver, AfterChange
<1>5. visits' \in Seq(Visit)
  <2>1. visits \in Seq(Visit) /\ [person |-> 0, fromList |-> FALSE] \in Visit
    BY ShapesOf, PersonIds DEF Visit
  <2>2. visits' = visits \/ visits' = ReplaceLast(visits, [person |-> 0, fromList |-> FALSE])
    BY DEF DeletionOver, LeaveDetail
  <2> QED BY <1>1, <2>1, <2>2, WayFine
<1>6. /\ listedFetch' \in [stage: {"none", "asked", "answered"}, answer: SUBSET PersonId]
      /\ knownFetch' \in [stage: {"none", "asked", "answered"}, answer: LoginRows]
      /\ UnheardPersons(listedFetch'.answer) /\ Unheard(knownFetch'.answer)
      /\ knownFetch'.stage = "answered" => knownFetch' = knownFetch
  BY <1>4, ListsOf, ListedAnew, KnownAnew, NoLoginsFine
<1>7. personList' \subseteq PersonId /\ UnheardPersons(personList')
  BY <1>4, ListsOf DEF UnheardPersons
<1>8. PersonShapes'
  BY <1>1, <1>2, <1>5, <1>6, <1>7 DEF PersonInv, PersonShapes
<1>12. ASSUME NEW q \in PersonId PROVE LoopFine(q)'
  <2>1. CASE q = p
    <3>1. clearing'[q].stage = "none"
      BY <1>1, <2>1, QuestionsOf DEF LoopFine
    <3> QED BY <3>1 DEF LoopFine
  <2>2. CASE q # p
    BY <1>1, <1>2, <2>2, LoopStays
  <2> QED BY <2>1, <2>2
<1>9. QuestionFine(deletion)' /\ \A q \in PersonId : QuestionFine(removal[q])'
  BY <1>1, <1>3, QuestionsOf DEF QuestionFine, FateOf, AccountsOf
<1>10. /\ UnheardPersons(people)' /\ UnheardPersons(personList)' /\ UnheardPersons(listedFetch.answer)'
       /\ Unheard(logins)' /\ Unheard(known.rows)' /\ Unheard(knownFetch.answer)' /\ (saving'.made # 0 => given')
  BY <1>1, <1>6, <1>7 DEF PersonInv, PersonFacts, UnheardPersons, Unheard
<1>11. /\ known'.loaded /\ ~behind'.known => SaysRight(known.rows)'
       /\ knownFetch'.stage = "answered" /\ ~behind'.answer => SaysRight(knownFetch.answer)'
  BY <1>1, <1>6, ListsOf DEF SaysRight, FateOf, AccountsOf
<1> QED BY <1>1, <1>3, <1>8, <1>9, <1>10, <1>11, <1>12, QuestionsOf DEF PersonInv, PersonFacts

-----------------------------------------------------------------------------
(* A person is made.                                                       *)

LEMMA PersonSavedStep == ASSUME PersonInv, PersonSaved PROVE PersonInv'
<1> USE DEF peopleVars, wayVars, deleteVars
<1>1. /\ UNCHANGED <<personList, listedFetch, known, knownFetch, visits, deletion, removal, clearing, draft>>
      /\ saving.stage = "sent" /\ saving \in SavingRow
  BY ShapesOf DEF PersonSaved
<1>2. CASE UNCHANGED <<people, given, logins, behind>> /\ saving' \in {[saving EXCEPT !.stage = "done"], [saving EXCEPT !.stage = "refused"]}
  <2>1. saving' \in SavingRow /\ saving'.made = saving.made
    BY <1>1, <1>2 DEF SavingRow
  <2> QED BY <1>1, <1>2, <2>1, ShapesOf, WayStep DEF CoreStays
<1>3. CASE saving.id = 0 /\ ~given /\ given' = TRUE /\ people' = people \cup {Persons}
           /\ \E login \in BOOLEAN :
                /\ logins' = IF ~login THEN logins ELSE
                        [logins EXCEPT ![PersonAccounts] = [person |-> Persons, viewer |-> TRUE, there |-> TRUE]]
                /\ behind' = IF login THEN [known |-> TRUE, answer |-> TRUE] ELSE behind
                /\ saving' = [saving EXCEPT !.stage = "done", !.made = Persons, !.login = login]
  <2>1. PICK login \in BOOLEAN :
                /\ logins' = IF ~login THEN logins ELSE
                        [logins EXCEPT ![PersonAccounts] = [person |-> Persons, viewer |-> TRUE, there |-> TRUE]]
                /\ behind' = IF login THEN [known |-> TRUE, answer |-> TRUE] ELSE behind
                /\ saving' = [saving EXCEPT !.stage = "done", !.made = Persons, !.login = login]
    BY <1>3
  <2>2. logins \in [LoginId -> Login] /\ Unheard(logins) /\ people \subseteq PersonId
    BY ListsOf DEF LoginRows
  <2>3. /\ logins' \in LoginRows
        /\ \A a \in LoginId : a # PersonAccounts => logins'[a] = logins[a]
        /\ login => logins'[PersonAccounts].person = Persons
        /\ ~login => logins' = logins
    <3>1. [person |-> Persons, viewer |-> TRUE, there |-> TRUE] \in Login
      BY PersonIds DEF Login
    <3> QED BY <2>1, <2>2, <3>1, PersonIds DEF LoginRows
  <2>4. saving' \in SavingRow
    BY <1>1, <2>1, PersonIds DEF SavingRow
  <2>5. people' \subseteq PersonId /\ behind' \in [known: BOOLEAN, answer: BOOLEAN]
        /\ (login => behind'.known /\ behind'.answer) /\ (~login => behind' = behind)
    BY <1>3, <2>1, <2>2, ListsOf, PersonIds
  <2>6. PersonShapes'
    BY <1>1, <1>3, <2>3, <2>4, <2>5 DEF PersonInv, PersonShapes
  <2>7. ASSUME NEW x, QuestionFine(x), x.stage \in {"asked", "sent"}, x.sure, x.person \in people',
               NEW a \in LoginId
        PROVE  x.told[a] = FateOf(logins', x.person, a)
    <3>1. x.person \in people /\ x.person # Persons /\ x.told[PersonAccounts] = "kept"
      BY <1>3, <2>7 DEF QuestionFine
    <3>2. CASE logins'[a] = logins[a]
      BY <2>7, <3>1, <3>2 DEF QuestionFine, FateOf, AccountsOf
    <3>3. CASE logins'[a] # logins[a]
      <4>1. a = PersonAccounts /\ logins'[a].person = Persons
        BY <2>3, <3>3
      <4> QED BY <3>1, <4>1 DEF FateOf, AccountsOf
    <3> QED BY <3>2, <3>3
  <2>8. ASSUME NEW rows, Unheard(rows), SaysRight(rows), ~login, NEW q \in people', NEW a \in LoginId
        PROVE  FateOf(rows, q, a) = FateOf(logins', q, a)
    <3>1. logins' = logins
      BY <2>3, <2>8
    <3>2. CASE q = Persons
      BY <1>3, <2>2, <2>8, <3>1, <3>2 DEF Unheard, FateOf, AccountsOf
    <3>3. CASE q \in people
      BY <2>8, <3>1, <3>3 DEF SaysRight
    <3> QED BY <1>3, <3>2, <3>3
  <2>9. QuestionFine(deletion)'
    <3>1. QuestionFine(deletion) /\ deletion' = deletion /\ given' = TRUE
      BY <1>1, <1>3, QuestionsOf
    <3> QED BY <2>7, <3>1 DEF QuestionFine
  <2>10. ASSUME NEW q \in PersonId PROVE QuestionFine(removal[q])'
    <3>1. QuestionFine(removal[q]) /\ removal'[q] = removal[q] /\ given' = TRUE
      BY <1>1, <1>3, QuestionsOf
    <3> QED BY <2>7, <3>1 DEF QuestionFine
  <2>11. /\ known'.loaded /\ ~behind'.known => SaysRight(known.rows)'
         /\ knownFetch'.stage = "answered" /\ ~behind'.answer => SaysRight(knownFetch.answer)'
    <3>1. ~login /\ SaysRight(known.rows) => SaysRight(known.rows)'
      BY <1>1, <2>8, ListsOf DEF SaysRight, FateOf, AccountsOf
    <3>2. ~login /\ SaysRight(knownFetch.answer) => SaysRight(knownFetch.answer)'
      BY <1>1, <2>8, ListsOf DEF SaysRight, FateOf, AccountsOf
    <3> QED BY <1>1, <2>5, <3>1, <3>2, ListsOf
  <2>12. /\ UnheardPersons(people)' /\ UnheardPersons(personList)' /\ UnheardPersons(listedFetch.answer)'
         /\ Unheard(logins)' /\ Unheard(known.rows)' /\ Unheard(knownFetch.answer)' /\ (saving'.made # 0 => given')
    BY <1>3 DEF UnheardPersons, Unheard
  <2>13. ASSUME NEW q \in PersonId, clearing[q].stage # "none" PROVE LoopFine(q)'
    <3>1. /\ removal[q].stage = "sent" /\ removal[q].person = q /\ q \notin people /\ q # Persons
          /\ removal[q].told[PersonAccounts] = "kept" /\ LoopFine(q)
      BY <1>3, <2>13, QuestionsOf DEF LoopFine, QuestionFine
    <3>2. ASSUME NEW a \in LoginId PROVE logins'[a] = logins[a] \/ (a = PersonAccounts /\ logins'[a].person = Persons)
      BY <2>3
    <3>3. ASSUME NEW a \in LoginId, removal[q].told[a] = FateOf(logins, q, a)
          PROVE  removal[q].told[a] = FateOf(logins', q, a)
      BY <3>1, <3>2, <3>3 DEF FateOf, AccountsOf
    <3>4. ASSUME NEW a \in LoginId, Treated(removal[q].told[a], clearing[q].rows[a], logins[a], q)
          PROVE  Treated(removal[q].told[a], clearing[q].rows[a], logins'[a], q)
      BY <3>1, <3>2, <3>4 DEF Treated
    <3>5. q \notin people' /\ removal' = removal /\ clearing' = clearing
      BY <1>1, <1>3, <3>1
    <3> QED BY <3>1, <3>3, <3>4, <3>5 DEF LoopFine, FateOf, AccountsOf, Treated
  <2>14. \A q \in PersonId : LoopFine(q)'
    <3>1. \A q \in PersonId : clearing[q].stage = "none" => LoopFine(q)'
      BY <1>1 DEF LoopFine
    <3> QED BY <2>13, <3>1
  <2> QED BY <1>1, <2>6, <2>9, <2>10, <2>11, <2>12, <2>14, QuestionsOf DEF PersonInv, PersonFacts
<1> QED BY <1>2, <1>3 DEF PersonSaved

LEMMA SaveDoneStep == ASSUME PersonInv, SaveDone PROVE PersonInv'
<1> USE DEF peopleVars, deleteVars
<1>1. /\ QuestionsStand /\ UNCHANGED <<known, behind>> /\ saving' = NoSaving /\ draft' = NoDraft
      /\ listedFetch' = Loading /\ knownFetch' = Asking /\ saving \in SavingRow /\ (saving.made # 0 => given)
  BY ShapesOf DEF SaveDone, AfterChange, QuestionsStand
<1>2. /\ NoSaving \in SavingRow /\ NoSaving.made = 0 /\ NoDraft \in [open: BOOLEAN, id: 0 .. Persons]
  BY PersonIds DEF NoSaving, SavingRow, NoDraft
<1>3. saving.made \in 0 .. Persons /\ saving.selected \in 0 .. Persons
  BY <1>1 DEF SavingRow
<1>4. /\ visits' \in Seq(Visit) /\ personList' \subseteq PersonId /\ UnheardPersons(personList')
  <2>1. CASE saving.made # 0
    <3>1. [person |-> saving.made, fromList |-> saving.selected = 0] \in Visit
      BY <1>3 DEF Visit
    <3>2. visits' = Append(visits, [person |-> saving.made, fromList |-> saving.selected = 0])
          /\ personList' = personList \cup {saving.made}
      BY <2>1 DEF SaveDone, Goes
    <3>3. saving.made \in PersonId
      BY <1>3, <2>1, PersonIds DEF PersonId
    <3> QED BY <1>1, <2>1, <3>1, <3>2, <3>3, ShapesOf, WayFine, ListsOf DEF UnheardPersons
  <2>2. CASE saving.made = 0
    BY <2>2, ShapesOf, ListsOf DEF SaveDone
  <2> QED BY <2>1, <2>2
<1>5. /\ listedFetch' \in [stage: {"none", "asked", "answered"}, answer: SUBSET PersonId]
      /\ knownFetch' \in [stage: {"none", "asked", "answered"}, answer: LoginRows]
      /\ UnheardPersons(listedFetch'.answer) /\ Unheard(knownFetch'.answer) /\ knownFetch'.stage = "asked"
  BY <1>1, ListedAnew, KnownAnew, NoLoginsFine
<1>6. PersonShapes'
  BY <1>1, <1>2, <1>4, <1>5 DEF PersonInv, PersonShapes, QuestionsStand
<1>7. QuestionFine(deletion)' /\ \A q \in PersonId : QuestionFine(removal[q])'
  BY <1>1, QuestionsOf DEF QuestionFine, FateOf, AccountsOf, QuestionsStand
<1>8. /\ UnheardPersons(people)' /\ UnheardPersons(personList)' /\ UnheardPersons(listedFetch.answer)'
      /\ Unheard(logins)' /\ Unheard(known.rows)' /\ Unheard(knownFetch.answer)' /\ (saving'.made # 0 => given')
  BY <1>1, <1>2, <1>4, <1>5, ListsOf DEF UnheardPersons, Unheard, QuestionsStand
<1>9. known'.loaded /\ ~behind'.known => SaysRight(known.rows)'
  BY <1>1, ListsOf DEF SaysRight, FateOf, AccountsOf, QuestionsStand
<1>10. UNCHANGED <<deletion, removal>>
  BY <1>1 DEF QuestionsStand
<1>11. \A q \in PersonId : LoopFine(q)'
  BY <1>1, LoopStays DEF QuestionsStand
<1> QED BY <1>5, <1>6, <1>7, <1>8, <1>9, <1>10, <1>11, QuestionsOf DEF PersonInv, PersonFacts

-----------------------------------------------------------------------------
(* Every step.                                                             *)

LEMMA PersonInvStep == PersonInv /\ [PersonNext]_personVars => PersonInv'
<1> SUFFICES ASSUME PersonInv, [PersonNext]_personVars PROVE PersonInv'
  OBVIOUS
<1>1. CASE BackToList \/ StepsBack \/ BrowserBack \/ NarrowList \/ CloseDraft \/ SaveDraft \/ SaveFails
           \/ LoginCopied \/ (\E p \in PersonId : SelectPerson(p)) \/ (\E id \in PersonId \cup {0} : OpenDraft(id))
           \/ (\E b \in BOOLEAN : LoginClosed(b) \/ LoginGivenUp(b))
  BY <1>1, WaySteps
<1>2. CASE Fetches \/ ListsServed \/ ListedArrives \/ KnownArrives \/ ListsLost
  BY <1>2, ListSteps
<1>3. CASE AskDeletion \/ DeclineDeletion \/ ConfirmDeletion
  BY <1>3, AskDeletionStep, AnswerSteps
<1>4. CASE \E a \in LoginId : OtherAdminActs(a)
  BY <1>4, OtherAdminStep
<1>5. CASE \E p \in PersonId : \/ PersonDeleted(p) \/ LinkedRead(p) \/ DeletionServed(p)
                                \/ \E ok \in BOOLEAN : DeletionOver(p, ok)
                                \/ \E a \in LoginId : AccountServed(p, a)
  BY <1>5, PersonDeletedStep, LinkedReadStep, DeletionServedStep, DeletionOverStep, AccountServedStep
<1>6. CASE PersonSaved \/ SaveDone
  BY <1>6, PersonSavedStep, SaveDoneStep
<1>7. CASE UNCHANGED personVars
  <2>1. CoreStays /\ UNCHANGED <<visits, draft, saving>>
    BY <1>7 DEF personVars, CoreStays
  <2> QED BY <2>1, ShapesOf, WayStep
<1> QED BY <1>1, <1>2, <1>3, <1>4, <1>5, <1>6, <1>7 DEF PersonNext

FateKept ==
    \A p \in PersonId : removal[p].sure =>
          \A a \in LoginId :
             /\ removal[p].stage = "sent" /\ removal'[p].stage = "done" =>
                   CASE removal[p].told[a] = "deleted"  -> ~logins[a].there
                     [] removal[p].told[a] = "unlinked" -> logins[a].there /\ logins[a].person = 0
                     [] removal[p].told[a] = "kept"     -> TRUE
             /\ clearing'[p] # clearing[p] /\ logins'[a] # logins[a] =>
                   removal[p].told[a] = (IF logins'[a].there THEN "unlinked" ELSE "deleted")

\* Only its own request makes a deletion done.
LEMMA DoneByRequest ==
    ASSUME PersonInv, [PersonNext]_personVars, NEW p \in PersonId, removal[p].stage = "sent", removal'[p].stage = "done"
    PROVE  DeletionServed(p)
<1> USE DEF peopleVars, cacheVars, wayVars, deleteVars, draftVars
<1>1. removal \in [PersonId -> Removal] /\ removal[p] \in Removal /\ removal'[p] # removal[p]
  BY QuestionsOf
<1>2. CASE \E q \in PersonId : DeletionServed(q)
  <2>1. PICK q \in PersonId : DeletionServed(q)
    BY <1>2
  <2>2. removal'[p] # removal[p] => q = p
    BY <1>1, <2>1 DEF DeletionServed
  <2> QED BY <1>1, <2>1, <2>2
<1>3. CASE \E q \in PersonId, ok \in BOOLEAN : DeletionOver(q, ok)
  <2>1. PICK q \in PersonId : removal' = [removal EXCEPT ![q] = NoRemoval]
    BY <1>3 DEF DeletionOver
  <2>2. removal'[p] = NoRemoval \/ removal'[p] = removal[p]
    BY <1>1, <2>1
  <2> QED BY <1>1, <2>2, NoRemovalFine
<1>4. CASE ConfirmDeletion
  <2>1. removal[deletion.person].stage = "none" /\ removal' = [removal EXCEPT ![deletion.person] = [deletion EXCEPT !.stage = "sent"]]
    BY <1>4 DEF ConfirmDeletion
  <2>2. deletion.person # p
    BY <2>1
  <2> QED BY <1>1, <2>1, <2>2
<1>5. CASE AccountsMove
  <2>1. removal'[p] = [removal[p] EXCEPT !.sure = FALSE]
    BY <1>5 DEF AccountsMove
  <2>2. removal'[p].stage = removal[p].stage
    BY <1>1, <2>1 DEF Removal
  <2> QED BY <2>2
<1>6. CASE removal' = removal
  BY <1>1, <1>6
<1>7. CASE \E q \in PersonId : removal' = [removal EXCEPT ![q].stage = "refused"]
  <2>1. PICK q \in PersonId : removal' = [removal EXCEPT ![q].stage = "refused"]
    BY <1>7
  <2>2. removal'[p].stage \in {"refused", removal[p].stage}
    BY <1>1, <2>1 DEF Removal
  <2> QED BY <2>2
<1>8. CASE \E q \in PersonId : PersonDeleted(q) \/ LinkedRead(q)
  BY <1>6, <1>7, <1>8 DEF PersonDeleted, LinkedRead
<1>9. CASE \E q \in PersonId, a \in LoginId : AccountServed(q, a)
  BY <1>5, <1>6, <1>9 DEF AccountServed
<1>10. CASE \E a \in LoginId : OtherAdminActs(a)
  BY <1>5, <1>10 DEF OtherAdminActs
<1> QED BY <1>2, <1>3, <1>4, <1>6, <1>8, <1>9, <1>10
        DEF PersonNext, personVars, BackToList, StepsBack, BrowserBack, NarrowList, Fetches, ListsServed, ListedArrives,
            KnownArrives, ListsLost, AskDeletion, DeclineDeletion, CloseDraft, SaveDraft, PersonSaved, SaveDone,
            SaveFails, LoginCopied, SelectPerson, OpenDraft, LoginClosed, LoginGivenUp

\* Only the loop's steps touch an account while a deletion moves.
LEMMA TouchedByLoop ==
    ASSUME [PersonNext]_personVars, clearing' # clearing, logins' # logins
    PROVE  \E q \in PersonId, a \in LoginId : AccountServed(q, a)
BY DEF PersonNext, personVars, BackToList, StepsBack, BrowserBack, NarrowList, Fetches, ListsServed, ListedArrives,
       KnownArrives, ListsLost, AskDeletion, DeclineDeletion, ConfirmDeletion, CloseDraft, SaveDraft, PersonSaved,
       SaveDone, SaveFails, LoginCopied, SelectPerson, OpenDraft, LoginClosed, LoginGivenUp, OtherAdminActs,
       DeletionOver, PersonDeleted, LinkedRead, DeletionServed, peopleVars, deleteVars

LEMMA FateStep == ASSUME PersonInv, [PersonNext]_personVars PROVE FateKept
<1> SUFFICES ASSUME NEW p \in PersonId, removal[p].sure, NEW a \in LoginId
             PROVE  /\ removal[p].stage = "sent" /\ removal'[p].stage = "done" =>
                          CASE removal[p].told[a] = "deleted"  -> ~logins[a].there
                            [] removal[p].told[a] = "unlinked" -> logins[a].there /\ logins[a].person = 0
                            [] removal[p].told[a] = "kept"     -> TRUE
                    /\ clearing'[p] # clearing[p] /\ logins'[a] # logins[a] =>
                          removal[p].told[a] = (IF logins'[a].there THEN "unlinked" ELSE "deleted")
  BY DEF FateKept
<1>1. removal \in [PersonId -> Removal] /\ LoopFine(p) /\ clearing \in [PersonId -> ClearRows]
  BY QuestionsOf
<1>2. ASSUME removal[p].stage = "sent", removal'[p].stage = "done"
      PROVE  CASE removal[p].told[a] = "deleted"  -> ~logins[a].there
               [] removal[p].told[a] = "unlinked" -> logins[a].there /\ logins[a].person = 0
               [] removal[p].told[a] = "kept"     -> TRUE
  <2>1. removal' # [removal EXCEPT ![p].stage = "refused"]
    <3>1. removal[p] \in Removal
      BY <1>1
    <3>2. [removal EXCEPT ![p].stage = "refused"][p].stage = "refused"
      BY <1>1, <3>1 DEF Removal
    <3> QED BY <1>2, <3>2
  <2>2. clearing[p].stage = "loop" /\ Left(p) = {}
    BY <1>2, <2>1, DoneByRequest DEF DeletionServed
  <2>3. ~clearing[p].rows[a].there
    BY <2>2 DEF Left
  <2>4. Treated(removal[p].told[a], clearing[p].rows[a], logins[a], p)
    BY <1>1, <2>2 DEF LoopFine
  <2>5. removal[p].told[a] \in Fate
    BY <1>1 DEF Removal
  <2> QED BY <2>3, <2>4, <2>5 DEF Treated, Fate
<1>3. ASSUME clearing'[p] # clearing[p], logins'[a] # logins[a]
      PROVE  removal[p].told[a] = (IF logins'[a].there THEN "unlinked" ELSE "deleted")
  <2>1. PICK q \in PersonId, b \in LoginId : AccountServed(q, b)
    BY <1>3, TouchedByLoop
  <2> DEFINE v == IF ~logins[b].there \/ clearing[q].rows[b].viewer THEN NoLogin ELSE [logins[b] EXCEPT !.person = 0]
  <2>2. /\ clearing' = [clearing EXCEPT ![q].rows[b] = NoLogin] /\ clearing[q].stage = "loop"
        /\ clearing[q].rows[b].there /\ logins' = [logins EXCEPT ![b] = v]
    BY <2>1 DEF AccountServed, Left
  <2>3. q = p
    BY <1>1, <1>3, <2>2
  <2>4. a = b /\ logins'[a] = v /\ logins[a] \in Login
    <3> HIDE DEF v
    <3> QED BY <1>3, <2>2, ListsOf DEF LoginRows
  <2>5. Treated(removal[p].told[a], clearing[p].rows[a], logins[a], p)
    BY <1>1, <2>2, <2>3 DEF LoopFine
  <2>6. /\ logins[a].there /\ clearing[p].rows[a].viewer = logins[a].viewer
        /\ removal[p].told[a] = (IF logins[a].viewer THEN "deleted" ELSE "unlinked")
    BY <2>2, <2>3, <2>4, <2>5 DEF Treated
  <2>7. [logins[a] EXCEPT !.person = 0].there = logins[a].there
    BY <2>4 DEF Login
  <2> QED BY <2>3, <2>4, <2>6, <2>7 DEF NoLogin
<1> QED BY <1>2, <1>3

\* What the question said of each account has been done when the deletion says
\* it is done, and every account that it touches on the way, through or not, is
\* treated as said, although delete_person commits the person and each account
\* on its own; unless an account was made, changed or moved since the list was
\* answered (accountsOf and accountFate against delete_person).
THEOREM FateIsTold == PersonSpec => FateAsTold
<1>1. PersonInit => PersonInv
  BY PersonInvInit
<1>2. PersonInv /\ [PersonNext]_personVars => PersonInv'
  BY PersonInvStep
<1>3. PersonInv /\ [PersonNext]_personVars => [FateKept]_personVars
  BY FateStep
<1> QED BY <1>1, <1>2, <1>3, PTL DEF PersonSpec, FateAsTold, FateKept
=============================================================================
