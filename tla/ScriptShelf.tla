----------------------------- MODULE ScriptShelf -----------------------------
(***************************************************************************)
(* The script library (pages/scripts): a list and, next to it, the script  *)
(* address names or an editor.  A script is read, run on a device, edited, *)
(* copied and deleted there.                                               *)
(*                                                                         *)
(* What a script does is abstracted to whether it is destructive.  The     *)
(* filters of the list and the layout of a phone, which shows the list or  *)
(* the script, are left out.                                               *)
(***************************************************************************)
EXTENDS Naturals, FiniteSets

CONSTANTS
    MaxScripts,     \* how many scripts there may ever be
    FirstScripts,   \* how many there are at first
    RunDevices,     \* the devices a script may run on
    ScriptCalls,    \* how many requests may be under way
    MaxShelfMoves   \* steps of the user and of others

ASSUME ShelfAssumption ==
    MaxScripts \in Nat /\ FirstScripts \in 0 .. MaxScripts /\ ScriptCalls \in Nat /\ MaxShelfMoves \in Nat

VARIABLES
    stored,         \* server: whether a script is there, and destructive
    written,        \* server: how many were ever written, which are the ids used
    shelf,          \* the cached list, NoShelf before it has come
    shelfFetch,     \* its load: stage and the server's answer
    shelfLoad,      \* "none", "ok", "failed"
    unseen,         \* history: since the last answer, the library changed behind the page's back
    scriptAddress,  \* ?script=, 0 for none
    scriptDraft,    \* the editor: NoScriptDraft, or what it edits, what was typed and its own request
    target,         \* the device chosen for the script shown, 0 for none
    console,        \* the script whose run the shown console follows, 0 for none
    linked,         \* the devices that are connected
    scriptQuestion, \* the open confirmation
    scriptCalls,    \* the requests under way
    shelfMoves

storeVars == <<stored, written>>
shelfVars == <<shelf, shelfFetch, shelfLoad>>
sideVars == <<scriptAddress, scriptDraft, target, console>>
scriptVars == <<storeVars, shelfVars, unseen, sideVars, linked, scriptQuestion, scriptCalls, shelfMoves>>

-----------------------------------------------------------------------------
ScriptKey == 1 .. MaxScripts
RunSlot == 1 .. ScriptCalls
NoScript == [there |-> FALSE, danger |-> FALSE]
NoShelf == <<>>
NoShelfFetch == [stage |-> "none", answer |-> NoShelf]
ShelfFetch == [stage |-> "asked", answer |-> NoShelf]
NoScriptDraft == [script |-> 0, as |-> "none", first |-> FALSE, typed |-> FALSE, call |-> 0]
NoAsk == [kind |-> "none", script |-> 0, device |-> 0]
NoScriptCall == [kind |-> "none", script |-> 0, danger |-> FALSE, shown |-> FALSE, stage |-> "none"]

ScriptTypeOK ==
    /\ stored \in [ScriptKey -> [there: BOOLEAN, danger: BOOLEAN]] /\ written \in FirstScripts .. MaxScripts
    /\ shelf = NoShelf \/ shelf \in [ScriptKey -> [there: BOOLEAN, danger: BOOLEAN]]
    /\ shelfFetch.stage \in {"none", "asked", "answered"} /\ shelfLoad \in {"none", "ok", "failed"}
    /\ unseen \in BOOLEAN /\ scriptAddress \in ScriptKey \cup {0}
    /\ scriptDraft \in [script: ScriptKey \cup {0}, as: {"none", "edit", "blank", "template", "copy"},
                  first: BOOLEAN, typed: BOOLEAN, call: RunSlot \cup {0}]
    /\ target \in RunDevices \cup {0} /\ console \in ScriptKey \cup {0} /\ linked \subseteq RunDevices
    /\ scriptQuestion \in [kind: {"none", "run", "delete"}, script: ScriptKey \cup {0},
                           device: RunDevices \cup {0}]
    /\ scriptCalls \in [RunSlot -> [kind: {"none", "save", "delete", "run"}, script: ScriptKey \cup {0},
                                    danger: BOOLEAN, shown: BOOLEAN,
                                    stage: {"none", "sent", "done", "refused", "loading"}]]

ScriptInit ==
    /\ stored = [s \in ScriptKey |-> [there |-> s <= FirstScripts, danger |-> FALSE]]
    /\ written = FirstScripts
    /\ shelf = NoShelf /\ shelfFetch = ShelfFetch /\ shelfLoad = "none" /\ unseen = FALSE
    /\ scriptAddress = 0 /\ scriptDraft = NoScriptDraft /\ target = 0 /\ console = 0 /\ linked = RunDevices
    /\ scriptQuestion = NoAsk /\ scriptCalls = [c \in RunSlot |-> NoScriptCall] /\ shelfMoves = 0

ShelfMove == shelfMoves < MaxShelfMoves /\ shelfMoves' = shelfMoves + 1
Unasked == scriptQuestion = NoAsk

-----------------------------------------------------------------------------
(* What is on the screen.  A failed load takes the list and all next to it *)
(* off, an older list or not.                                              *)

OnShelf(s) == s \in DOMAIN shelf /\ shelf[s].there
LaidOut == shelfLoad = "ok"
EditorShown == LaidOut /\ scriptDraft # NoScriptDraft
ShownScript == IF LaidOut /\ scriptDraft = NoScriptDraft /\ OnShelf(scriptAddress) THEN scriptAddress ELSE 0

\* ScriptDetail is keyed by its script: another one, or none, and it starts
\* afresh.  Its question goes with it, and what its runs answer is lost on it.
DetailFollows(on, jobs, asked, calls) ==
    LET same == ShownScript' = ShownScript IN
    /\ target' = IF same THEN on ELSE 0
    /\ console' = IF same THEN jobs ELSE 0
    /\ scriptQuestion' = IF same \/ asked.kind # "run" THEN asked ELSE NoAsk
    /\ scriptCalls' = IF same THEN calls
                      ELSE [c \in RunSlot |-> [calls[c] EXCEPT !.shown = FALSE]]
DetailStays == DetailFollows(target, console, scriptQuestion, scriptCalls)

\* An editor that is taken off the screen forgets what was typed, and who asked.
EditorFollows ==
    scriptDraft' = IF scriptDraft # NoScriptDraft /\ EditorShown /\ ~LaidOut'
               THEN [scriptDraft EXCEPT !.typed = scriptDraft.first, !.call = 0] ELSE scriptDraft

\* invalidateQueries: what is under way is given up and asked again, except
\* the first load, which is joined.
JoinsFirst == shelf = NoShelf /\ shelfFetch # NoShelfFetch
ReloadShelf == shelfFetch' = IF JoinsFirst THEN shelfFetch ELSE ShelfFetch

-----------------------------------------------------------------------------
(* Choosing a script, and the editor.                                      *)

PageUnchanged == UNCHANGED <<storeVars, shelfVars, unseen, linked>>

\* A click in the list closes the editor, whatever was typed.
PickScript(s) ==
    /\ ShelfMove /\ Unasked /\ LaidOut /\ OnShelf(s)
    /\ scriptAddress' = s /\ scriptDraft' = NoScriptDraft /\ PageUnchanged /\ DetailStays
\* A link, "Alle Skripte", or the back button, which no open question stops.
GoToScript(s) ==
    /\ ShelfMove /\ s # scriptAddress /\ scriptAddress' = s
    /\ UNCHANGED scriptDraft /\ PageUnchanged /\ DetailStays

Draft(s, as, danger) == [script |-> s, as |-> as, first |-> danger, typed |-> danger, call |-> 0]
\* The editor is keyed by its script, or by the name it starts with: asked for
\* the same again, it stays as it is.
WriteScript(as) ==
    /\ ShelfMove /\ Unasked
    /\ scriptDraft' = IF scriptDraft.as = as THEN scriptDraft ELSE Draft(0, as, as = "template")
    /\ UNCHANGED scriptAddress /\ PageUnchanged /\ DetailStays
EditShown(as) ==
    /\ ShelfMove /\ Unasked /\ ShownScript # 0
    /\ scriptDraft' = Draft(IF as = "edit" THEN ShownScript ELSE 0, as, shelf[ShownScript].danger)
    /\ UNCHANGED scriptAddress /\ PageUnchanged /\ DetailStays
TypeDraft ==
    /\ ShelfMove /\ Unasked /\ EditorShown
    /\ scriptDraft' = [scriptDraft EXCEPT !.typed = ~@]
    /\ UNCHANGED scriptAddress /\ PageUnchanged /\ DetailStays
\* Its request, if it has sent one, goes on.
CancelEdit ==
    /\ Unasked /\ EditorShown /\ scriptDraft' = NoScriptDraft
    /\ UNCHANGED <<scriptAddress, shelfMoves>> /\ PageUnchanged /\ DetailStays

-----------------------------------------------------------------------------
(* Requests: to save, to delete, to run.                                   *)

FreeSlots == {c \in RunSlot : scriptCalls[c] = NoScriptCall}
NextSlot == CHOOSE c \in FreeSlots : \A d \in FreeSlots : c <= d
WithCall(call) == [scriptCalls EXCEPT ![NextSlot] = call]
CallIs(c, call) == scriptCalls' = [scriptCalls EXCEPT ![c] = call]
RestUnchanged == UNCHANGED <<unseen, target, console, linked, scriptQuestion, shelfMoves>>

SaveScript ==
    /\ Unasked /\ EditorShown /\ scriptDraft.call = 0 /\ FreeSlots # {}
    /\ scriptDraft' = [scriptDraft EXCEPT !.call = NextSlot]
    /\ scriptCalls' = WithCall([NoScriptCall EXCEPT !.kind = "save", !.script = scriptDraft.script,
                                              !.danger = scriptDraft.typed, !.stage = "sent"])
    /\ UNCHANGED <<storeVars, shelfVars, scriptAddress>> /\ RestUnchanged

AskDelete ==
    /\ ShelfMove /\ Unasked /\ ShownScript # 0
    /\ scriptQuestion' = [NoAsk EXCEPT !.kind = "delete", !.script = ShownScript]
    /\ UNCHANGED <<sideVars, scriptCalls>> /\ PageUnchanged
\* Only a device that is connected is offered, and still is when it is asked;
\* 0 for none.
ChooseTarget(d) ==
    /\ ShelfMove /\ Unasked /\ ShownScript # 0 /\ linked # {} /\ d \in linked \cup {0} /\ target' = d
    /\ UNCHANGED <<scriptAddress, scriptDraft, console, scriptQuestion, scriptCalls>> /\ PageUnchanged
AskRun ==
    /\ Unasked /\ ShownScript # 0 /\ target \in linked
    /\ scriptQuestion' = [kind |-> "run", script |-> ShownScript, device |-> target]
    /\ UNCHANGED <<sideVars, scriptCalls, shelfMoves>> /\ PageUnchanged
ConfirmScript ==
    /\ scriptQuestion # NoAsk /\ FreeSlots # {} /\ scriptQuestion' = NoAsk
    /\ scriptCalls' = WithCall([NoScriptCall EXCEPT !.kind = scriptQuestion.kind, !.script = scriptQuestion.script,
                                              !.shown = (scriptQuestion.kind = "run"), !.stage = "sent"])
    /\ UNCHANGED <<sideVars, shelfMoves>> /\ PageUnchanged
DeclineScript ==
    /\ scriptQuestion # NoAsk /\ scriptQuestion' = NoAsk
    /\ UNCHANGED <<sideVars, scriptCalls, shelfMoves>> /\ PageUnchanged
CloseConsole ==
    /\ Unasked /\ console # 0 /\ console' = 0
    /\ UNCHANGED <<scriptAddress, scriptDraft, target, scriptQuestion, scriptCalls, shelfMoves>> /\ PageUnchanged

\* It is done, or refused: for what it asks, or because the script is gone.
ScriptServed(c) ==
    LET call == scriptCalls[c] IN
    /\ call.stage = "sent"
    /\ \/ /\ call.kind = "save" /\ call.script = 0 /\ written < MaxScripts /\ written' = written + 1
          /\ stored' = [stored EXCEPT ![written + 1] = [there |-> TRUE, danger |-> call.danger]]
          /\ CallIs(c, [call EXCEPT !.script = written + 1, !.stage = "done"])
       \/ /\ call.script # 0 /\ stored[call.script].there
          /\ stored' = [stored EXCEPT ![call.script] =
                 CASE call.kind = "save"   -> [@ EXCEPT !.danger = call.danger]
                   [] call.kind = "delete" -> NoScript
                   [] OTHER                -> @]
          /\ CallIs(c, [call EXCEPT !.stage = "done"]) /\ UNCHANGED written
       \/ UNCHANGED storeVars /\ CallIs(c, [call EXCEPT !.stage = "refused"])
    /\ UNCHANGED <<shelfVars, scriptAddress, scriptDraft>> /\ RestUnchanged

\* The answer to a run opens the console, where it was asked.
ConsoleAlways(call) == call.script
ConsoleAfter(call) == IF call.shown THEN call.script ELSE console
RunStarted(c) ==
    /\ scriptCalls[c].kind = "run" /\ scriptCalls[c].stage = "done" /\ CallIs(c, NoScriptCall)
    /\ console' = ConsoleAfter(scriptCalls[c])
    /\ UNCHANGED <<scriptAddress, scriptDraft, target, scriptQuestion, shelfMoves>> /\ PageUnchanged

\* The answer to the others has the list loaded before anything else.
StoreAnswered(c) ==
    /\ scriptCalls[c].kind \in {"save", "delete"} /\ scriptCalls[c].stage = "done"
    /\ CallIs(c, [scriptCalls[c] EXCEPT !.stage = "loading"])
    /\ ReloadShelf /\ unseen' = (unseen \/ JoinsFirst)
    /\ UNCHANGED <<storeVars, shelf, shelfLoad, sideVars, linked, scriptQuestion, shelfMoves>>
\* That load over, what was saved is shown, whatever is edited by then; and
\* after a deletion nothing is.
StoreLoaded(c) ==
    LET call == scriptCalls[c]
        saved == call.kind = "save" IN
    /\ call.stage = "loading" /\ shelfFetch = NoShelfFetch
    /\ scriptDraft' = IF saved THEN NoScriptDraft ELSE scriptDraft
    /\ scriptAddress' = IF saved THEN call.script ELSE 0
    /\ UNCHANGED shelfMoves /\ PageUnchanged
    /\ DetailFollows(target, console, scriptQuestion, [scriptCalls EXCEPT ![c] = NoScriptCall])
\* Refused, or the answer lost.
ScriptFails(c) ==
    LET call == scriptCalls[c] IN
    /\ call.stage \in {"done", "refused"} /\ CallIs(c, NoScriptCall)
    /\ scriptDraft' = IF scriptDraft.call = c THEN [scriptDraft EXCEPT !.call = 0] ELSE scriptDraft
    /\ unseen' = (unseen \/ (call.stage = "done" /\ call.kind # "run"))
    /\ UNCHANGED <<storeVars, shelfVars, scriptAddress, target, console, linked, scriptQuestion, shelfMoves>>

-----------------------------------------------------------------------------
(* The list's load, refetched on focus too; others; devices.               *)

ScriptsAsked ==
    /\ shelfFetch = NoShelfFetch /\ shelfFetch' = ShelfFetch
    /\ UNCHANGED <<storeVars, shelf, shelfLoad, sideVars, scriptCalls, unseen, linked, scriptQuestion, shelfMoves>>
ScriptsServed ==
    /\ shelfFetch.stage = "asked" /\ shelfFetch' = [stage |-> "answered", answer |-> stored]
    /\ unseen' = FALSE
    /\ UNCHANGED <<storeVars, shelf, shelfLoad, sideVars, scriptCalls, linked, scriptQuestion, shelfMoves>>
ScriptsArrive ==
    /\ shelfFetch.stage = "answered" /\ shelfFetch' = NoShelfFetch
    /\ shelf' = shelfFetch.answer /\ shelfLoad' = "ok"
    /\ UNCHANGED <<storeVars, unseen, scriptAddress, linked, shelfMoves>> /\ EditorFollows /\ DetailStays
ScriptsLost ==
    /\ shelfFetch # NoShelfFetch /\ shelfFetch' = NoShelfFetch /\ shelfLoad' = "failed" /\ UNCHANGED shelf
    /\ UNCHANGED <<storeVars, unseen, scriptAddress, linked, shelfMoves>> /\ EditorFollows /\ DetailStays

OtherDeletes(s) ==
    /\ ShelfMove /\ stored[s].there /\ stored' = [stored EXCEPT ![s] = NoScript] /\ unseen' = TRUE
    /\ UNCHANGED <<written, shelfVars, sideVars, linked, scriptQuestion, scriptCalls>>
DeviceLinks(d) ==
    /\ ShelfMove /\ linked' = IF d \in linked THEN linked \ {d} ELSE linked \cup {d}
    /\ UNCHANGED <<storeVars, shelfVars, unseen, sideVars, scriptQuestion, scriptCalls>>

ScriptNext ==
    \/ TypeDraft \/ CancelEdit \/ SaveScript \/ AskDelete \/ AskRun \/ ConfirmScript \/ DeclineScript
    \/ CloseConsole \/ ScriptsAsked \/ ScriptsServed \/ ScriptsArrive \/ ScriptsLost
    \/ GoToScript(0) \/ ChooseTarget(0)
    \/ \E s \in ScriptKey : PickScript(s) \/ GoToScript(s) \/ OtherDeletes(s)
    \/ \E as \in {"blank", "template"} : WriteScript(as)
    \/ \E as \in {"edit", "copy"} : EditShown(as)
    \/ \E d \in RunDevices : ChooseTarget(d) \/ DeviceLinks(d)
    \/ \E c \in RunSlot :
          ScriptServed(c) \/ RunStarted(c) \/ StoreAnswered(c) \/ StoreLoaded(c) \/ ScriptFails(c)

ShelfSpec == ScriptInit /\ [][ScriptNext]_scriptVars

-----------------------------------------------------------------------------
(* Properties.                                                             *)

\* With nothing under way, the list shows every script as the server has it,
\* unless it changed behind the page's back (save, remove).
ShelfSettles ==
    (shelfFetch = NoShelfFetch /\ shelfLoad = "ok" /\ ~unseen /\ \A c \in RunSlot : scriptCalls[c] = NoScriptCall)
        => shelf = stored

\* The console next to a script follows a run of that script, however late a
\* run is answered and whatever was opened and closed since (ScriptDetail).
ConsoleOfScript == console # 0 => console = ShownScript

\* Both: what the page shows when it has settled, and what it shows on the way.
ShelfHonest == ShelfSettles /\ ConsoleOfScript
=============================================================================
