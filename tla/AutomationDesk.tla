---------------------------- MODULE AutomationDesk ----------------------------
(***************************************************************************)
(* The automation page: the patch window saved at each change, the alert   *)
(* rules, and the schedules that run scripts (pages/automation); with the  *)
(* server's side of each request (backend routers/automation.py).          *)
(*                                                                         *)
(* The page holds one cached answer with all three in it: every load, and  *)
(* every answer to a saved window, replaces it whole.                      *)
(***************************************************************************)
EXTENDS Naturals, Sequences, FiniteSets, SequencesExt

CONSTANTS
    ScriptsKnown,  \* how many scripts the library holds
    Danger,        \* those marked destructive
    MaxItems,      \* rules, and schedules, made in all
    MaxAutoCalls,  \* requests under way at once
    MaxAutoMoves   \* steps of the user

ASSUME AutoAssumption == ScriptsKnown \in Nat \ {0} /\ MaxItems \in Nat \ {0}

VARIABLES
    plan,          \* server: window, rules and schedules
    made,          \* server: rules and schedules made so far
    config,        \* the cached answer, and how the query stands
    configFetch,   \* its load
    library,       \* the scripts have been loaded
    ruleForm,          \* the open dialog: what it was opened with, and what it holds now
    prompt,        \* the open confirmation: the request it is about
    edits,         \* requests on rules and schedules
    saves,         \* saves of the window
    autoMoves

autoVars == <<plan, made, config, configFetch, library, ruleForm, prompt, edits, saves, autoMoves>>

-----------------------------------------------------------------------------
ScriptId == 1 .. ScriptsKnown
Scope == {"all", "tag", "person"}
WindowSetting == [on: BOOLEAN, reboot: BOOLEAN]
RuleRow == [id: 1 .. MaxItems, scope: Scope, on: BOOLEAN]
ScheduleRow == [id: 1 .. MaxItems, script: ScriptId, on: BOOLEAN]
Plan == [window: WindowSetting, rules: Seq(RuleRow), schedules: Seq(ScheduleRow)]
NoConfig == [window |-> [on |-> FALSE, reboot |-> FALSE], rules |-> <<>>, schedules |-> <<>>]
NoLoad == [stage |-> "none", answer |-> NoConfig]
ConfigLoading == [stage |-> "asked", answer |-> NoConfig]
\* What a request does: create, update or delete a rule or a schedule.
Edit == [table: {"rules", "schedules"}, what: {"create", "update", "delete"}, id: 0 .. MaxItems,
         scope: Scope, script: ScriptId, on: BOOLEAN, fromForm: BOOLEAN]
NoEdit == [table |-> "rules", what |-> "delete", id |-> 0, scope |-> "all", script |-> 1, on |-> FALSE,
           fromForm |-> FALSE]
NoForm == [draft |-> NoEdit, d |-> NoEdit]

AutoTypeOK ==
    /\ plan \in Plan /\ made \in [{"rules", "schedules"} -> 0 .. MaxItems]
    /\ config.state \in {"pending", "error", "ok"} /\ config.data \in Plan
    /\ configFetch.stage \in {"none", "asked", "answered"} /\ configFetch.answer \in Plan
    /\ library \in BOOLEAN /\ ruleForm \in [draft: Edit, d: Edit] /\ prompt \in Edit
    /\ \A e \in edits : e.body \in Edit /\ e.stage \in {"sent", "done", "refused"}
    /\ \A i \in DOMAIN saves :
          /\ saves[i].old \in Plan /\ saves[i].window \in WindowSetting
          /\ saves[i].stage \in {"sent", "done", "refused", "over"} /\ saves[i].answer \in Plan

AutoInit ==
    /\ \E off \in BOOLEAN :
          plan = [window |-> [on |-> FALSE, reboot |-> FALSE],
                  rules |-> <<[id |-> 1, scope |-> "all", on |-> TRUE]>>,
                  schedules |-> <<[id |-> 1, script |-> ScriptsKnown, on |-> off]>>]
    /\ made = [t \in {"rules", "schedules"} |-> 1]
    /\ config = [state |-> "pending", data |-> NoConfig] /\ configFetch = ConfigLoading
    /\ library = FALSE /\ ruleForm = NoForm /\ prompt = NoEdit /\ edits = {} /\ saves = <<>>
    /\ autoMoves = 0

-----------------------------------------------------------------------------
(* Which rule governs a device: the page's word, and the server's.         *)

DeviceKind == [tag: BOOLEAN, person: BOOLEAN]
Applies(r, d) == r.scope = "all" \/ (r.scope = "tag" /\ d.tag) \/ (r.scope = "person" /\ d.person)
Specificity(r) == CASE r.scope = "all" -> 1 [] r.scope = "tag" -> 2 [] OTHER -> 3
NoRule == 0

\* effectiveRule: a stable sort by specificity keeps the list's order.
EffectiveOfEnabled(rules, d) ==
    LET fits == {i \in DOMAIN rules : Applies(rules[i], d) /\ rules[i].on}
        top  == {i \in fits : \A j \in fits : Specificity(rules[j]) <= Specificity(rules[i])} IN
    IF fits = {} THEN NoRule ELSE rules[CHOOSE i \in top : \A j \in top : i <= j].id
EffectiveRule(rules, d) ==
    LET fits == {i \in DOMAIN rules : Applies(rules[i], d)}
        top  == {i \in fits : \A j \in fits : Specificity(rules[j]) <= Specificity(rules[i])} IN
    IF fits = {} THEN NoRule ELSE rules[CHOOSE i \in top : \A j \in top : i <= j].id

\* effective_rule: the most specific, and of those the oldest, on or off.
ServerRule(rules, d) ==
    LET fits == {r \in ToSet(rules) : Applies(r, d)}
        Beats(r, s) == Specificity(r) > Specificity(s) \/ (Specificity(r) = Specificity(s) /\ r.id <= s.id) IN
    IF fits = {} THEN NoRule ELSE (CHOOSE r \in fits : \A s \in fits : Beats(r, s)).id

-----------------------------------------------------------------------------
(* The cached answer and its load.                                         *)

AutoMove == autoMoves < MaxAutoMoves /\ autoMoves' = autoMoves + 1
\* setQueryData, and a load that arrives, leave the query in good order.
Holds(data) == config' = [state |-> "ok", data |-> data]
ReloadConfig == configFetch' = ConfigLoading
\* The page with its lists and dialogs.  The note of an error takes their
\* place, and a dialog comes back as it was opened.
PageShown == config.state = "ok"
Idle == PageShown /\ prompt = NoEdit /\ ruleForm = NoForm

ConfigAsked ==
    /\ configFetch.stage = "none" /\ ReloadConfig
    /\ UNCHANGED <<plan, made, config, library, ruleForm, prompt, edits, saves, autoMoves>>
ConfigServed ==
    /\ configFetch.stage = "asked" /\ configFetch' = [stage |-> "answered", answer |-> plan]
    /\ UNCHANGED <<plan, made, config, library, ruleForm, prompt, edits, saves, autoMoves>>
ConfigArrives ==
    /\ configFetch.stage = "answered" /\ configFetch' = NoLoad /\ Holds(configFetch.answer)
    /\ UNCHANGED <<plan, made, library, ruleForm, prompt, edits, saves, autoMoves>>
ConfigLost ==
    /\ configFetch.stage # "none" /\ configFetch' = NoLoad /\ config' = [config EXCEPT !.state = "error"]
    /\ ruleForm' = [ruleForm EXCEPT !.d = ruleForm.draft]
    /\ UNCHANGED <<plan, made, library, prompt, edits, saves, autoMoves>>
LibraryLoads ==
    /\ ~library /\ library' = TRUE
    /\ UNCHANGED <<plan, made, config, configFetch, ruleForm, prompt, edits, saves, autoMoves>>

-----------------------------------------------------------------------------
(* saveWindow: the whole window at each change, and the whole answer back. *)

ChangeWindow(k) ==
    /\ AutoMove /\ Idle /\ Len(SelectSeq(saves, LAMBDA s : s.stage # "over")) < MaxAutoCalls
    /\ LET now  == config.data
           next == [now.window EXCEPT ![k] = ~@] IN
       /\ Holds([now EXCEPT !.window = next])
       /\ saves' = Append(saves, [old |-> now, window |-> next, stage |-> "sent", answer |-> NoConfig])
    /\ UNCHANGED <<plan, made, configFetch, library, ruleForm, prompt, edits>>

WindowServed(i) ==
    /\ saves[i].stage = "sent"
    /\ \/ /\ plan' = [plan EXCEPT !.window = saves[i].window]
          /\ saves' = [saves EXCEPT ![i].stage = "done", ![i].answer = plan']
       \/ UNCHANGED plan /\ saves' = [saves EXCEPT ![i].stage = "refused"]
    /\ UNCHANGED <<made, config, configFetch, library, ruleForm, prompt, edits, autoMoves>>

\* The answer, or none: then back to what stood there before the change.
WindowOver(i, ok) ==
    /\ saves[i].stage \in {"done", "refused"} /\ (ok => saves[i].stage = "done")
    /\ Holds(IF ok THEN saves[i].answer ELSE saves[i].old)
    /\ saves' = [saves EXCEPT ![i] = [old |-> NoConfig, window |-> @.window, stage |-> "over", answer |-> NoConfig]]
    /\ UNCHANGED <<plan, made, configFetch, library, ruleForm, prompt, edits, autoMoves>>

-----------------------------------------------------------------------------
(* Rules and schedules: the request, and the list anew once it worked.     *)

\* n tells apart two requests that ask the same: the move it came from.
SendEdit(e, n) ==
    /\ Cardinality(edits) < MaxAutoCalls
    /\ edits' = edits \cup {[body |-> e, stage |-> "sent", n |-> n]}

\* confirmDestructive: asks for a script that the loaded library marks.
Questions(e) == library /\ e.script \in Danger
\* A schedule that is to run, or a removal, may cost a question first.
AskOrSend(e) ==
    IF e.what = "delete" \/ (e.table = "schedules" /\ e.on /\ Questions(e))
      THEN prompt' = e /\ UNCHANGED edits
      ELSE SendEdit(e, autoMoves') /\ UNCHANGED prompt

\* The row's switch, with the row as the list has it.
SwitchRow(t, i) ==
    /\ AutoMove /\ Idle
    /\ LET row == config.data[t][i] IN
       IF t = "rules"
         THEN AskOrSend([NoEdit EXCEPT !.what = "update", !.id = row.id, !.scope = row.scope, !.on = ~row.on])
         ELSE AskOrSend([NoEdit EXCEPT !.table = t, !.what = "update", !.id = row.id, !.script = row.script,
                                       !.on = ~row.on])
    /\ UNCHANGED <<plan, made, config, configFetch, library, ruleForm, saves>>
RemoveRow(t, i) ==
    /\ AutoMove /\ Idle
    /\ AskOrSend([NoEdit EXCEPT !.table = t, !.id = config.data[t][i].id])
    /\ UNCHANGED <<plan, made, config, configFetch, library, ruleForm, saves>>

\* "Regel", "Zeitplan" and "Bearbeiten": the dialog with a copy of the row;
\* the one for schedules needs the library.
Opened(e) == ruleForm' = [draft |-> e, d |-> e]
OpenRuleForm ==
    /\ AutoMove /\ Idle
    /\ \/ Opened([NoEdit EXCEPT !.what = "create", !.on = TRUE, !.fromForm = TRUE])
       \/ \E r \in ToSet(config.data.rules) :
             Opened([NoEdit EXCEPT !.what = "update", !.id = r.id, !.scope = r.scope, !.on = r.on, !.fromForm = TRUE])
    /\ UNCHANGED <<plan, made, config, configFetch, library, prompt, edits, saves>>
OpenScheduleForm ==
    /\ AutoMove /\ Idle /\ library
    /\ \/ Opened([NoEdit EXCEPT !.table = "schedules", !.what = "create", !.on = TRUE, !.fromForm = TRUE])
       \/ \E s \in ToSet(config.data.schedules) :
             Opened([NoEdit EXCEPT !.table = "schedules", !.what = "update", !.id = s.id, !.script = s.script,
                                   !.on = s.on, !.fromForm = TRUE])
    /\ UNCHANGED <<plan, made, config, configFetch, library, prompt, edits, saves>>
\* Scope or script; the dialog does not know that a schedule keeps its script.
FillRuleForm ==
    /\ PageShown /\ ruleForm # NoForm /\ prompt = NoEdit
    /\ IF ruleForm.d.table = "rules" THEN \E s \in Scope : ruleForm' = [ruleForm EXCEPT !.d.scope = s]
                                     ELSE \E s \in ScriptId : ruleForm' = [ruleForm EXCEPT !.d.script = s]
    /\ UNCHANGED <<plan, made, config, configFetch, library, prompt, edits, saves, autoMoves>>
\* "Speichern" is not locked while its request runs.
SubmitRuleForm ==
    /\ AutoMove /\ PageShown /\ ruleForm # NoForm /\ prompt = NoEdit /\ AskOrSend(ruleForm.d)
    /\ UNCHANGED <<plan, made, config, configFetch, library, ruleForm, saves>>
CloseRuleForm ==
    /\ PageShown /\ ruleForm # NoForm /\ prompt = NoEdit /\ ruleForm' = NoForm
    /\ UNCHANGED <<plan, made, config, configFetch, library, prompt, edits, saves, autoMoves>>

\* The script's name typed, or the removal confirmed.
ConfirmEdit ==
    /\ PageShown /\ prompt # NoEdit /\ prompt' = NoEdit
    /\ SendEdit(prompt, autoMoves)
    /\ UNCHANGED <<plan, made, config, configFetch, library, ruleForm, saves, autoMoves>>
DeclineEdit ==
    /\ PageShown /\ prompt # NoEdit /\ prompt' = NoEdit
    /\ UNCHANGED <<plan, made, config, configFetch, library, ruleForm, edits, saves, autoMoves>>

\* The table as the request leaves it; a schedule keeps its script.
Edited(e) ==
    LET rows == plan[e.table] IN
    CASE e.what = "create" /\ e.table = "rules" ->
             Append(rows, [id |-> made.rules + 1, scope |-> e.scope, on |-> e.on])
      [] e.what = "create" /\ e.table = "schedules" ->
             Append(rows, [id |-> made.schedules + 1, script |-> e.script, on |-> e.on])
      [] e.what = "update" ->
             [i \in DOMAIN rows |-> IF rows[i].id # e.id THEN rows[i]
                                    ELSE IF e.table = "rules" THEN [rows[i] EXCEPT !.scope = e.scope, !.on = e.on]
                                    ELSE [rows[i] EXCEPT !.on = e.on]]
      [] OTHER -> RemoveAt(rows, CHOOSE i \in DOMAIN rows : rows[i].id = e.id)

\* Refused: no such row any more, or for any other reason.
EditServed(e) ==
    /\ e.stage = "sent"
    /\ \/ /\ e.body.what # "create" => \E i \in DOMAIN plan[e.body.table] : plan[e.body.table][i].id = e.body.id
          /\ e.body.what = "create" => made[e.body.table] < MaxItems
          /\ plan' = [plan EXCEPT ![e.body.table] = Edited(e.body)]
          /\ made' = [made EXCEPT ![e.body.table] = IF e.body.what = "create" THEN @ + 1 ELSE @]
          /\ edits' = (edits \ {e}) \cup {[e EXCEPT !.stage = "done"]}
       \/ UNCHANGED <<plan, made>> /\ edits' = (edits \ {e}) \cup {[e EXCEPT !.stage = "refused"]}
    /\ UNCHANGED <<config, configFetch, library, ruleForm, prompt, saves, autoMoves>>

\* It worked: the dialog closes, whichever is open by now, and the page
\* loads anew.  Otherwise the dialog stays.
RowSaved(e) ==
    /\ e.stage = "done" /\ edits' = edits \ {e} /\ ReloadConfig
    /\ ruleForm' = IF e.body.fromForm /\ ruleForm.d.table = e.body.table THEN NoForm ELSE ruleForm
    /\ UNCHANGED <<plan, made, config, library, prompt, saves, autoMoves>>
EditFails(e) ==
    /\ e.stage \in {"done", "refused"} /\ edits' = edits \ {e}
    /\ UNCHANGED <<plan, made, config, configFetch, library, ruleForm, prompt, saves, autoMoves>>

AutoNext ==
    \/ ConfigAsked \/ ConfigServed \/ ConfigArrives \/ ConfigLost \/ LibraryLoads
    \/ OpenRuleForm \/ OpenScheduleForm \/ FillRuleForm \/ SubmitRuleForm \/ CloseRuleForm \/ ConfirmEdit \/ DeclineEdit
    \/ \E k \in {"on", "reboot"} : ChangeWindow(k)
    \/ \E i \in DOMAIN saves : WindowServed(i) \/ \E ok \in BOOLEAN : WindowOver(i, ok)
    \/ \E t \in {"rules", "schedules"} : \E i \in DOMAIN config.data[t] : SwitchRow(t, i) \/ RemoveRow(t, i)
    \/ \E e \in edits : EditServed(e) \/ RowSaved(e) \/ EditFails(e)

AutoSpec == AutoInit /\ [][AutoNext]_autoVars

-----------------------------------------------------------------------------
(* Properties.                                                             *)

\* The alert centre names the rule that the server decides by, for every
\* device and whatever rules were made, changed, switched off and removed
\* ("Spiegelt effective_rule()", ruleText.ts).
SameRule == \A d \in DeviceKind : EffectiveRule(config.data.rules, d) = ServerRule(config.data.rules, d)
=============================================================================
