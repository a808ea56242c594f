------------------------------ MODULE MCPages ------------------------------
(***************************************************************************)
(* The pages of the fleet for TLC: `mounted' says which one a behaviour is *)
(* about, the others stay as they are first.  A tab shows one page at a    *)
(* time and unmounts the last, and what a page keeps is its own.           *)
(***************************************************************************)
EXTENDS BulkJobs, DeviceTable, PatchBoard, AlertCenter, AuditView, AutomationDesk,
        PersonDesk, ScriptShelf, DeviceUpdates

VARIABLE mounted

Page == {"bulk", "devices", "patches", "alerts", "audit", "automation", "persons", "scripts",
         "updates"}

\* A page that is not looked at has one initial state.
Init ==
    /\ mounted \in Page
    /\ BulkInit /\ DevInit /\ PatchInit /\ AlertInit /\ AuditInit /\ AutoInit /\ PersonInit /\ ScriptInit
    /\ UpdatesInit
    /\ mounted # "devices" => address = Blank
    /\ mounted # "alerts" => view.person = "none"
    /\ mounted # "audit" => auditAddress = Unfiltered
    /\ mounted # "automation" => ~plan.schedules[1].on
    /\ mounted # "persons" => ~stacked /\ visits[1].person = 0

Bulk ==
    /\ mounted = "bulk" /\ BulkNext
    /\ UNCHANGED <<mounted, devVars, patchVars, alertVars, auditVars, autoVars, personVars, scriptVars,
                   tabVars>>
DevicesPage ==
    /\ mounted = "devices" /\ DevNext
    /\ UNCHANGED <<mounted, bulkVars, patchVars, alertVars, auditVars, autoVars, personVars, scriptVars,
                   tabVars>>
PatchesPage ==
    /\ mounted = "patches" /\ PatchNext
    /\ UNCHANGED <<mounted, bulkVars, devVars, alertVars, auditVars, autoVars, personVars, scriptVars,
                   tabVars>>
AlertsPage ==
    /\ mounted = "alerts" /\ AlertNext
    /\ UNCHANGED <<mounted, bulkVars, devVars, patchVars, auditVars, autoVars, personVars, scriptVars,
                   tabVars>>
AuditLog ==
    /\ mounted = "audit" /\ AuditNext
    /\ UNCHANGED <<mounted, bulkVars, devVars, patchVars, alertVars, autoVars, personVars, scriptVars,
                   tabVars>>
AutomationPage ==
    /\ mounted = "automation" /\ AutoNext
    /\ UNCHANGED <<mounted, bulkVars, devVars, patchVars, alertVars, auditVars, personVars, scriptVars,
                   tabVars>>
PersonsPage ==
    /\ mounted = "persons" /\ PersonNext
    /\ UNCHANGED <<mounted, bulkVars, devVars, patchVars, alertVars, auditVars, autoVars, scriptVars,
                   tabVars>>
ScriptsPage ==
    /\ mounted = "scripts" /\ ScriptNext
    /\ UNCHANGED <<mounted, bulkVars, devVars, patchVars, alertVars, auditVars, autoVars, personVars,
                   tabVars>>
UpdatesTab ==
    /\ mounted = "updates" /\ UpdatesNext
    /\ UNCHANGED <<mounted, bulkVars, devVars, patchVars, alertVars, auditVars, autoVars, personVars, scriptVars>>

Next ==
    \/ Bulk \/ DevicesPage \/ PatchesPage \/ AlertsPage \/ AuditLog \/ AutomationPage \/ PersonsPage
    \/ ScriptsPage \/ UpdatesTab

Vars == <<mounted, bulkVars, devVars, patchVars, alertVars, auditVars, autoVars, personVars, scriptVars,
          tabVars>>

Spec == Init /\ [][Next]_Vars

\* The others never change: two states that agree on this are the same.
MountedState ==
    <<mounted, CASE mounted = "bulk"       -> bulkVars
                 [] mounted = "devices"    -> devVars
                 [] mounted = "patches"    -> patchVars
                 [] mounted = "alerts"     -> alertVars
                 [] mounted = "audit"      -> auditVars
                 [] mounted = "automation" -> autoVars
                 [] mounted = "persons"    -> personVars
                 [] mounted = "scripts"    -> scriptVars
                 [] mounted = "updates"    -> tabVars>>

\* Every variable of a page keeps its type while the page is open.
PagesTypeOK ==
    CASE mounted = "bulk"       -> BulkTypeOK
      [] mounted = "devices"    -> DevTypeOK
      [] mounted = "patches"    -> PatchTypeOK
      [] mounted = "alerts"     -> AlertTypeOK
      [] mounted = "audit"      -> AuditTypeOK
      [] mounted = "automation" -> AutoTypeOK
      [] mounted = "persons"    -> PersonTypeOK
      [] mounted = "scripts"    -> ScriptTypeOK
      [] mounted = "updates"    -> UpdatesTypeOK
=============================================================================
