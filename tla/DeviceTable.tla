----------------------------- MODULE DeviceTable -----------------------------
(***************************************************************************)
(* The device list: filter, person, search and sort in the address, the    *)
(* search box beside it, pages, the selection that bulk actions work on,   *)
(* saved views (pages/devices, hooks/usePagination, components).           *)
(*                                                                         *)
(* The router moves the browser's address at once and renders it later, in *)
(* a transition; what is typed meanwhile counts on the old one.  Devices   *)
(* are numbered in the order of their names.                               *)
(***************************************************************************)
EXTENDS Naturals, Sequences, FiniteSets, SequencesExt

CONSTANTS
    ListDevices,  \* how many devices there are
    Owned,        \* devices of the one person there is
    Phones,       \* devices without agent
    Hit,          \* devices the search finds
    PageRows,     \* the smaller page size
    RenderCap,    \* RENDER_CAP
    MaxViews,     \* MAX_VIEWS
    MaxDevMoves   \* steps of user and fleet

ASSUME TableAssumption == {ListDevices, PageRows, RenderCap} \subseteq Nat \ {0} /\ MaxViews \in Nat

VARIABLES
    fleet,      \* what the page gets: loaded, failed, persons, devices, state
    trail,      \* the browser's history, each entry an address
    address,    \* the address that is rendered
    navigation, \* on its way to be rendered: "none", "replace", "move"
    box,        \* the search box
    typed,      \* history: what was typed, unless another step set the box
    pager,      \* page, size and the resetKey seen
    selected, anchor,
    views,      \* saved views: name and address
    devMoves

devVars == <<fleet, trail, address, navigation, box, typed, pager, selected, anchor, views, devMoves>>
navVars == <<trail, address, navigation>>
selVars == <<selected, anchor>>

-----------------------------------------------------------------------------
Id == 1 .. ListDevices
NoId == 0
\* deviceState of a device with agent.
DeviceState == {"ok", "crit", "off"}
DevFilter == {"alle", "probleme", "offline", "mobil"}
PersonParam == {"none", "anna", "unknown"}
\* What the box holds: nothing, something found, or something never found.
Text == {"", "hit", "miss"}
DevSort == {"status", "name"}
Address == [filter: DevFilter, person: PersonParam, q: Text, sort: DevSort]
Blank == [filter |-> "alle", person |-> "none", q |-> "", sort |-> "status"]
ViewName == {"v", "w"}

IsAgent(d) == d \notin Phones
HasProblem(d) == fleet.state[d] = "crit"

\* matchesFilter: the conditions ask for the class of the device first.
MatchesFilter(d, f) ==
    CASE f = "mobil"    -> ~IsAgent(d)
      [] f = "probleme" -> IsAgent(d) /\ HasProblem(d)
      [] f = "offline"  -> IsAgent(d) /\ fleet.state[d] = "off"
      [] OTHER          -> TRUE

\* The id in the address counts whether or not its person is known.
PersonOnlyIfKnown(a) == IF fleet.persons THEN a.person ELSE "none"
PersonFilter(a) == a.person

OfPerson(d, p) == p = "none" \/ (p = "anna" /\ d \in Owned)
Found(d, text) == text = "" \/ (text = "hit" /\ d \in Hit)

Base == {d \in fleet.devices : OfPerson(d, PersonFilter(address)) /\ Found(d, box)}

\* sortDevices: worst first, names break the tie.
Severity(d) ==
    IF ~IsAgent(d) THEN 0
    ELSE CASE fleet.state[d] = "crit" -> 4 [] fleet.state[d] = "off" -> 2 [] OTHER -> 1
Before(c, d) ==
    \/ address.sort = "status" /\ Severity(c) > Severity(d)
    \/ (address.sort # "status" \/ Severity(c) = Severity(d)) /\ c < d

Shown ==
    LET fits == {d \in Base : MatchesFilter(d, address.filter)} IN
    CHOOSE rows \in [1 .. Cardinality(fits) -> fits] :
        \A i, j \in 1 .. Cardinality(fits) : i < j => Before(rows[i], rows[j])

-----------------------------------------------------------------------------
(* usePagination.                                                          *)

ResetKey == <<address.filter, address.person, box, address.sort>>
Size == IF pager.size = "alle" THEN ListDevices ELSE PageRows
PageCount == LET n == (Len(Shown) + Size - 1) \div Size IN IF n = 0 THEN 1 ELSE n

\* A list that shrinks does not leave the view behind its end.
CurrentPage == IF pager.page < PageCount THEN pager.page ELSE PageCount

Rows ==
    LET first == (CurrentPage - 1) * Size + 1
        last  == CurrentPage * Size
        items == SubSeq(Shown, first, IF last < Len(Shown) THEN last ELSE Len(Shown))
    IN  SubSeq(items, 1, IF Len(items) < RenderCap THEN Len(items) ELSE RenderCap)

\* The reset happens while rendering what has another key.
PageReset == IF ResetKey' = pager.key THEN pager ELSE [pager EXCEPT !.page = 1, !.key = ResetKey']

DevTypeOK ==
    /\ fleet \in [loaded: BOOLEAN, failed: BOOLEAN, persons: BOOLEAN, devices: SUBSET Id,
                  state: [Id -> DeviceState]]
    /\ trail \in Seq(Address) /\ Len(trail) \in 1 .. 2 /\ address \in Address
    /\ navigation \in {"none", "replace", "move"}
    /\ box \in Text /\ typed \in Text \cup {"unset"}
    /\ pager.page \in 1 .. ListDevices /\ pager.size \in {"some", "alle"}
    /\ selected \subseteq Id /\ anchor \in Id \cup {NoId}
    /\ views \in Seq([name: ViewName, query: Address]) /\ Len(views) <= MaxViews

DevInit ==
    /\ fleet = [loaded |-> FALSE, failed |-> FALSE, persons |-> FALSE, devices |-> {},
                state |-> [d \in Id |-> "ok"]]
    /\ address \in {Blank, [Blank EXCEPT !.person = "anna"]}
    /\ trail = <<address>> /\ navigation = "none" /\ box = address.q /\ typed = "unset"
    /\ pager = [page |-> 1, size |-> "some", key |-> ResetKey]
    /\ selected = {} /\ anchor = NoId /\ views = <<>> /\ devMoves = 0

\* A step of somebody: one of a limited number.
DevMove == devMoves < MaxDevMoves /\ devMoves' = devMoves + 1

-----------------------------------------------------------------------------
(* The address.                                                            *)

\* setParam builds on the address that is rendered, not on one on its way.
SetParams(a) ==
    /\ trail' = [trail EXCEPT ![Len(trail)] = a]
    /\ navigation' = "replace" /\ UNCHANGED address

\* useAddressNavigation: the box follows when someone else moved the address.
TakesOverAlways == TRUE
TakesOver == navigation = "move"

Render ==
    /\ navigation # "none"
    /\ address' = trail[Len(trail)] /\ navigation' = "none"
    /\ IF TakesOver THEN box' = address'.q ELSE UNCHANGED box
    /\ typed' = IF navigation = "move" THEN "unset" ELSE typed
    /\ pager' = PageReset
    /\ UNCHANGED <<fleet, trail, selVars, views, devMoves>>

\* The rail's link, "g d" or a link from the overview, with the page mounted.
FollowLink ==
    /\ DevMove /\ Len(trail) < 2
    /\ \E f \in {"alle", "probleme"} : trail' = Append(trail, [Blank EXCEPT !.filter = f])
    /\ navigation' = "move"
    /\ UNCHANGED <<fleet, address, box, typed, pager, selVars, views>>

GoBack ==
    /\ DevMove /\ Len(trail) > 1
    /\ trail' = Front(trail) /\ navigation' = "move"
    /\ UNCHANGED <<fleet, address, box, typed, pager, selVars, views>>

-----------------------------------------------------------------------------
(* Toolbar, chips and columns: there once devices or none have loaded.     *)

\* What the page shows.
DeviceView ==
    IF fleet.devices = {}
      THEN IF fleet.failed THEN "error" ELSE IF fleet.loaded THEN "empty" ELSE "loading"
      ELSE IF Shown = <<>> THEN "nothing found" ELSE "rows"
ToolbarShown == DeviceView \notin {"error", "empty"}

Type(t) ==
    /\ DevMove /\ ToolbarShown /\ t # box
    /\ box' = t /\ typed' = t /\ SetParams([address EXCEPT !.q = t]) /\ pager' = PageReset
    /\ UNCHANGED <<fleet, selVars, views>>

ChooseFilter(f) ==
    /\ DevMove /\ ToolbarShown /\ f # address.filter /\ SetParams([address EXCEPT !.filter = f])
    /\ UNCHANGED <<fleet, box, typed, pager, selVars, views>>

\* The select is there with persons loaded, or with a person to let go of.
ChoosePerson(p) ==
    /\ DevMove /\ ToolbarShown /\ p # address.person
    /\ fleet.persons \/ address.person # "none"
    /\ p = "none" \/ (p = "anna" /\ fleet.persons)
    /\ SetParams([address EXCEPT !.person = p])
    /\ UNCHANGED <<fleet, box, typed, pager, selVars, views>>

SortBy(s) ==
    /\ DevMove /\ DeviceView = "rows" /\ s # address.sort /\ SetParams([address EXCEPT !.sort = s])
    /\ UNCHANGED <<fleet, box, typed, pager, selVars, views>>

ResetFilters ==
    /\ DevMove /\ DeviceView = "nothing found"
    /\ box' = "" /\ typed' = "unset"
    /\ SetParams([Blank EXCEPT !.sort = address.sort]) /\ pager' = PageReset
    /\ UNCHANGED <<fleet, selVars, views>>

\* The views of other names, in their order.
OtherViews(n) ==
    LET kept == {i \in 1 .. Len(views) : views[i].name # n}
        at   == CHOOSE at \in [1 .. Cardinality(kept) -> kept] :
                    \A i, j \in 1 .. Cardinality(kept) : i < j => at[i] < at[j]
    IN  [i \in 1 .. Cardinality(kept) |-> views[at[i]]]

\* useSavedViews: a name is used once, and the oldest view makes room.
SaveView(n) ==
    LET all == Append(OtherViews(n), [name |-> n, query |-> address]) IN
    /\ DevMove /\ ToolbarShown
    /\ views' = IF Len(all) > MaxViews THEN Tail(all) ELSE all
    /\ UNCHANGED <<fleet, navVars, box, typed, pager, selVars>>

RemoveView(i) ==
    /\ DevMove /\ ToolbarShown /\ views' = RemoveAt(views, i)
    /\ UNCHANGED <<fleet, navVars, box, typed, pager, selVars>>

ApplyView(i) ==
    /\ DevMove /\ ToolbarShown
    /\ box' = views[i].query.q /\ typed' = "unset"
    /\ SetParams(views[i].query) /\ pager' = PageReset
    /\ UNCHANGED <<fleet, selVars, views>>

-----------------------------------------------------------------------------
(* Pages.                                                                  *)

\* Pagination: shown with several pages, or with more rows than the smallest
\* page holds.
SetPage(p) ==
    /\ DevMove /\ PageCount > 1 /\ p \in 1 .. PageCount /\ p # CurrentPage
    /\ pager' = [pager EXCEPT !.page = p]
    /\ UNCHANGED <<fleet, navVars, box, typed, selVars, views>>

SetPageSize(s) ==
    /\ DevMove /\ (PageCount > 1 \/ Len(Shown) > PageRows)
    /\ s # pager.size /\ pager' = [pager EXCEPT !.size = s, !.page = 1]
    /\ UNCHANGED <<fleet, navVars, box, typed, selVars, views>>

-----------------------------------------------------------------------------
(* The selection.                                                          *)

SelectedDevices == fleet.devices \cap selected
PageAll == Rows # <<>> /\ ToSet(Rows) \subseteq selected
Select(S) == selected' = S /\ UNCHANGED <<fleet, navVars, box, typed, pager, views>>

\* A click, or with Shift the run between the last click and this one.
Toggle(d, shift) ==
    LET Index(e) == CHOOSE i \in 1 .. Len(Rows) : Rows[i] = e
        range == IF shift /\ anchor \in ToSet(Rows)
                   THEN LET i == Index(anchor)  j == Index(d)
                        IN  {Rows[k] : k \in (IF i < j THEN i .. j ELSE j .. i)}
                   ELSE {d} IN
    /\ DevMove /\ d \in ToSet(Rows) /\ anchor' = d
    /\ Select(IF d \in selected THEN selected \ range ELSE selected \cup range)

TogglePage ==
    /\ DevMove /\ Rows # <<>> /\ UNCHANGED anchor
    /\ Select(IF PageAll THEN selected \ ToSet(Rows) ELSE selected \cup ToSet(Rows))

\* "Alle Treffer auswählen".
SelectHits ==
    /\ DevMove /\ PageAll /\ Len(Shown) > Len(Rows) /\ Cardinality(SelectedDevices) < Len(Shown)
    /\ Select(ToSet(Shown)) /\ UNCHANGED anchor

ClearSelection ==
    /\ DevMove /\ SelectedDevices # {} /\ Select({}) /\ UNCHANGED anchor

-----------------------------------------------------------------------------
(* What arrives.                                                           *)

FleetIs(f) == fleet' = f /\ UNCHANGED <<navVars, box, typed, pager, selVars, views>>

DevicesLoad ==
    /\ ~fleet.loaded /\ UNCHANGED devMoves
    /\ \E S \in {{}, Id} : FleetIs([fleet EXCEPT !.loaded = TRUE, !.failed = FALSE, !.devices = S])

DevicesFail ==
    /\ ~fleet.loaded /\ ~fleet.failed /\ UNCHANGED devMoves
    /\ FleetIs([fleet EXCEPT !.failed = TRUE])

PersonsLoad ==
    /\ ~fleet.persons /\ UNCHANGED devMoves
    /\ FleetIs([fleet EXCEPT !.persons = TRUE])

DeviceChanges(d) ==
    /\ DevMove /\ fleet.loaded
    /\ \/ FleetIs([fleet EXCEPT !.devices = IF d \in @ THEN @ \ {d} ELSE @ \cup {d}])
       \/ /\ d \in fleet.devices
          /\ \E s \in DeviceState \ {fleet.state[d]} : FleetIs([fleet EXCEPT !.state[d] = s])

-----------------------------------------------------------------------------
DevNext ==
    \/ Render \/ FollowLink \/ GoBack
    \/ \E t \in Text : Type(t)
    \/ \E f \in DevFilter : ChooseFilter(f)
    \/ \E p \in PersonParam : ChoosePerson(p)
    \/ \E s \in DevSort : SortBy(s)
    \/ ResetFilters \/ TogglePage \/ SelectHits \/ ClearSelection
    \/ \E n \in ViewName : SaveView(n)
    \/ \E i \in 1 .. Len(views) : ApplyView(i) \/ RemoveView(i)
    \/ \E p \in 1 .. ListDevices : SetPage(p)
    \/ \E s \in {"some", "alle"} : SetPageSize(s)
    \/ \E d \in Id, shift \in BOOLEAN : Toggle(d, shift)
    \/ DevicesLoad \/ DevicesFail \/ PersonsLoad
    \/ \E d \in Id : DeviceChanges(d)

DevSpec == DevInit /\ [][DevNext]_devVars

-----------------------------------------------------------------------------
(* Properties.                                                             *)

\* What was typed stands: rendering the page's own address, a keystroke or
\* two late, does not undo the keystrokes since (useAddressNavigation).
KeystrokesStay == typed # "unset" => box = typed

\* A person in the address narrows every selection, also while the persons
\* are not there: "a filter that silently fell away would widen [...] every
\* bulk action after it to the whole fleet" (DevicesPage).
SelectionOfPerson ==
    [][\A d \in selected' \ selected :
          address.person # "none" => address.person = "anna" /\ d \in Owned]_devVars
=============================================================================
