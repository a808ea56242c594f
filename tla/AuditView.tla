------------------------------ MODULE AuditView ------------------------------
(***************************************************************************)
(* The audit log: filters in the address, a search that waits for a pause  *)
(* in typing, pages cut by the server and cached by what was asked         *)
(* (pages/audit, useServerPagination).                                     *)
(*                                                                         *)
(* Entries are numbered in their order; the oldest leave the range of a    *)
(* week while the page is open.  The address renders at once here          *)
(* (DeviceTable has the transition).                                       *)
(***************************************************************************)
EXTENDS Naturals, FiniteSets

CONSTANTS
    LogEntries,    \* entries there will ever be
    SecureEntries, JobEntries, AnnaEntries, SearchHits,
    AuditRows,     \* the smaller page size
    MaxAuditMoves  \* steps of user and world

ASSUME AuditAssumption == {LogEntries, AuditRows} \subseteq Nat \ {0}

VARIABLES
    newest, aged,  \* server: the last entry, and the last that is over a week old
    auditAddress,
    searchBox, search, searchTimer,
    total,         \* what the pager works from
    auditPager,    \* page, size and the resetKey seen
    auditPages,    \* the query cache
    previousPage,  \* what keepPreviousData keeps
    auditLoad,     \* of what is asked: "fetching", "idle", "failed", "denied"
    exported,      \* history: the last export and what the page then asked for
    auditMoves

auditVars == <<newest, aged, auditAddress, searchBox, search, searchTimer, total, auditPager,
               auditPages, previousPage, auditLoad, exported, auditMoves>>
logVars == <<newest, aged>>
searchVars == <<searchBox, search, searchTimer>>

-----------------------------------------------------------------------------
EntryId == 1 .. LogEntries
SearchText == {"", "hit", "miss"}
AuditAddress == [range: {"7d", "alle"}, security: BOOLEAN, category: {"", "job"}, actor: {"", "anna"},
                 q: SearchText]
Unfiltered == [range |-> "7d", security |-> FALSE, category |-> "", actor |-> "", q |-> ""]
NoPage == [rows |-> {}, total |-> LogEntries + 1]
NoExport == [rows |-> {}, filters |-> Unfiltered, search |-> ""]

\* readFilters: the server ignores the category with "Nur Sicherheit" on, and
\* so does the page.
AuditFilters(a) == [a EXCEPT !.category = IF a.security THEN "" ELSE @, !.q = ""]

HasFilters == LET f == AuditFilters(auditAddress) IN
    f.security \/ f.category # "" \/ f.actor # "" \/ search # ""
IsNarrowed == HasFilters \/ auditAddress.range # "7d"

\* The server's filters, the range apart.
Passes(e, f, s) ==
    /\ f.security => e \in SecureEntries
    /\ f.category = "job" => e \in JobEntries
    /\ f.actor = "anna" => e \in AnnaEntries
    /\ s = "hit" => e \in SearchHits
    /\ s # "miss"

-----------------------------------------------------------------------------
(* useServerPagination.                                                    *)

FilterKey == <<AuditFilters(auditAddress), search>>
AuditLimit == IF auditPager.size = "alle" THEN LogEntries ELSE AuditRows
AuditPageCount == LET n == (total + AuditLimit - 1) \div AuditLimit IN IF n = 0 THEN 1 ELSE n
AuditPage == IF auditPager.page < AuditPageCount THEN auditPager.page ELSE AuditPageCount

\* What is asked for, and what the cache has for it.
Asked == [filters |-> AuditFilters(auditAddress), search |-> search, limit |-> AuditLimit,
          offset |-> (AuditPage - 1) * AuditLimit]
Cached == {p \in auditPages : p.key = Asked}
IsPlaceholder == Cached = {} /\ previousPage # NoPage
LogData == IF Cached = {} THEN previousPage ELSE (CHOOSE p \in Cached : TRUE).data

\* The answer to it: newest first, from the offset.
AuditAnswer ==
    LET all == {e \in 1 .. newest : Passes(e, Asked.filters, search)
                                    /\ (auditAddress.range = "7d" => e > aged)}
        newer(e) == Cardinality({d \in all : d > e})
    IN  [total |-> Cardinality(all),
         rows  |-> {e \in all : Asked.offset <= newer(e) /\ newer(e) < Asked.offset + AuditLimit}]

AuditTypeOK ==
    /\ newest \in 0 .. LogEntries /\ aged \in 0 .. newest
    /\ auditAddress \in AuditAddress
    /\ searchBox \in SearchText /\ search \in SearchText /\ searchTimer \in BOOLEAN
    /\ total \in 0 .. LogEntries
    /\ auditPager.page \in 1 .. LogEntries /\ auditPager.size \in {"some", "alle"}
    /\ \A p \in auditPages : p.data.rows \subseteq EntryId /\ Cardinality(p.data.rows) <= p.data.total
    /\ auditLoad \in {"fetching", "idle", "failed", "denied"}

AuditInit ==
    /\ newest = LogEntries - 1 /\ aged = 0
    /\ auditAddress \in {Unfiltered, [Unfiltered EXCEPT !.security = TRUE, !.category = "job"]}
    /\ searchBox = "" /\ search = "" /\ searchTimer = FALSE
    /\ total = 0 /\ auditPager = [page |-> 1, size |-> "some", key |-> FilterKey]
    /\ auditPages = {} /\ previousPage = NoPage /\ auditLoad = "fetching"
    /\ exported = NoExport /\ auditMoves = 0

\* What a render that follows makes of pager, placeholder and request.
NewKey == IF FilterKey' = auditPager.key THEN auditPager ELSE [auditPager EXCEPT !.page = 1, !.key = FilterKey']
AuditRender ==
    /\ previousPage' = IF Cached' = {} THEN previousPage ELSE LogData'
    /\ IF Asked' = Asked THEN UNCHANGED auditLoad
       ELSE auditLoad' \in IF Cached' = {} THEN {"fetching"} ELSE {"fetching", "idle"}

\* "setTotal" while rendering: until the pager works from the data's total.
Reports == LogData # NoPage /\ LogData.total # total
TakeTotal ==
    /\ Reports /\ total' = LogData.total
    /\ UNCHANGED <<logVars, auditAddress, searchVars, auditPager, auditPages, exported, auditMoves>>
    /\ AuditRender

Rendered == ~Reports
AuditMove == Rendered /\ auditMoves < MaxAuditMoves /\ auditMoves' = auditMoves + 1

-----------------------------------------------------------------------------
(* Filters, search and pages.                                              *)

ToolbarThere == auditLoad # "denied"

SetAudit(a) ==
    /\ AuditMove /\ ToolbarThere /\ a # auditAddress /\ auditAddress' = a
    /\ UNCHANGED <<logVars, searchVars, total, auditPages, exported>>
    /\ auditPager' = NewKey /\ AuditRender

ChooseRange(r) == SetAudit([auditAddress EXCEPT !.range = r])
ChooseActor(n) == SetAudit([auditAddress EXCEPT !.actor = n])
ChooseCategory(c) == ~auditAddress.security /\ SetAudit([auditAddress EXCEPT !.category = c])
SwitchSecurity(on) ==
    SetAudit([auditAddress EXCEPT !.security = on, !.category = IF on THEN "" ELSE @])

TypeSearch(t) ==
    /\ AuditMove /\ ToolbarThere /\ t # searchBox
    /\ searchBox' = t /\ searchTimer' = TRUE /\ auditAddress' = [auditAddress EXCEPT !.q = t]
    /\ UNCHANGED <<logVars, search, total, auditPager, auditPages, previousPage, auditLoad, exported>>

\* SEARCH_DELAY_MS after the last keystroke.
SearchPasses ==
    /\ Rendered /\ searchTimer /\ searchTimer' = FALSE /\ search' = searchBox
    /\ UNCHANGED <<logVars, auditAddress, searchBox, total, auditPages, exported, auditMoves>>
    /\ auditPager' = NewKey /\ AuditRender

\* Box and search without the delay; the timer starts over if the box changed.
SearchIs(t) ==
    /\ searchBox' = t /\ search' = t
    /\ searchTimer' = (searchTimer \/ searchBox # t)

\* The rail's link or "g l": useAddressNavigation.  And the reset button.
ToBlank ==
    /\ auditAddress' = Unfiltered /\ SearchIs("")
    /\ UNCHANGED <<logVars, total, auditPages, exported>>
    /\ auditPager' = NewKey /\ AuditRender
FollowAuditLink == AuditMove /\ auditAddress # Unfiltered /\ ToBlank
ResetAudit == AuditMove /\ ToolbarThere /\ IsNarrowed /\ ToBlank

PagerIs(p) ==
    /\ AuditMove /\ LogData.rows # {} /\ p # auditPager /\ auditPager' = p
    /\ UNCHANGED <<logVars, auditAddress, searchVars, total, auditPages, exported>> /\ AuditRender
GoToPage(n) == n \in 1 .. AuditPageCount /\ PagerIs([auditPager EXCEPT !.page = n])
SetAuditSize(s) == PagerIs([auditPager EXCEPT !.size = s, !.page = 1])

\* The export is the page that is shown, and only what was asked for.
MayExportAny == LogData.rows # {}
MayExport == LogData.rows # {} /\ ~IsPlaceholder
ExportCsv ==
    /\ Rendered /\ ToolbarThere /\ MayExport
    /\ exported' = [rows |-> LogData.rows, filters |-> Asked.filters, search |-> search]
    /\ UNCHANGED <<logVars, auditAddress, searchVars, total, auditPager, auditPages, previousPage,
                   auditLoad, auditMoves>>

-----------------------------------------------------------------------------
(* Requests, and the log itself.                                           *)

PageArrives ==
    /\ Rendered /\ auditLoad = "fetching"
    /\ auditPages' = {p \in auditPages : p.key # Asked} \cup {[key |-> Asked, data |-> AuditAnswer]}
    /\ previousPage' = AuditAnswer /\ auditLoad' = "idle"
    /\ UNCHANGED <<logVars, auditAddress, searchVars, total, auditPager, exported, auditMoves>>

LoadIs(from, to) ==
    /\ Rendered /\ auditLoad \in from /\ auditLoad' \in to
    /\ UNCHANGED <<logVars, auditAddress, searchVars, total, auditPager, auditPages, previousPage,
                   exported, auditMoves>>
PageFails == LoadIs({"fetching"}, {"failed", "denied"})
\* refetchInterval, the error's retry.
PageAskedAgain == LoadIs({"idle", "failed", "denied"}, {"fetching"})

Happens ==
    /\ AuditMove /\ newest < LogEntries /\ newest' = newest + 1
    /\ UNCHANGED <<aged, auditAddress, searchVars, total, auditPager, auditPages, previousPage,
                   auditLoad, exported>>
Ages ==
    /\ AuditMove /\ aged < newest /\ aged' = aged + 1
    /\ UNCHANGED <<newest, auditAddress, searchVars, total, auditPager, auditPages, previousPage,
                   auditLoad, exported>>

AuditNext ==
    \/ TakeTotal \/ SearchPasses \/ FollowAuditLink \/ ResetAudit \/ ExportCsv
    \/ PageArrives \/ PageFails \/ PageAskedAgain \/ Happens \/ Ages
    \/ \E r \in {"7d", "alle"} : ChooseRange(r)
    \/ \E n \in {"", "anna"} : ChooseActor(n)
    \/ \E c \in {"", "job"} : ChooseCategory(c)
    \/ \E on \in BOOLEAN : SwitchSecurity(on)
    \/ \E t \in SearchText : TypeSearch(t)
    \/ \E n \in 1 .. LogEntries : GoToPage(n)
    \/ \E s \in {"some", "alle"} : SetAuditSize(s)

AuditSpec == AuditInit /\ [][AuditNext]_auditVars

-----------------------------------------------------------------------------
(* Properties.                                                             *)

\* An export holds what the page's filters and search ask for, though the
\* rows of what was asked before stay on screen while a page loads
\* (AuditPage, keepPreviousData).
ExportsMatch == \A e \in exported.rows : Passes(e, exported.filters, exported.search)
=============================================================================
