----------------------------- MODULE DevicesPage -----------------------------
(***************************************************************************)
(* The list side of the Devices page: search box with its debounce timer,  *)
(* filters, chips, saved views, pagination, sorting, Pause and Refresh,    *)
(* over the query cache.  Every combination of filters is a query of its   *)
(* own; while it loads, the page filters the last list it had.  Editing a  *)
(* device is module DeviceEditing.                                         *)
(*                                                                         *)
(* React renders and runs the page's effects before it handles the next    *)
(* event, so a step of this module includes them (Render).                 *)
(***************************************************************************)
EXTENDS DeviceFilters, Sequences
INSTANCE QueryCache

CONSTANTS
    Searches,     \* what a user may type
    World,        \* the sets of devices the server may come to hold
    MaxViews,     \* saved views that are kept: 12 in the code
    Scenario      \* where a behaviour starts, and its bounds

Step == {"query", "segmentation", "online", "facet", "chip", "clear", "save", "apply", "delete",
         "pause", "refresh", "sort", "page", "mount", "focus", "tab"}
\* Bounds: steps of the user (and which), failed fetches (while one is left, the
\* browser may refuse to store too), changes of the server's devices.
Budget == [moves : Nat, steps : SUBSET Step, faults : Nat, outside : Nat]

ASSUME SearchesAssumption == NoQuery \in Searches /\ Searches \subseteq Query
\* The MAC is the key of devices_state.
ASSUME WorldAssumption ==
    /\ World \subseteq SUBSET Device
    /\ \A w \in World : IsFiniteSet(w) /\ \A d, e \in w : d.mac = e.mac => d = e
ASSUME MaxViewsAssumption == MaxViews \in Nat \ {0}
ASSUME ScenarioAssumption == \A s \in Scenario : s.world \in World /\ s.budget \in Budget

VARIABLES
    server,        \* the devices the server holds
    cache,         \* the queries made so far -> entry
    unconfigured,  \* the queries whose last failure was "add-on is not configured"
    last,          \* the last query that had data on screen, or None
    devices,       \* the list of the last rendering
    page,          \* the state of the page's hooks
    saved,         \* the saved views: of the page, and in the browser's storage
    budget

vars == <<server, cache, unconfigured, last, devices, page, saved, budget>>

Key == [paused : BOOLEAN, query : Term \cup {""}, segmentation : RegistrationScope, facets : Facets]
View == [id : Nat, search : Query, segmentation : RegistrationScope, online : OnlineScope,
         facets : Facets]
Sorting == [id : Column, desc : BOOLEAN]
Page ==
    [query : Query, debounced : Query, timers : SUBSET Query, segmentation : RegistrationScope,
     online : OnlineScope, facets : Facets, sort : Sorting, index : Nat, paused : BOOLEAN,
     refreshing : BOOLEAN]

\* The page as it mounts: the debounce effect has set its timer.
Fresh ==
    [query |-> NoQuery, debounced |-> NoQuery, timers |-> {NoQuery}, segmentation |-> "all",
     online |-> "any", facets |-> NoFacets, sort |-> [id |-> "name", desc |-> FALSE], index |-> 0,
     paused |-> FALSE, refreshing |-> FALSE]
-----------------------------------------------------------------------------
(* Queries and what is on screen.                                          *)

KeyOf(p) ==
    [paused |-> p.paused, query |-> trim(p.debounced), segmentation |-> p.segmentation,
     facets |-> p.facets]
Current == KeyOf(page)

\* What the server answers: it knows the status and looks for the text in
\* name, MAC, vendor and IP; the other filters are the page's own.
fetchDevices(k) ==
    {d \in server : /\ k.segmentation \in {"new", "registered"} => d.status = k.segmentation
                    /\ k.query # "" => k.query \in d.words}

\* The cache once the page uses query k: fetched if never loaded, marked, or stale.
Observed(c, k, stale) ==
    LET e == IF k \in DOMAIN c THEN c[k] ELSE Empty
    IN  [x \in DOMAIN c \cup {k} |->
            IF x # k THEN c[x] ELSE IF ~Loaded(e) \/ e.invalid \/ stale THEN Start(e) ELSE e]

\* The query's own list; while it loads for the first time, the last list there was.
DataOf(c, k) ==
    IF Loaded(c[k]) THEN c[k].data ELSE IF c[k].error \/ last = None THEN {} ELSE c[last].data

addonNotConfigured == cache[Current].error /\ Current \in unconfigured
routerDisconnected == cache[Current].error /\ Current \notin unconfigured
isInitialLoading == ~Loaded(cache[Current]) /\ ~cache[Current].error /\ last = None
-----------------------------------------------------------------------------
(* Rendering: the list, then the effects on the page number.               *)

paginationResetKey_NoOnline(p) == <<trim(p.debounced), p.segmentation, p.facets>>
paginationResetKey(p) == <<trim(p.debounced), p.segmentation, p.online, p.facets>>

Effects_AutoReset(p, list) ==
    [p EXCEPT !.index =
        IF @ > maxPageIndex(Cardinality(filteredDevices(p, list)))
        THEN maxPageIndex(Cardinality(filteredDevices(p, list)))
        ELSE IF paginationResetKey(p) # paginationResetKey(page) \/ list # devices THEN 0 ELSE @]
Effects_NoClamp(p, list) ==
    [p EXCEPT !.index = IF paginationResetKey(p) # paginationResetKey(page) THEN 0 ELSE @]
\* Both effects run after a rendering: the first goes to the first page when the
\* filters have changed; the second, which still sees the old page number,
\* overrides it with the last page when the old one is gone.
Effects(p, list) ==
    LET max == maxPageIndex(Cardinality(filteredDevices(p, list)))
    IN  [p EXCEPT !.index =
            IF @ > max THEN max
            ELSE IF paginationResetKey(p) # paginationResetKey(page) THEN 0 ELSE @]

Render(p, c) ==
    /\ cache' = c
    /\ last' = IF Loaded(c[KeyOf(p)]) THEN KeyOf(p) ELSE last
    /\ devices' = DataOf(c, KeyOf(p))
    /\ page' = Effects(p, DataOf(c, KeyOf(p)))

\* The page's state becomes p.
Set(p) ==
    IF KeyOf(p) = Current THEN Render(p, cache)
    ELSE \E stale \in BOOLEAN : Render(p, Observed(cache, KeyOf(p), stale))
-----------------------------------------------------------------------------
(* The user.  Without a configuration only the header is shown.            *)

Move(step) ==
    /\ step \in budget.steps /\ budget.moves > 0
    /\ budget' = [budget EXCEPT !.moves = @ - 1]
UserSets(step, p) == Move(step) /\ Set(p) /\ UNCHANGED <<server, unconfigured, saved>>

Rescheduled_NoClear(timers, q) == timers \cup {q}
\* The effect on the text clears the timer of the text before.
Rescheduled(timers, q) == {q}
WithQuery(p, q) ==
    IF q = p.query THEN p ELSE [p EXCEPT !.query = q, !.timers = Rescheduled(@, q)]
\* Set at once, not by the timer.
WithSearch(p, q) == [WithQuery(p, q) EXCEPT !.debounced = q]

setQuery ==
    /\ ~addonNotConfigured
    /\ \E q \in Searches \ {page.query} : UserSets("query", WithQuery(page, q))
onClearQuery ==
    ~addonNotConfigured /\ trim(page.query) # "" /\ UserSets("query", WithSearch(page, NoQuery))

SegmentationMenu ==
    /\ ~addonNotConfigured
    /\ \E s \in RegistrationScope \ {page.segmentation} :
         UserSets("segmentation", [page EXCEPT !.segmentation = s])
\* The cards Online and Offline show all devices; the others switch on and off.
KpiFilters ==
    /\ ~addonNotConfigured /\ ~isInitialLoading
    /\ \E s \in RegistrationScope :
         UserSets("segmentation", [page EXCEPT !.segmentation = IF s = @ THEN "all" ELSE s])
OnlineScopeMenu ==
    /\ ~addonNotConfigured
    /\ \E s \in OnlineScope \ {page.online} : UserSets("online", [page EXCEPT !.online = s])

toggleFacet(p, kind, v) == [p EXCEPT !.facets[kind] = toggleArrayValue(@, v)]
FacetPopover ==
    /\ ~addonNotConfigured
    /\ \E kind \in FacetKind : \E v \in options(kind, devices) :
         UserSets("facet", toggleFacet(page, kind, v))

handleRemoveChip ==
    /\ ~addonNotConfigured
    /\ \E c \in chips(page) :
         UserSets("chip", CASE c.kind = "query" -> WithSearch(page, NoQuery)
                            [] c.kind = "segmentation" -> [page EXCEPT !.segmentation = "all"]
                            [] c.kind = "online" -> [page EXCEPT !.online = "any"]
                            [] OTHER -> toggleFacet(page, c.kind, c.value))

\* "Clear all" beside the chips, "Clear filters" instead of the table.
clearAllFilters ==
    /\ ~addonNotConfigured
    /\ chips(page) # {} \/ (devices # {} /\ filteredDevices(page, devices) = {})
    /\ UserSets("clear", [WithSearch(page, NoQuery) EXCEPT
                             !.segmentation = "all", !.online = "any", !.facets = NoFacets])

\* The column header: ascending first, then the other way round.
toggleSorting ==
    /\ filteredDevices(page, devices) # {} /\ ~addonNotConfigured
    /\ \E c \in {"last_ip", "last_seen"} :
         UserSets("sort", [page EXCEPT !.sort = [id |-> c, desc |-> @ = [id |-> c, desc |-> FALSE]]])

\* Previous, Next and the page numbers.
setPageIndex ==
    LET n == pageCount(Cardinality(filteredDevices(page, devices))) IN
    /\ filteredDevices(page, devices) # {} /\ ~addonNotConfigured
    /\ \E i \in (buildPageItems(page.index, n) \cup ({page.index - 1, page.index + 1} \cap (0 .. n - 1)))
                  \ {page.index} :
         UserSets("page", [page EXCEPT !.index = i])

toggle == UserSets("pause", [page EXCEPT !.paused = ~@])

\* Refresh is disabled while it spins; Retry of the alert never is.
handleRefresh ==
    /\ ~page.refreshing \/ routerDisconnected
    /\ Move("refresh") /\ Render([page EXCEPT !.refreshing = TRUE],
                                 [cache EXCEPT ![Current] = Restart(@)])
    /\ UNCHANGED <<server, unconfigured, saved>>

\* The page is left and opened again, or the browser reloads it.
Mount ==
    /\ Move("mount")
    /\ \E kept \in {cache, [k \in {} |-> Empty]}, stale \in BOOLEAN :
         LET c == Observed(kept, KeyOf(Fresh), stale)
             e == c[KeyOf(Fresh)]
         IN  /\ cache' = c /\ page' = Fresh
             /\ last' = IF Loaded(e) THEN KeyOf(Fresh) ELSE None
             /\ devices' = IF Loaded(e) THEN e.data ELSE {}
    /\ saved' = [views |-> saved.storage, storage |-> saved.storage, apart |-> FALSE]
    /\ UNCHANGED <<server, unconfigured>>
-----------------------------------------------------------------------------
(* Saved views.                                                            *)

Kept(items) == SubSeq(items, 1, IF Len(items) > MaxViews THEN MaxViews ELSE Len(items))
saveView(s, v) == LET updated == Kept(<<v>> \o s.views) IN [views |-> updated, storage |-> updated, apart |-> FALSE]

\* The views with another identifier, in their order.
Others(items, id) ==
    LET kept == {i \in DOMAIN items : items[i].id # id}
    IN  [n \in 1 .. Cardinality(kept) |->
            items[CHOOSE i \in kept : Cardinality({j \in kept : j < i}) = n - 1]]
removeView_MemoryOnly(s, id) == [s EXCEPT !.views = Others(s.views, id)]
removeView(s, id) ==
    LET updated == Others(s.views, id) IN [views |-> updated, storage |-> updated, apart |-> FALSE]

Ids(items) == {items[i].id : i \in DOMAIN items}
UnusedId == CHOOSE n \in 0 .. 2 * MaxViews : n \notin Ids(saved.views) \cup Ids(saved.storage)

\* The browser may refuse to store; the view is in the menu by then.
Persist(step, s) ==
    /\ ~addonNotConfigured /\ Move(step)
    /\ saved' = s \/ (budget.faults > 0 /\ saved' = [s EXCEPT !.storage = saved.storage, !.apart = TRUE])
    /\ UNCHANGED <<server, cache, unconfigured, last, devices, page>>

onSaveCurrentView ==
    Persist("save", saveView(saved, [id |-> UnusedId, search |-> page.query,
                                     segmentation |-> page.segmentation, online |-> page.online,
                                     facets |-> page.facets]))
onDeleteView == \E id \in Ids(saved.views) : Persist("delete", removeView(saved, id))

applySavedView ==
    /\ ~addonNotConfigured
    /\ \E i \in DOMAIN saved.views : LET v == saved.views[i] IN
         UserSets("apply", [WithSearch(page, v.search) EXCEPT
                               !.segmentation = v.segmentation, !.online = v.online, !.facets = v.facets])

\* The page in another tab of the browser saves or deletes a view.
OtherTab ==
    /\ Move("tab")
    /\ \E s \in {saveView([saved EXCEPT !.views = saved.storage],
                          [id |-> UnusedId, search |-> NoQuery, segmentation |-> "new",
                           online |-> "any", facets |-> NoFacets])}
                \cup {removeView([saved EXCEPT !.views = saved.storage], id) : id \in Ids(saved.storage)} :
         saved' = [saved EXCEPT !.storage = s.storage, !.apart = TRUE]
    /\ UNCHANGED <<server, cache, unconfigured, last, devices, page>>
-----------------------------------------------------------------------------
(* Timers and the network.                                                 *)

DebounceFires ==
    /\ \E q \in page.timers : Set([page EXCEPT !.debounced = q, !.timers = @ \ {q}])
    /\ UNCHANGED <<server, unconfigured, saved, budget>>
RefreshEnds ==
    /\ page.refreshing /\ page' = [page EXCEPT !.refreshing = FALSE]
    /\ UNCHANGED <<server, cache, unconfigured, last, devices, saved, budget>>

refetchInterval_UntilError == ~page.paused /\ ~cache[Current].error
\* The list is polled, whatever the last answer was, unless updates are paused.
refetchInterval == ~page.paused

Refetch ==
    /\ ~Fetching(cache[Current]) /\ Render(page, [cache EXCEPT ![Current] = Start(@)])
    /\ UNCHANGED <<server, unconfigured, saved>>
Poll == refetchInterval /\ Refetch /\ UNCHANGED budget
\* The window gets the focus after the list has become too old.
Focus == Move("focus") /\ Refetch

ServerReads(k) ==
    /\ cache[k].fetch = Sent
    /\ cache' = [cache EXCEPT ![k].fetch = Read(fetchDevices(k))]
    /\ UNCHANGED <<server, unconfigured, last, devices, page, saved, budget>>

\* An answer to a query the page no longer uses waits in the cache.
FetchOver(k, e) ==
    /\ IF k = Current THEN Render(page, [cache EXCEPT ![k] = e])
       ELSE cache' = [cache EXCEPT ![k] = e] /\ UNCHANGED <<last, devices, page>>
    /\ UNCHANGED <<server, saved>>
FetchSucceeds(k) ==
    LET e == cache[k] IN
    /\ e.fetch \notin {Idle, Sent}
    /\ FetchOver(k, Answered(e, mergeDevicesForList(IF Loaded(e) THEN e.data ELSE {}, e.fetch[2])))
    /\ unconfigured' = unconfigured \ {k} /\ UNCHANGED budget
FetchFails(k) ==
    /\ Fetching(cache[k]) /\ budget.faults > 0 /\ budget' = [budget EXCEPT !.faults = @ - 1]
    /\ FetchOver(k, Failed(cache[k]))
    /\ unconfigured' \in {unconfigured \cup {k}, unconfigured \ {k}}

\* The poller, or another user, changes the devices.
Outside ==
    /\ budget.outside > 0 /\ budget' = [budget EXCEPT !.outside = @ - 1]
    /\ server' \in World \ {server}
    /\ UNCHANGED <<cache, unconfigured, last, devices, page, saved>>
-----------------------------------------------------------------------------
Init ==
    \E s \in Scenario :
        /\ server = s.world /\ budget = s.budget
        /\ page = Fresh /\ last = None /\ devices = {} /\ unconfigured = {}
        /\ cache = Observed([k \in {} |-> Empty], KeyOf(Fresh), TRUE)
        /\ saved = [views |-> <<>>, storage |-> <<>>, apart |-> FALSE]

Users ==
    \/ setQuery \/ onClearQuery \/ SegmentationMenu \/ KpiFilters \/ OnlineScopeMenu \/ FacetPopover
    \/ handleRemoveChip \/ clearAllFilters \/ toggleSorting \/ setPageIndex \/ toggle \/ handleRefresh
    \/ Mount \/ onSaveCurrentView \/ onDeleteView \/ applySavedView \/ OtherTab \/ Focus
Answers == \E k \in DOMAIN cache : ServerReads(k) \/ FetchSucceeds(k)
Next ==
    \/ Users \/ DebounceFires \/ RefreshEnds \/ Poll \/ Answers
    \/ (\E k \in DOMAIN cache : FetchFails(k)) \/ Outside

Spec == Init /\ [][Next]_vars

\* Fetches are answered, timers fire, the interval elapses.
Fairness == WF_vars(Answers) /\ WF_vars(DebounceFires) /\ WF_vars(RefreshEnds) /\ WF_vars(Poll)
FairSpec == Spec /\ Fairness
-----------------------------------------------------------------------------
EntryOK(k) ==
    /\ cache[k].data # None => cache[k].data \subseteq Device
    /\ cache[k].fetch \notin {Idle, Sent} => cache[k].fetch[2] \subseteq Device
    /\ {cache[k].error, cache[k].invalid} \subseteq BOOLEAN
ViewsOK(items) == Len(items) <= MaxViews /\ \A i \in DOMAIN items : items[i] \in View

\* The type invariant; the query on screen is always in the cache.
TypeOK ==
    /\ server \in World /\ devices \subseteq Device /\ page \in Page /\ budget \in Budget
    /\ DOMAIN cache \subseteq Key /\ Current \in DOMAIN cache /\ last \in DOMAIN cache \cup {None}
    /\ unconfigured \subseteq Key /\ \A k \in DOMAIN cache : EntryOK(k)
    /\ ViewsOK(saved.views) /\ ViewsOK(saved.storage) /\ saved.apart \in BOOLEAN

\* Whatever shrinks the list - a filter, a poll, a placeholder of another query -
\* the table never shows an empty page while there are matching devices
\* (the effects on pagination in DevicesPage).
PageInRange ==
    /\ page.index \in 0 .. maxPageIndex(Cardinality(filteredDevices(page, devices)))
    /\ filteredDevices(page, devices) # {} => rows(page, devices) # {}

\* With no timer running, the text that is searched for is the one in the box:
\* no timer of an earlier text fires after a later one, nor after Clear or a
\* saved view (the debounce effect of DevicesPage).
SearchFollowsInput == page.timers = {} => page.debounced = page.query

\* The saved views of the menu are those a reload brings back, unless the
\* browser refused to store them or another tab has written since; no two have
\* the same identifier (useSavedViews).
ViewsPersist ==
    /\ ~saved.apart => saved.storage = saved.views
    /\ \A i, j \in DOMAIN saved.views : saved.views[i].id = saved.views[j].id => i = j

Filters(p) == <<trim(p.debounced), p.segmentation, p.online, p.facets>>
MaxIndex == maxPageIndex(Cardinality(filteredDevices(page, devices)))

\* Polls, answers, failures, refreshes and views that are saved leave the user on
\* the page that was open (autoResetPageIndex): another page is shown only when
\* the user asks for it, which changes nothing else, when the filters have
\* changed, when the open page is gone, or when the page is opened again.  Other
\* filters show their first page (paginationResetKey), except when the page that
\* was open is gone too: then the second effect wins, and the last page is shown.
PageKept ==
    [][/\ page'.index # page.index =>
            \/ budget'.moves # budget.moves /\ page' = [page EXCEPT !.index = page'.index]
            \/ Filters(page') # Filters(page)
            \/ page.index > MaxIndex'
            \/ page' = Fresh
       /\ Filters(page') # Filters(page) /\ page.index <= MaxIndex' => page'.index = 0]_vars

Shown(list) == {Listed(d) : d \in filteredDevices(page, list)}
\* Unless updates are paused, the table ends up with the devices of the server
\* that match, field by field, whatever was typed, failed or overtaken before
\* (refetchInterval and mergeDevicesForList of useDevicesListQuery).
ShownConverges == <>[](~page.paused => Shown(devices) = Shown(fetchDevices(Current)))
=============================================================================
