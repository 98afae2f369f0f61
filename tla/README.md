# A TLA+ model of MikroTik Presence

MikroTik Presence is a Home Assistant add-on (a Go server with a web front
end) and a Home Assistant integration.  The server polls a MikroTik router,
decides which devices are present, keeps what it found in SQLite, and lets
users attach *capabilities* to devices or to the whole system: named states
whose router commands (firewall rules, address lists) are run when a state is
entered, and which can be synchronised with what the router says.

This directory models the server's core: what happens between the database
calls of a poll, between the router commands and the database calls of an
automation request, between the goroutines that share one router connection,
and between the poller and the configuration refresh; and the web front end:
what happens between a click, the request it sends, the polls and refetches
beside it and the answers, in whatever order they arrive.  Paths below are
relative to `src/addon/internal`, those of the front end to
`src/addon/frontend/src`.

## The parts of the system

| Part | State it keeps | Operations that change it | Talks to |
| --- | --- | --- | --- |
| device presence service (`services/device`) | local variables of a running poll | `PollOnce` | config, router monitor, aggregator, device tables |
| aggregator (`aggregator`) | none between calls | `Aggregate` | called by a poll |
| device tables (`storage`) | `devices_state`, `devices_registered`, `devices_new_cache` | upserts, deletes, patch | polls and HTTP handlers |
| RouterOS client (`routeros/client.go`, `events.go`) | the connection, three mutexes, the closed channel | `Run`, `connect`, `disconnect`, `Listen`, `Close` | the router |
| address lists (`routeros/addresslist.go`) | a mutex per client; the lists are on the router | add, remove | `Client.Run` |
| firewall rules (`routeros/firewall.go`) | on the router | enable, disable by comment | `Client.Run` |
| automation engine and service (`services/automation`) | templates, capability rows | set state, set enabled, sync, template CRUD | device service, actions, state sources |
| poller, configuration sync, `main` | the configuration, a one-slot channel, a timer, the options file | trigger, poll, refresh, shutdown | device service |
| HTTP handlers | none | register, patch, refresh, PATCH, CRUD | all services |
| front end: query cache (TanStack Query, `main.tsx`) | an entry per query: data, error, invalid, fetch in flight | fetch, join, restart, cancel, invalidate, `setQueryData` | HTTP API, all pages |
| front end: device editing (`hooks/useRegisterDevice.ts`, drawer, Assignments, Global) | requests in flight, Undo values, what is open | save, Undo, set state, set enabled, navigation | query cache, HTTP API |
| front end: capability pages (`pages/automation`, `lib/automation.ts`) | the draft, the dialog, where the browser is | edits of the tabs, Save, Duplicate, Delete, navigation | query cache, HTTP API |
| front end: device list (`pages/DevicesPage.tsx`, `hooks/useDevicesListQuery.ts`, `hooks/useSavedViews.ts`) | search text and timer, filters, page number, saved views | typing, filters, chips, views, pages, Pause, Refresh | query cache, the browser's storage |
| Home Assistant integration | what the API returned | the same API calls | HTTP API |

Everything runs concurrently: the HTTP server has a goroutine per request, the
poller, the sync loop and the configuration refresh one each.  A database call
is atomic (one statement or one transaction); nothing spans two calls.  The
hard behaviours are therefore

* **between two database calls** of a poll or of a capability transition:
  another request may write the same rows, a call may fail, the process may
  stop;
* **router commands**, which may fail, be executed although the reply was
  lost, be repeated by `Client.Run`, or race with somebody at the router;
* **the shared connection**, which is taken away, dialled again and closed by
  whoever notices a failure;
* **wake-ups** through a channel of size one, beside a timer and a context;
* **time**: a status is decided from ages and thresholds measured at different
  moments;
* **the browser**: a page shows a copy of the server's data that polls, window
  focus, optimistic updates, roll-backs and invalidation change independently; a
  request may be lost before or after it was processed; forms stay usable while a
  request is on its way, and its answer may arrive on another page.

What makes each part correct, as checked here: rows that are coherent and
justified whatever is interrupted (poll); observations that are dated and
traceable (aggregator); a set with atomic add and remove (address lists); no
lost connection and no endless call (client); a router that does what the
stored state says, and stored states that follow the router where they should
(automation); no lost wake-up (poller); a page that ends up showing what the
server holds, and in between neither loses a user's input nor claims what never
was (front end).

## Modules

| Module | Models | Kind |
| --- | --- | --- |
| `Presence` | statuses and observations, the interface between aggregator and poll | definitions |
| `DevicePoll` | `PollOnce`/`persistSnapshot`, the three device tables, `RegisterDevice`, `PatchDevice` | specification |
| `DevicePollProofs` | theorems about it and about `PollScheduler` | proofs |
| `MCDevicePoll` | the observations TLC enumerates | instance |
| `Aggregator` | `Aggregate` and `parseRouterOSAge` | specification |
| `AggregatorProofs`, `MCAggregator` | theorems about it; the rows TLC enumerates | proofs, instance |
| `Automation` | `SetCapabilityState`, `SyncOnce`, PATCH, template CRUD | specification |
| `AutomationProofs`, `MCAutomation` | theorems about it; the templates TLC uses | proofs, instance |
| `AddressSet` | a set with atomic operations | abstract specification |
| `AddressList` | `AddAddressToList`, `RemoveAddressFromList` over `Client.Run` | specification, implements `AddressSet` |
| `AddressListProofs` | theorems about it, the refinement among them | proofs |
| `RouterClient` | `Client.Run`, `connect`, `disconnect`, `Close`, `listenLoop` | specification |
| `RouterClientProofs` | theorems about it | proofs |
| `PollScheduler` | `Poller.Run`, `Manager.Refresh`, `runConfigFallbackRefresh`, `main` | specification |
| `QueryCache` | an entry of TanStack Query's cache and the operations the pages use | definitions |
| `DeviceEditing` | drawer, `useRegisterDevice`, Undo, capability controls, Assignments, Global | specification |
| `DeviceEditingProofs`, `MCDeviceEditing` | theorems about it; its forms and scenarios | proofs, instance |
| `TemplateDraft` | the draft of the capability editor and every edit of it, `lib/automation.ts` | definitions |
| `CapabilityEditor` | the capability list and the editor with its requests | specification |
| `CapabilityEditorProofs`, `MCCapabilityEditor` | theorems about it; its action types, templates and scenarios | proofs, instance |
| `DeviceFilters` | filters, menus, chips, rows, page numbers, merging of an answer | definitions |
| `DevicesPage` | the device list: search and timer, filters, views, pages, polling | specification |
| `DevicesPageProofs`, `MCDevicesPage` | theorems about it; the devices and scenarios TLC uses | proofs, instance |

`Aggregator` and `DevicePoll` meet in `Presence`: what `HandsOverObservations`
proves of the aggregator's output is what `DevicePoll` assumes of its input.

`DeviceEditing`, `CapabilityEditor` and `DevicesPage` each compose pages with
`QueryCache` and with the part of the server they talk to.  They share no state
that one of them changes and another's properties are about, so they are
checked one by one.

Operators whose name ends in an underscore and a word (`Effects_NoClamp`) are
mutants: plausible mistakes in the operator of the same name.  Each property
is violated when one of them takes the place of the real operator
(`PROJECT.json`, "mutants"); nothing else uses them.

### DevicePoll

One device table is one variable (`states`, `registered`, `cache`), a row or
`None` per MAC.  A poll is a record with a program counter; each action is one
call of the code: `FetchSnapshot` (an arbitrary set of observations),
`LoadAllStates`, `ListRegistered`, `ListNewCache`, `UpsertStates`,
`UpsertNewCache`, `DeleteStates`, `DeleteNewCache`, `PollReturns`; `PollAborts`
is any of them failing, or a restart.  `RegisterDevice` and `PatchDevice` may
happen between any two.  `NextRow` and its parts are the body of
`persistSnapshot`'s loop.  `now` is the wall clock; a poll uses the time at which
it fetched (`fetched`) and at which it began to write (`at`), as the code does.
Columns that no property tells apart (addresses, interfaces, raw sources) are
reduced to "present".

### Aggregator

A snapshot is one sequence of rows per router table; the passes are actions,
one row each, in the code's order.  Ages are modelled by what
`parseRouterOSAge` returns for each printed form, including the forms it cannot
parse and dates in the future.

### Automation

Each database call and each router command of a request is an action, for a set
of requests in flight and for the sync loop, which calls the same
`SetCapabilityState`; `Begin` is the call's arguments.  The router is a set of
Boolean facts per target (the target's address is in a list; a rule is enabled):
an action sets one, a state source reads one.  `Churn` selects what the outside
does in a scenario: requests, changes at the router, devices that come and go,
template edits. `outcome` remembers how the last transition of a row ended; the
rest is the code's own state.  `RouterFollowsState` asks nothing of a capability
whose facts another one writes too (`SoleWriter`): the code does not coordinate
them, and the later transition wins.

### AddressList and AddressSet

`AddressSet` is what a caller may rely on: a set, an operation that takes
effect atomically, at most once between call and return, success only if the
goal held at some moment in between, and an error that says nothing.  An
operation takes effect a second time only after somebody with another client, or
at the router, has undone it before it returned: it cannot tell that from a
command that was lost.  Operations of one client do not undo each other, which
is what the mutex is for (the refinement fails without it).  In `AddressList` an
operation takes a client's mutex, looks the entry up and changes it; each
command may be lost before or after it was executed and is then sent again, up
to `Attempts` times.  Entries have the router's `.id`s: a remove by `.id` may
meet an entry that vanished, and came back under another `.id`.  A call may use
any client, so two callers need not share a mutex.  An error is a text: a
refused repetition ("already have", "no such item"), a denial, or why `Run` gave
up.  `isAlreadyExistsError` and `isNotFoundError` look at that text only, and
`Reported` is what each command makes of it.  The histories `seen` and `effects`
say whether an operation's goal has held since its call, and how often it has
changed the lists.

### RouterClient

One client: `conn`, the set of open connections, those the peer has broken,
`connectMu`, `runMu`, and each goroutine's locals.  Program counters follow
`connect`, `Run`, `disconnect`, `listenLoop` and `Close` from one shared access
to the next.  Connection names are reused once nobody knows them, which keeps
the state space finite without a bound on reconnections.

### PollScheduler

The options file (complete, blank, missing, unreadable), the manager's
configuration, the channel's slot, the poller's select loop, the refresher, and
`main`.  `asked` is a history variable: a trigger since the last poll began.

### QueryCache

An entry has its data, whether the last fetch failed, whether it is marked as
out of date, the fetch in flight (sent, or read by the server with what it
read), and the state to return to when the fetch is cancelled.  `Start` is what
mounting, the interval and window focus do, `Restart` what `refetch` and
invalidation do; a first load is joined, never restarted, which is why an
invalidation during it can leave older data behind.  Retries of a fetch are part
of the fetch.  Unused entries are never collected (`gcTime`): collecting one only
leads to a first load, which the model has.

### DeviceEditing

Every call to the server is a request that is sent, processed and answered in
separate steps.  A request whose connection fails was processed before or never
will be.  `server` holds one device, its capability row and a global one; a name
stands for name and comment together.  The three lists are the keys that differ
for this purpose: polled, paused, new devices only; the device picker of the
Assignments page shares the first.  What the model shows of the code and no
property forbids: the roll-back of `useRegisterDevice` changes nothing when
there was no data before, Undo cannot restore a missing icon, an update from the
drawer does not invalidate the Assignments query, and an invalidation during a
first load is joined.  `SavesShown` excepts a drawer that was closed during the
save, whose detail query is not observed then.

### TemplateDraft and CapabilityEditor

A template is reduced to what the editor's code branches on: identifier, label,
scope, control type, options, the actions of each state, default state,
synchronisation, Home Assistant exposure.  `TemplateDraft` has one operator per
edit of `CapabilityEditorPage` and the dialog's field logic; the effects that
run after an edit are part of it.  In `CapabilityEditor` the draft, the dialog and
the page are one record; a fetched template replaces the draft unless it equals
the one already taken over, and a save that succeeds navigates to its template
wherever the user is by then.  `missed` is a history variable: the queries whose
data may be older than a change of the table, either because the change was
somebody else's or because a first load was joined.  The page is "crashed" when
React fails because the state of the open dialog is no longer in the draft.

### DeviceFilters and DevicesPage

A device is what filters, sorting and merging look at.  Every combination of
filters is a query of its own; until its first answer the page filters the last
list it had (`placeholderData`).  A step includes the rendering and the effects
after it, as React runs them before it handles the next event.  Two effects set
the page number: the reset to the first page, and the clamp, which still sees
the old number and wins.  `PageKept` does not say what the effects compute but
when the user may find another page open; opening the page again makes a new
component with its initial state (`Fresh`).  A MAC occurs once
in a list, since it is the key of `devices_state`.  Whether a cached list is too
old (`staleTime`) is a free choice.  Views are stored in the browser: storing
may be refused, and another tab may write (`saved.apart`).

## Runs

| Run | Result | What it shows |
| --- | --- | --- |
| `poll_devices` | passes | with one fault or restart and with registrations between any two calls, rows stay coherent and justified (`RowsCoherent`, `StatusJustified`), a successful poll publishes all and removes what it must (`PollEffect`), `connected_since_at` marks the online streak, registered rows survive, and a silent network settles |
| `poll_stale_cache` | violated | an unregistered device's cache row outlives a failed second delete for ever |
| `aggregate_snapshots` | passes | all snapshots of the instance: the observation's time is that of the source with the highest priority, ONLINE exactly by the documented evidence |
| `automation_requests` | passes | one request, sync, template edits, router changes, devices coming and going: stored states are declared ones, and the sync loop aligns them once the outside is quiet; with one client at a time and nobody else, success without warning means the router follows the stored state |
| `automation_two_requests` | violated | two requests at a time: a PATCH of the enabled flag writes back the state it read before an overlapping PATCH of the state was stored |
| `address_list` | passes | `AddressSet` is implemented (success means done, and done once unless undone), what the router says of work already done never surfaces while denials do, calls return |
| `client_shared` | passes | no open connection is forgotten or overwritten, every `Run` returns |
| `client_two_callers` | violated | one broken connection can use up a caller's attempts when two callers reconnect |
| `poll_schedule` | passes | no trigger and no configuration change is lost, each leads to a poll without the timer's help, shutdown stops the goroutines |
| `device_editing` | passes | overlapping saves, Undo, toggles, polls, navigation, lost requests and others' changes: once the saves and toggles are over the drawer and the tables show what the server holds, no optimistic row outlives its save, a refusal has the one reason stated, every request ends, and what is polled converges to what the server holds |
| `capability_editing` | passes | edits on every tab, overlapping saves, navigation, refetches, faults, another browser: the draft stays consistent, a page stores only its own template and shows another draft only after its first load has failed, unsaved edits, actions and the default state are lost only for the stated reasons, data that nothing marks as old is current, requests end |
| `device_list` | passes | the open page exists and is kept by polls, answers and refreshes, the search is the text in the box, saved views survive a reload, the table converges to the server |

### Bounds, and why they are enough

* `poll_devices`: one device.  The rows of different devices are computed
  independently; what couples them is which calls a poll makes, and the proofs
  (below) hold for any set of devices.  Four clock values with
  `OfflineHard = 1` give ages below, at and above the threshold; the network may
  speak during the first two and is silent from then on.  The observations are
  online now, online by an older trace, idle with a trace, and idle without any.
* `aggregate_snapshots`: two devices, up to two leases and two Wi-Fi rows, one
  ARP and one bridge row: enough for every pair of sources to compete and for
  two rows of one source to follow each other.
* `automation_*`: one device and the system, two states and one that a bad
  mapping names, one or two facts, templates with each sync mode, with a
  one-sided mapping and with an action list that writes a fact twice.  Three
  outside changes of any kind (request, template, router, device) and one fault
  are enough for a change to fall between any two calls of a sync and of a
  request; the sequential scenarios have four requests and two faults.
* `address_list`: two callers, two clients, two entries, two attempts, two
  faults; an entry can be created once more under a new `.id` (`MaxId`), which is
  the case a remove by `.id` has to survive.
* `client_*`: one or two callers, a listener, `Close`, two faults; four
  connection names are never all in use.
* `poll_schedule`: three edits, so that the options can change, become unusable
  and come back.
* `device_editing`: scenarios of two overlapping changes without faults, or one
  with two faults, with somebody else's change, or with up to three navigation
  steps.  Two requests of one entry are enough for answers to cross; navigation
  is what makes queries unused and used again.
* `capability_editing`: up to four edits, two of them around a save; two stored
  templates and the identifiers a save or Duplicate can create; one fault, one
  foreign change.  The select has three options, so that the middle one, the
  default and the mapped one can be different; four options and two actions per
  state are the most.  Names typed include an empty one, a duplicate and one with
  a blank.
* `device_list`: three devices on pages of one row (`PageSize`), so that there are
  a first, a middle and a last page; two kept views (`MaxViews`), so that a third
  is cut; two to four steps of the user from groups of controls that interact,
  two faults, one change of the server.  `PageItemsAssumption` compares
  `buildPageItems` with its description for up to twelve pages.

### Fairness

Weak fairness is assumed of what Go's scheduler, command deadlines and tickers
drive: steps of a running poll or call, the next poll, the next sync, the
refresher.  Strong fairness is assumed only for taking a mutex (Go's mutexes
hand over to a starving waiter) and for the branches of a `select` (Go chooses
at random among the ready ones).  Nothing is assumed of users, of the router's
administrator, of the poll timer in `PollScheduler`, or of faults; faults and
outside changes are bounded, which stands for "eventually the outside is
quiet".  In the front end, fetches and requests are answered or fail, timers
fire and the interval elapses (weak fairness); users may stop at any time, which
is why `capability_editing` and `device_list` do not check for deadlock: an editor
at rest or a paused list has nothing left to do.

## What is proved

TLAPS proves the following for every value of the constants (any number of
devices, callers, clients, rows, faults and edits).

* `DevicePollProofs`.  The inductive invariant is `TypeOK`, `ReadsCurrent`,
  `RowsCoherent` and `StatusJustified` together: the row a poll writes is
  computed from the row it read, so its coherence needs that the row read was
  coherent and, for a row that is written back, that it is still the current
  one.  `PollEffect` needs in addition what the poll has already written at each
  program counter (`Progress`), and `SettledRowsSurvive` that a poll which read
  the registrations before the device's has not yet begun (`Anchored`).
  `SinceMarksStreak` and `OfflineUntilSeen` are action properties that follow
  from `ReadsCurrent`.  `ReadsCurrent` and `OfflineUntilSeen` are proved only; no
  run is spent on them.
  The same module proves `ScheduleTypeOK`, `RefreshKept` and `ChangeAnnounced` of
  `PollScheduler`, which are inductive together with the fact that a configuration
  that has been read is a complete one.
* `AggregatorProofs`.  `HandsOverObservations` follows from an invariant on the
  observations under construction: which are dated after which pass, and that
  no time lies in the future.  `LastSeenByPriority` and `OnlineByEvidence` relate the
  result to the whole snapshot.  Their invariant (`Provenance`) says of every
  observation, after every row, that it is what the rows of that MAC *read so far*
  give (`TracedTo`): the fields of each source, the time of the most trusted source
  that has a dated row, and the priority it was set with.  One lemma per pass adds
  one row to that set; when the passes are over the set is all of them
  (`AllRead`).
* `AutomationProofs`.  `TypeOK`, with which local variables of a call and of the
  sync loop are set at which program counter (`CallOK`, `SyncOK`).
  `StoredStateDeclared`: requests and the sync loop write states they chose from a
  template read earlier, so every template in the hands of a call, of the sync
  loop or of an unfinished update must have been validated and have the states
  that are stored (`AllDeclared`).  `RouterFollowsState`: in the middle of a
  transition what `executeStateActions` has left is the rest of the template's list, and what it
  has done is in effect unless it warned (`Halfway`); a row whose last transition
  succeeded follows its state unless a call is acting on it (`RowFollows`); and an
  enable that has read a row writes back its state (`CallFollows`).
* `AddressListProofs`.  `OkMeansDone`, `NeverRefused`, `MutexHeld` and the
  refinement of `AddressSet`.  The invariant ties the ghost `seen` to the table
  (`Tracked`): it is set whenever the goal holds.  The difficult case is a
  refused remove: the `.id` it looked up is gone, but the entry may be there
  again.  Since an existing entry changes only by vanishing (`Evolves`), either
  the entry still has the `.id` or it was absent since the look-up.  In the
  refinement a command that is executed is `Perform`, with or without a reply; a
  return without one is `Return`, whose condition is what the invariant provides.
  A second `Perform` needs that the first was undone by another client: while an
  operation is past its look-up it holds its client's mutex (`MutexHeld`), so that
  no other operation of that client can have changed its entry, and once it has
  taken effect its goal holds until another client undoes it (`Once`).
* `RouterClientProofs`.  `TypeOK` and `NoConnectionLost`.  A goroutine dials or
  installs exactly while it holds `connectMu` (`DialsLocked`), and then there is
  no current connection (`VacantWhileDialling`), so an installation overwrites
  nothing.  What is about to be installed is open and in nobody's hands for
  closing (`Handed`), and what is about to be closed is never the current
  connection (`OldNotCurrent`), so a late close cannot hit a new connection.
* `DeviceEditingProofs`.  Every step is shown to be of one of seven kinds (`Kinds`):
  fetches move on or the user looks elsewhere (`Quiet`), the server computes an
  answer (`Reads`), a save goes out (`SaveStep`), an update goes out
  (`UpdateStep`), the server writes (`Written`), a request is answered or lost
  (`Finished`), somebody else writes (`Elsewhere`).  What a kind does to an entry
  of the cache is one relation (`Draws`): the new entry shows, returns to and
  waits for nothing that the old one had not, and loses its mark only by an
  answer; a save that is answered leaves every query of devices `Marked`.  The
  invariant has five parts.  `Typed` is the type of the whole state.
  `PhantomsExplained`: a list shows what the server has held, or is marked, or a
  save is in flight (`Pending`), and an answer on its way is one the server has
  held in any case, so a roll-back needs no reasoning about snapshots: the mark it
  leaves, and not the rows it restores, is what makes it safe.  `SavesOK`:
  the same for the detail and the present row, for which it must be known in
  addition that the answer of a save somebody watches finds the detail on screen
  or no fetch of it in flight (`Busy`), since otherwise an answer computed before the
  save was stored could still clear the mark.  `TogglesOK`: a table shows what the
  server holds unless a stored update has still to be answered (`Dirty`).
  `RefusalsAhead`: as long as the server's device is new, no save is stored and no
  Undo is offered or under way, every PATCH has a registration before it, and
  before the first registration nothing shows, can go back to or waits for a
  registered device (`BeforeRegistration`).
* `DevicesPageProofs`.  One inductive invariant (`Inv`) for the page, the cache
  and the saved views; each step is shown to be a rendering, a step that leaves
  what is on screen, or the page being opened (`Kind`), so that the invariant is
  proved once per kind and not once per action.  For `SearchFollowsInput` it says
  that a timer only ever runs for the text in the box.  `PageInRange` is a counting
  argument: rows are ordered by the column and then by MAC, every number below
  the size of a finite ordered set is the rank of an element (`EveryRankTaken`), so a
  page number within the clamp has a row.  `ViewsPersist` needs that the menu and
  the storage agree unless something wrote apart, and that identifiers are
  distinct after a list is cut to `MaxViews`.  `PageKept` follows from what each kind
  of step may do to the page (`KindKeepsPage`): only the user's choice of a page
  reaches a rendering with another number, and then with nothing else changed.
* `CapabilityEditorProofs`.  The invariant `Templates` says that every template,
  wherever it is (on the server, in a cached answer, on its way, in a request, in
  the draft), is in order, and that an answer to a query is for that query's
  identifier.  `TypeOK` follows, because `Templates` includes the form of a
  template: a control keeps two to `MaxOptions` options (`ControlShape`, and a lemma for
  each edit of the options), the parameters of a type are of its fields
  (`FieldsThere`, `DefaultsThere`), and a creation that was stored has an identifier
  (`Landed`), as the server accepts no template without one.  `DraftConsistent` is
  then a lemma for each edit of `TemplateDraft`: the
  state map is rebuilt from the options, a switch gets its two options, and the
  effect after an edit maps the synchronisation to options there are (`Repaired`).
  `OwnTemplate` needs that a save moves the browser only to the template it
  created or stored, that a first load which succeeds replaces the draft, and that the server
  compares the identifiers of path and payload.  `EditsKept` goes through the actions and shows that a step that is
  neither an edit nor a load has no way to the draft.  `SettledIsTrue` needs the
  stronger `Fresh`: *during* a request an answer may be older than the server's
  table, but then the request that changed the table has still to invalidate it
  (`Dirty`); each step that stores makes every query `Dirty` that it will invalidate,
  and each that finishes leaves them marked.  `EditsAreLocal` is shown edit by edit:
  most leave options, actions and default state alone (`Apart`); an edit of the
  options keeps the actions of the options that stay, and the default state stays
  or is renamed (`Local`); a removal loses one action at most, because the actions
  of a state are told apart by their identifiers; a save of the dialog appends an
  action under a fresh identifier or replaces one.  What a filter of a list
  returns (`Taken`) follows by counting: places are ranked (`RanksIncrease`), and every
  number up to their count is a rank (`EveryRankTaken`, `TakenShape`).

Four theorems of `AutomationProofs` and `CapabilityEditorProofs` have
hypotheses about what clients do, which nothing in the code enforces.
`StoredStatesAreDeclared` is for templates that keep the states of a capability
(`StatesKept`; an edit that removes a state leaves rows in it).  `RouterFollows`
is for calls that do not overlap (`Serial`), because the run
`automation_two_requests` refutes it for calls that do, and for capabilities
that do not take their state from the router (`InternalTruth`): for those the
sync loop writes states without a transition, so the last outcome says nothing
about them.  `DraftsAreConsistent` is for other clients of the API that store
templates with an action list for every option (`ForeignConsistent`), as this
editor does; the server itself accepts others.  `EditsLoseNothingElse` also asks that
no two actions of a state of such a template share an identifier
(`ForeignDistinct`): this editor gives each a new one, and with a double one
"Remove" would take both.  TLC's instances satisfy these
hypotheses with the sync loop, requests and other browsers at work.

The assumptions on constants are named in the modules that declare them
(`NoneAssumption`, `AddressListAssumption` and so on) and say that `None` is not
a value (for `DeviceEditing` also: no answer to a query, and that there is a name),
that bounds are numbers, for `DevicePoll` that observations are those
the aggregator hands over (which `HandsOver` proves), for `DevicesPage` that a
list has a MAC once, and for `CapabilityEditor` that identifiers of templates
are told from the names of pages and queries (`IdAssumption`; in the code query
keys have a prefix, but a template called "new" really could not be opened, its
address being that of the page for a new one), that the fields of an action type
form a list of records, as the server's registry sends them (`SchemaAssumption`), and
that there may be three options at least, because `normalizeControl` makes three
of a select that lacks options (`BoundAssumption`).  TLC evaluates them in the runs.

Model-checked only are the liveness properties (`QuietNetworkSettles`, `SyncAligns`, `CallsReturn`,
`RunsReturn`, `RefreshServed`, `OptionsTakeEffect`, `ShutdownStops`, `RequestsEnd`,
`ShownConverges`), since fairness and `ENABLED` are outside the prover's reach.

Every safety property of a run that passes is proved.

The runs are spent on what takes several steps to go wrong, so they do not list
the type invariants.  `TypeOK` is proved for `DevicePoll`, `RouterClient`,
`PollScheduler` (`ScheduleTypeOK`), `AddressList`, `Automation`, `DevicesPage`,
`DeviceEditing` and `CapabilityEditor`, and as part of the inductive invariant of `Aggregator`.

## Where the code and its own words differ

* `poll_stale_cache` (`services/device/service.go:196`): after a fault between
  the two deletes, no later successful poll removes the device's row in
  `devices_new_cache`, because only MACs of `devices_state` and of the snapshot are
  considered.
* `automation_two_requests` (`services/automation/service.go:315`): a PATCH of
  the enabled flag that "toggles capability without executing actions" (line 275)
  writes back the state it read (line 299).  When a PATCH of the state is stored in
  between, the router does what the new state asks for and the row says the old
  one; both requests report success.  With three states or more, two PATCHes of
  the state can also cross each other; with two, the second finds its state
  stored and does nothing (`engine.go:115`).
* `client_two_callers` (`routeros/client.go:203`): `disconnect` takes away
  whatever connection is current, not the one the command failed on.

Not checked by a run of their own: `CHANGELOG.md:58` promises an "explicit page
reset on filter/search changes", but when the page that was open is beyond the
last one of the new filters, the last page is shown, since the effect at
`pages/DevicesPage.tsx:255` overrides the one at line 240 (`Effects`; the second part of
`PageKept` is what remains of the promise).  And in `routeros/events.go:89` the `break` leaves the `select`, not
the loop, so that a listener does not end after `Close`; `Listen` has no caller in
the application.

## Assumptions and simplifications

* The wall clock does not run backwards; a MAC's vendor does not change; host
  names do not look like generated names (`Device-...`).
* A database call is atomic; SQLite's own failures are failures of a call.
* The order in which the sync loop visits templates and devices is left open.
* `StoredStateDeclared` is about templates that agree on the states of a
  capability: an edit that removes a state leaves rows in it, and nothing says
  what should become of them.
* A firewall rule used by several devices' capabilities is one fact per target
  in `Automation`; sharing is not modelled.
* An address-list fact belongs to the target; a device whose address changes
  while it is in a list is not modelled.
* `RouterClient` lets a reply be an answer or a failure; the content of replies
  matters only in `AddressList`.

* `DevicesPage`: a search text that spans two fields of a device is left out, and
  so is a blank vendor, which the OUI look-up never returns.
* `CapabilityEditor` starts with the list and the Global page visited before.
  The parameters typed into the action dialog are kept while the page loads, the
  pattern of identifiers and a switch without options are left out.
* `QueryCache`: a cancelled fetch goes back to what the entry was when the fetch
  started, also when `setQueryData` has been called since.

## Not modelled, and the plan

Left out for good: logging, wiring, the subnet matcher, the action registry,
decoding of requests and router replies, and development aids.  Of the front
end: the navigation shell and the generated UI primitives, formatting of times
and labels, column visibility, density and the mobile layout, the numbers on the
KPI cards, the read-only page of action types, and code that nothing imports
(`useDeviceDrawer`, `useRegisterDialog`, `useFilters`, `useSummary`,
`components/device`, `components/filters`, `components/search`,
`components/dashboard`, `BulkActionsBar`).

Not modelled so far: the read side of the server (`MergeDeviceViews`,
`ListDevices`), `Manager.getClient` (two callers with a new configuration each
create a client, and the loser must close its own), firewall rules by comment,
which of several leases of one MAC counts (no comment or test says), and the Home
Assistant integration, whose switches and selects are clients of `Automation`
like the front end's controls.

What is left to the model checker is liveness: the proofs say that nothing wrong
happens for any number of devices, requests and templates, the runs that what
must happen does on their instances.
