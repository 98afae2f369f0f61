---------------------------- MODULE DeviceEditing ----------------------------
(***************************************************************************)
(* The part of the frontend that changes something on the server and shows *)
(* the result: the device drawer (registration form, Undo, capability      *)
(* controls), the Assignments page and the Global page, over the shared    *)
(* query cache.  One device, one device capability and one global          *)
(* capability; every call to the server is a request that is sent,         *)
(* processed and answered in separate steps, so that saves, Undo, polls,   *)
(* window focus and navigation overlap as the browser lets them.           *)
(*                                                                         *)
(* The keys of the device lists are "live" (all devices, polled), "paused" *)
(* (all devices, not polled) and "new" (the unregistered ones, polled).    *)
(***************************************************************************)
EXTENDS Naturals, Sequences, QueryCache

CONSTANTS Name, Icon,      \* names (with comments) and icons a device may have
          Form,            \* what a user may enter in the form
          MaxOps,          \* requests of a behaviour that change something
          Scenario         \* where a behaviour starts, and its bounds (see Budget)

\* Bounds: requests that change something, lost requests and answers,
\* navigation steps and clicks on Refresh, changes made by somebody else.
\* The navigation steps may be restricted to some kinds.
Step == {"list", "open", "close", "tab", "page", "refresh"}
Budget == [ops : Nat, faults : Nat, moves : Nat, outside : Nat, steps : SUBSET Step]

ASSUME NameAssumption == Name # {} /\ None \notin Name \cup Icon
ASSUME FormAssumption == Form \subseteq [name : Name, type : Icon \cup {"unknown"}]
ASSUME ScenarioAssumption ==
    /\ MaxOps \in Nat
    /\ \A s \in Scenario : s.budget \in Budget /\ s.budget.ops <= MaxOps
                              /\ s.page \in {"devices", "assignments", "global"}

VARIABLES
    server,    \* the device row, the device's capability row and the global one
    cache,     \* query -> entry
    request,   \* the requests that change something, in the order they were made
    undo,      \* the previous values behind the Undo buttons of the toasts
    view,      \* the page, list key, drawer tab and row that are on screen
    budget     \* what is left of the bounds

vars == <<server, cache, request, undo, view, budget>>
-----------------------------------------------------------------------------
Lists == {"live", "paused", "new"}
\* The keys that start with "devices".
DeviceKeys == Lists \cup {"detail", "caps"}
Query == DeviceKeys \cup {"assign", "global"}
Polled_NoCaps == {"live", "new", "global"}
\* Fetched every five seconds while a component uses them.
Polled == {"live", "new", "caps", "global"}

Device == [name : Name, icon : Icon \cup {None}, status : {"new", "registered"}]
Control == [state : {"on", "off"}, enabled : BOOLEAN]
\* A list is the set of its devices.
Value(q) ==
    CASE q \in Lists -> {{}} \cup {{d} : d \in Device}
      [] q = "detail" -> Device
      [] OTHER -> Control
ASSUME NoneIsNoValue == \A q \in Query : None \notin Value(q)

\* The server's list for the status filter of a list key.
fetchDevices(q) == {d \in {server.device} : q = "new" => d.status = "new"}
\* What the server answers to a query.
Serve(q) ==
    CASE q \in Lists -> fetchDevices(q)
      [] q = "detail" -> server.device
      [] q = "global" -> server.global
      [] OTHER -> server.cap

\* The queries the mounted components use.
Active ==
    CASE view.page = "devices" ->
           {view.list} \cup (IF view.tab # None THEN {"detail"} ELSE {})
                       \cup (IF view.tab = "controls" THEN {"caps"} ELSE {})
      [] view.page = "assignments" -> {"live", "assign", "caps"}
      [] OTHER -> {"global"}

\* The sheet, or the drawer of a phone, is open.
DrawerOpen == view.page = "devices" /\ view.tab # None
\* The device the drawer shows.
selectedDevice ==
    IF Loaded(cache["detail"]) THEN cache["detail"].data
    ELSE LET l == cache[view.list] IN
         IF Loaded(l) /\ l.data # {} THEN CHOOSE d \in l.data : TRUE ELSE None
-----------------------------------------------------------------------------
(* Saving: the values sent and the values shown meanwhile.                 *)

\* The form's "unknown" is sent as no icon at all.
toStoredIcon(type) == IF type = "unknown" THEN None ELSE type

\* An icon that is not sent stays as it is.
Merged(device, input, status) ==
    [name |-> input.name, icon |-> IF input.icon = None THEN device.icon ELSE input.icon,
     status |-> status]

buildOptimisticDevice(device, input, kind) ==
    Merged(device, input, IF kind = "register" THEN "registered" ELSE device.status)

applyDeviceUpdate(c, optimistic) ==
    [q \in Query |->
        CASE q = "detail" -> SetData(c[q], optimistic)
          [] q \in Lists -> SetData(c[q], IF c[q].data \in {None, {}} THEN c[q].data ELSE {optimistic})
          [] q = "caps" -> SetData(c[q], c[q].data)
          [] OTHER -> c[q]]

rollbackDeviceUpdate(c, snapshot) ==
    [q \in Query |-> IF q \in DeviceKeys THEN SetData(c[q], snapshot[q]) ELSE c[q]]
-----------------------------------------------------------------------------
(* Answers: onError, onSuccess and onSettled run to their next await, which *)
(* lasts until the fetches they have started are over.                      *)

Refreshed_DetailOnly(r) == IF r.kind \in {"register", "patch"} THEN {"detail"} ELSE {"global", "assign", "caps"}
Refreshed_NotTheTable(r) ==
    CASE r.kind \in {"register", "patch"} -> DeviceKeys
      [] r.kind = "global" -> {"global"}
      [] OTHER -> {"caps", "detail"}
\* The queries a request makes out of date, as its handlers know them.
Refreshed(r) ==
    CASE r.kind \in {"register", "patch"} -> DeviceKeys
      [] r.kind \in {"row", "byDevice"} -> {"caps", "detail"}
      [] r.kind = "assign" -> {"assign", "caps"}
      [] OTHER -> {"global"}

Invalidated(c, keys) == [q \in Query |-> IF q \in keys THEN Invalidate(c[q], q \in Active) ELSE c[q]]
Unfinished(c, keys) == {q \in keys \cap Active : Fetching(c[q])}

Saves == {"register", "patch"}

\* The requests that wait for no fetch any more go on: a save with its second
\* invalidation (of the detail), the others return, and a save that succeeded
\* offers Undo.
Continue(s) ==
    LET second == {i \in DOMAIN s.request : LET r == s.request[i] IN
                      r.phase = "settle" /\ r.waits = {} /\ r.kind \in Saves}
        c == IF second = {} THEN s.cache ELSE Invalidated(s.cache, {"detail"})
        Next2(i) == IF i \in second
                    THEN [s.request[i] EXCEPT !.phase = "detail", !.waits = Unfinished(c, {"detail"})]
                    ELSE s.request[i]
        over == {i \in DOMAIN s.request : Next2(i).phase \in {"settle", "detail"} /\ Next2(i).waits = {}}
    IN  [cache |-> c,
         request |-> [i \in DOMAIN s.request |->
                         IF i \in over THEN [Next2(i) EXCEPT !.phase = "done"] ELSE Next2(i)],
         undo |-> s.undo \cup {s.request[i].device : i \in {j \in over :
                     s.request[j].kind \in Saves /\ s.request[j].ok /\ ~s.request[j].undoes}}]

NoLonger_Forgotten(keys) == request
\* The requests, after the fetches of the queries in keys are over, whatever
\* came of them.
NoLonger(keys) == [i \in DOMAIN request |-> [request[i] EXCEPT !.waits = @ \ keys]]

Client == [cache |-> cache, request |-> request, undo |-> undo]
\* \E s \in {e} : ... names the value e, as in the actions below.
Becomes(e) == \E s \in {e} : cache' = s.cache /\ request' = s.request /\ undo' = s.undo
\* onSettled of a save, onSuccess of a capability update.
Settle(s, i) ==
    LET keys == Refreshed(s.request[i]) IN
    \E c \in {Invalidated(s.cache, keys)} :
    \E t \in {[s EXCEPT !.cache = c, !.request[i].phase = "settle", !.request[i].waits = Unfinished(c, keys)]} :
        Becomes(Continue(t))
-----------------------------------------------------------------------------
(* What the user does.                                                      *)

Spend(what) == budget[what] > 0 /\ budget' = [budget EXCEPT ![what] = @ - 1]

\* Something that shows what requests change is on screen.
Watching(v) == v.page # "devices" \/ v.tab # None
Request(kind, device, input, undoes) ==
    [kind |-> kind, device |-> device, input |-> input, undoes |-> undoes, snapshot |-> None,
     phase |-> "sent", waits |-> {}, stored |-> FALSE, ok |-> FALSE, watched |-> Watching(view)]

SaveKind_Patch(device) == "patch"
SaveKind(device) == IF device.status = "new" THEN "register" ELSE "patch"

\* saveDevice with onMutate: fetches of device queries are cancelled, what
\* they show is remembered and replaced, and the request goes out.
saveDevice(device, input, undoes, toasts) ==
    LET kind == SaveKind(device)
        quiet == [q \in Query |-> IF q \in DeviceKeys THEN Cancel(cache[q]) ELSE cache[q]]
        cancelled == {q \in DeviceKeys : Fetching(cache[q])}
        new == Request(kind, device, input, undoes)
    IN  /\ Spend("ops")
        /\ \E s \in {[cache |-> quiet, request |-> NoLonger(cancelled), undo |-> undo \cap toasts]} :
           \E t \in {Continue(s)} :
             Becomes([t EXCEPT !.request = Append(@, [new EXCEPT !.snapshot = [q \in DeviceKeys |-> t.cache[q].data]]),
                               !.cache = applyDeviceUpdate(@, buildOptimisticDevice(device, input, kind))])

handleSubmit(values) == [name |-> values.name, icon |-> toStoredIcon(values.type)]
handleSaveDevice(payload) == selectedDevice # None /\ saveDevice(selectedDevice, payload, FALSE, Device)
\* The form is submitted; Enter does so even while a save is pending.
Submit ==
    /\ DrawerOpen /\ \E values \in Form : handleSaveDevice(handleSubmit(values))
    /\ UNCHANGED <<server, view>>

\* The Undo button of a toast, on whatever page.
Undo ==
    /\ \E previous \in undo :
         saveDevice(IF Loaded(cache["detail"]) THEN cache["detail"].data ELSE previous,
                    [name |-> previous.name, icon |-> previous.icon], TRUE, Device \ {previous})
    /\ UNCHANGED <<server, view>>

Update(kind, field, value) ==
    /\ Spend("ops")
    /\ request' = Append(request, Request(kind, None, [field |-> field, value |-> value], FALSE))
    /\ UNCHANGED <<server, cache, undo>>
Flip(control, field) ==
    IF field = "enabled" THEN ~control.enabled ELSE IF control.state = "on" THEN "off" ELSE "on"

\* A row's mutation is pending; a row mounted anew knows of none.
RowPending == view.row # 0 /\ request[view.row].phase # "done"
\* The rows are drawn once the query has data.
RowsShown(q) == Loaded(cache[q])
RowUpdate(kind, q, field) ==
    /\ RowsShown(q) /\ ~RowPending /\ (field = "state" => cache[q].data.enabled)
    /\ Update(kind, field, Flip(cache[q].data, field))
    /\ view' = [view EXCEPT !.row = Len(request')]

\* The switch of the drawer's Controls tab.
CapabilityControlRow == DrawerOpen /\ view.tab = "controls" /\ RowUpdate("row", "caps", "state")
\* The two switches of the Global page.
GlobalCapabilityRow ==
    view.page = "global" /\ \E field \in {"state", "enabled"} : RowUpdate("global", "global", field)
\* The switches of the Assignments page work while a request is pending.
AssignmentsByCapability ==
    /\ view.page = "assignments" /\ RowsShown("assign")
    /\ Update("assign", "enabled", Flip(cache["assign"].data, "enabled")) /\ UNCHANGED view
AssignmentsByDevice ==
    /\ view.page = "assignments" /\ RowsShown("caps")
    /\ Update("byDevice", "enabled", Flip(cache["caps"].data, "enabled")) /\ UNCHANGED view

\* A component mounts: it fetches what was never loaded or is out of date.
Mounted == [q \in Query |->
    IF q \in Active' \ Active /\ (~Loaded(cache[q]) \/ cache[q].invalid) THEN Start(cache[q]) ELSE cache[q]]
Move(step, v) ==
    /\ step \in budget.steps /\ Spend("moves") /\ view' = v /\ cache' = Mounted
    /\ request' = [i \in DOMAIN request |->
                      IF request[i].phase = "done" THEN request[i]
                      ELSE [request[i] EXCEPT !.watched = @ /\ v.page = view.page /\ Watching(v)]]
    /\ UNCHANGED <<server, undo>>
SwitchList == view.page = "devices" /\ \E l \in Lists \ {view.list} : Move("list", [view EXCEPT !.list = l])
openDevice ==
    /\ view.page = "devices" /\ ~DrawerOpen /\ cache[view.list].data \notin {None, {}}
    /\ Move("open", [view EXCEPT !.tab = "form"])
closeDevice == DrawerOpen /\ Move("close", [view EXCEPT !.tab = None, !.row = 0])
SwitchTab ==
    DrawerOpen /\ \E t \in {"form", "controls"} \ {view.tab} : Move("tab", [view EXCEPT !.tab = t, !.row = 0])
Navigate ==
    \E p \in {"devices", "assignments", "global"} \ {view.page} :
        Move("page", [page |-> p, list |-> "live", tab |-> None, row |-> 0])
\* The Refresh button.
handleRefresh ==
    /\ view.page = "devices" /\ "refresh" \in budget.steps /\ Spend("moves")
    /\ cache' = [cache EXCEPT ![view.list] = Restart(@)]
    /\ UNCHANGED <<server, request, undo, view>>
-----------------------------------------------------------------------------
(* What the server and the network do.                                      *)

\* The interval timer of a polled query, or window focus.
Refetch(q) ==
    /\ q \in Active /\ ~Fetching(cache[q]) /\ cache' = [cache EXCEPT ![q] = Start(@)]
    /\ UNCHANGED <<server, request, undo, view, budget>>
ServerReads(q) ==
    /\ cache[q].fetch = Sent /\ cache' = [cache EXCEPT ![q].fetch = Read(Serve(q))]
    /\ UNCHANGED <<server, request, undo, view, budget>>
FetchOver(q, entry) ==
    \E s \in {[Client EXCEPT !.cache[q] = entry, !.request = NoLonger({q})]} : Becomes(Continue(s))
FetchSucceeds(q) ==
    /\ cache[q].fetch \notin {Idle, Sent}
    /\ FetchOver(q, Answered(cache[q], cache[q].fetch[2]))
    /\ UNCHANGED <<server, view, budget>>
FetchFails(q) ==
    /\ Fetching(cache[q]) /\ Spend("faults")
    /\ FetchOver(q, Failed(cache[q]))
    /\ UNCHANGED <<server, view>>

\* The row changes; past is every row there has been.
Holds(device) == [server EXCEPT !.device = device, !.past = @ \cup {device}]
\* A PATCH of a device that is not registered is refused.
ServerWrites(i) ==
    LET r == request[i] IN
    /\ r.phase = "sent"
    /\ IF r.kind = "patch" /\ server.device.status = "new"
       THEN request' = [request EXCEPT ![i].phase = "refused"] /\ UNCHANGED server
       ELSE /\ request' = [request EXCEPT ![i].phase = "stored", ![i].stored = TRUE]
            /\ server' = CASE r.kind \in Saves ->
                                Holds(Merged(server.device, r.input, "registered"))
                           [] r.kind = "global" -> [server EXCEPT !.global[r.input.field] = r.input.value]
                           [] OTHER -> [server EXCEPT !.cap[r.input.field] = r.input.value]
    /\ UNCHANGED <<cache, undo, view, budget>>

Fail_NotSettled(i) ==
    Becomes(IF request[i].kind \in Saves
            THEN [Client EXCEPT !.cache = rollbackDeviceUpdate(@, request[i].snapshot), !.request[i].phase = "done"]
            ELSE [Client EXCEPT !.request[i].phase = "done"])
\* onError: a save puts back what was shown before it.
Fail(i) ==
    IF request[i].kind \in Saves
    THEN \E s \in {[Client EXCEPT !.cache = rollbackDeviceUpdate(@, request[i].snapshot)]} : Settle(s, i)
    ELSE Becomes([Client EXCEPT !.request[i].phase = "done"])

RequestSucceeds(i) ==
    /\ request[i].phase = "stored"
    /\ \E s \in {[Client EXCEPT !.request[i].ok = TRUE]} : Settle(s, i)
    /\ UNCHANGED <<server, view, budget>>
RequestRefused(i) ==
    /\ request[i].phase = "refused" /\ Fail(i)
    /\ UNCHANGED <<server, view, budget>>
\* The request or its answer is lost.
RequestLost(i) ==
    /\ request[i].phase \in {"sent", "stored", "refused"} /\ Spend("faults") /\ Fail(i)
    /\ UNCHANGED <<server, view>>

\* Somebody else saves the device, or the sync engine changes a state.
Outside ==
    /\ Spend("outside")
    /\ \E n \in Name, s \in {"on", "off"} :
         server' = [Holds(Merged(server.device, [name |-> n, icon |-> None], "registered"))
                       EXCEPT !.cap.state = s, !.global.state = s, !.alone = FALSE]
    /\ UNCHANGED <<cache, request, undo, view>>
-----------------------------------------------------------------------------
\* The drawer, or a page, has just been opened, after the list was loaded.
Off == [state |-> "off", enabled |-> TRUE]
Init ==
    /\ \E status \in {"new", "registered"} :
         LET row == [name |-> CHOOSE n \in Name : TRUE, icon |-> None, status |-> status] IN
         server = [device |-> row, past |-> {row}, alone |-> TRUE, cap |-> Off, global |-> Off]
    /\ \E s \in Scenario :
         /\ budget = s.budget
         /\ view = [page |-> s.page, list |-> "live", tab |-> IF s.page = "devices" THEN "form" ELSE None, row |-> 0]
    /\ cache = [q \in Query |->
                   IF q = "live" THEN [Empty EXCEPT !.data = {server.device}]
                   ELSE IF q \in Active THEN Start(Empty) ELSE Empty]
    /\ request = <<>> /\ undo = {}

Users ==
    \/ Submit \/ Undo \/ CapabilityControlRow \/ GlobalCapabilityRow
    \/ AssignmentsByCapability \/ AssignmentsByDevice
    \/ SwitchList \/ openDevice \/ closeDevice \/ SwitchTab \/ Navigate \/ handleRefresh
Network ==
    \/ \E q \in Query : Refetch(q) \/ ServerReads(q) \/ FetchSucceeds(q) \/ FetchFails(q)
    \/ \E i \in DOMAIN request : ServerWrites(i) \/ RequestSucceeds(i) \/ RequestRefused(i) \/ RequestLost(i)
Next == Users \/ Network \/ Outside

Spec == Init /\ [][Next]_vars

\* Fetches and requests are processed and answered, and intervals elapse.
FetchProceeds(q) == ServerReads(q) \/ FetchSucceeds(q) \/ (q \in Polled /\ Refetch(q))
RequestProceeds(i) == i \in DOMAIN request /\ (ServerWrites(i) \/ RequestSucceeds(i) \/ RequestRefused(i))
Fairness ==
    /\ \A q \in Query : WF_vars(FetchProceeds(q))
    /\ \A i \in 1..MaxOps : WF_vars(RequestProceeds(i))
FairSpec == Spec /\ Fairness
-----------------------------------------------------------------------------
TypeOK ==
    /\ server \in [device : Device, past : SUBSET Device, alone : BOOLEAN, cap : Control, global : Control]
    /\ \A q \in Query : cache[q] \in Entry(Value(q))
    /\ undo \subseteq Device
    /\ view \in [page : {"devices", "assignments", "global"}, list : Lists,
                 tab : {None, "form", "controls"}, row : 0..MaxOps]
    /\ \A i \in DOMAIN request : request[i].waits \subseteq Query

\* Nothing but this client has written.
Alone == server.alone
Over(kinds) == \A i \in DOMAIN request : request[i].kind \in kinds => request[i].phase = "done"
Watched(kinds) == \A i \in DOMAIN request : request[i].kind \in kinds => request[i].watched

\* Once the saves and Undos are over, a detail that nothing marks as out of
\* date is the row the server holds, whichever of them failed, overlapped or
\* overtook another, and whatever was read meanwhile (useRegisterDevice.ts
\* 117-147); the drawer stayed open, see the README for what happens if not.
SavesShown ==
    Alone /\ Over(Saves) /\ Watched(Saves) /\ Settled(cache["detail"])
        => cache["detail"].data = server.device

\* An optimistic row does not outlive its save: once the saves are over, a list
\* that nothing marks as out of date shows rows the server has held, and the
\* list of new devices only new ones.
NoPhantomDevice ==
    Over(Saves) => \A l \in Lists : Settled(cache[l]) =>
        /\ cache[l].data \subseteq server.past
        /\ l = "new" => \A d \in cache[l].data : d.status = "new"

\* After answered capability updates the table they were made in shows what
\* the server holds (useAssignments.ts 27-36, useGlobalCapabilities.ts 28-35).
Shows(q, kinds) ==
    LET answered == \A i \in DOMAIN request :
                       request[i].kind \in kinds /\ request[i].stored => request[i].ok
    IN  Alone /\ Over(kinds) /\ Watched(kinds) /\ answered /\ Settled(cache[q])
            => cache[q].data = Serve(q)
TogglesShown ==
    /\ Shows("global", {"global"})
    /\ (\A i \in DOMAIN request : request[i].kind \notin {"row", "byDevice"}) => Shows("assign", {"assign"})

\* A PATCH is refused only because a registration shown as done had not
\* reached the server, and an Undo is never refused.
RefusalsExplained ==
    [][\A i \in DOMAIN request :
          request'[i].phase = "refused" /\ request[i].phase = "sent" =>
              /\ ~request[i].undoes
              /\ \E j \in 1..(i - 1) : request[j].kind = "register" /\ ~request[j].stored]_vars

\* Every request comes to its end, with the fetches it waits for (isSaving).
RequestsEnd ==
    \A i \in 1..MaxOps : i \in DOMAIN request ~> i \in DOMAIN request /\ request[i].phase = "done"

\* What a list that is not paused, the capability controls and the Global page
\* show is in the end what the server holds, lost answers and changes made
\* elsewhere included.
ShownConverges == <>[](\A q \in Active \ {"paused", "detail", "assign"} : cache[q].data = Serve(q))
=============================================================================
