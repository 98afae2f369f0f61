-------------------------- MODULE CapabilityEditor --------------------------
(***************************************************************************)
(* The capability pages of the frontend: the list with its filter,         *)
(* Duplicate and Delete, and the editor with its tabs, its action dialog   *)
(* and Save, over the query cache and the server's table of templates.     *)
(* The form stays usable while a save is on its way, a template that is    *)
(* fetched again replaces the draft, and a save that succeeds moves the    *)
(* browser to its template, wherever the user is by then.                  *)
(***************************************************************************)
EXTENDS TemplateDraft
INSTANCE QueryCache

CONSTANTS
    Copies,       \* identifiers that Duplicate makes up
    Searched,     \* the text in the search box, when there is one
    Foreign,      \* templates another browser may store
    MaxOps,       \* requests of a behaviour
    Scenario      \* where a behaviour starts, and its bounds

Tab == {"basic", "control", "states", "sync", "ha"}
Step == {"go", "filter", "focus"}
\* Bounds: edits (and the tabs they are made on), requests, moves of the user
\* (and which), lost requests and fetches, changes of another browser.
Budget == [edits : Nat, tabs : SUBSET Tab, ops : Nat, moves : Nat, steps : SUBSET Step,
           faults : Nat, outside : Nat]

\* Identifiers are told from the names of the pages, "new" among them, and queries.
ASSUME IdAssumption == Id \cap {"new", "list", "found", "global", "types", "capabilities", "crashed"} = {}
ASSUME CopiesAssumption == Copies \subseteq Id
ASSUME ForeignAssumption == \A t \in Foreign : IsTemplate(t) /\ t.id \in Id
ASSUME ScenarioAssumption ==
    \A s \in Scenario :
        /\ s.budget \in Budget /\ s.budget.ops <= MaxOps
        /\ s.stored \subseteq Foreign /\ \A t, u \in s.stored : t.id = u.id => t = u

VARIABLES
    server,     \* identifier -> its template, or None
    cache,      \* query -> entry
    page,       \* where the browser is, the draft and the dialog of the editor
    request,    \* requests that are not over, in the order they were made
    missed,     \* queries whose data may be older than a change of the server's table
    budget

vars == <<server, cache, page, request, missed, budget>>

Editor == Id \cup {"new"}
Lists == {"list", "found"}
Query == Lists \cup {"global", "types"} \cup Id
-----------------------------------------------------------------------------
(* The server: validate.go and service.go.                                 *)

normalizeTemplate(t) == [t EXCEPT !.default_state = trim(@)]

\* Validate of an action or a source looks at the fields its other parameters ask for.
ParamsAccepted(type, params, scope) ==
    \A f \in resolveVisibleFields(Schema[type], params) :
        /\ f.key \in DOMAIN params /\ params[f.key] # Blank
        /\ f.kind = "enum" => params[f.key] \in ToSet(f.options)
        /\ scope = "global" => params[f.key] \notin DeviceRefs

validateControl(t) ==
    LET values == [i \in DOMAIN t.options |-> trim(t.options[i])] IN
    IF t.type = "switch" THEN Len(t.options) = 2 /\ ToSet(t.options) = {"on", "off"}
    ELSE /\ Len(t.options) >= 2 /\ Blank \notin ToSet(values)
         /\ Cardinality(ToSet(values)) = Len(values) /\ ToSet(values) \subseteq DOMAIN t.states

validateTemplate(t) ==
    /\ t.id # Blank /\ t.label # Blank
    /\ validateControl(t)
    /\ t.default_state \in DOMAIN t.states
    /\ \A v \in DOMAIN t.states : trim(v) # Blank
    /\ \A a \in ActionsOf(t) : ParamsAccepted(a.type, a.params, t.scope)
    /\ t.sync # None /\ t.sync.enabled =>
         /\ t.sync.type # Blank /\ ParamsAccepted(t.sync.type, t.sync.params, t.scope)
         /\ {t.sync.when_true, t.sync.when_false} \ {Blank} \subseteq DOMAIN t.states
    /\ t.ha.enabled => t.ha.suffix # Blank

Table == {server[i] : i \in Id} \ {None}
\* What the server answers to a query; None stands for "not found".
Serve(q) ==
    CASE q = "list" -> Table
      [] q = "found" -> {t \in Table : t.label = Searched}
      [] q = "global" -> {t \in Table : t.scope = "global"}
      [] q = "types" -> "types"
      [] OTHER -> server[q]

\* What a request leaves under its identifier: {} if it is refused.
CreateCapability(r) ==
    LET t == normalizeTemplate(r.template) IN
    IF validateTemplate(t) /\ server[t.id] = None THEN {t} ELSE {}
\* Mutant: the identifiers of path and payload are not compared.
UpdateCapability_AnyId(r) ==
    LET kept == IF r.template.sync = None /\ server[r.id] # None
                THEN [r.template EXCEPT !.sync = server[r.id].sync] ELSE r.template
        t == normalizeTemplate(kept)
    IN  IF validateTemplate(t) /\ server[r.id] # None THEN {t} ELSE {}
UpdateCapability(r) ==
    LET kept == IF r.template.sync = None /\ server[r.id] # None
                THEN [r.template EXCEPT !.sync = server[r.id].sync] ELSE r.template
        t == normalizeTemplate(kept)
    IN  IF r.template.id = r.id /\ validateTemplate(t) /\ server[r.id] # None THEN {t} ELSE {}
DeleteCapability(r) == IF server[r.id] = None THEN {} ELSE {None}
-----------------------------------------------------------------------------
(* What is on screen.                                                      *)

Closed == [state |-> None, type |-> Blank, params |-> NoParams]

\* The queries the components of a page use.
ActiveOn(p) ==
    CASE p.at = "capabilities" -> {p.filter}
      [] p.at = "global" -> {"global"}
      [] p.at \in Editor -> {"types"} \cup ({p.at} \cap Id)
      [] OTHER -> {}
Active == ActiveOn(page)

isNew == page.at = "new"
\* The form is drawn, also if its template could not be loaded.
FormShown ==
    page.at \in Editor /\ (~isNew => LET e == cache[page.at] IN Loaded(e) \/ e.error)
typesLoaded == Loaded(cache["types"])
\* A mutation of a component that has been left is not pending for the next one.
Pending(kinds) == \E i \in DOMAIN request : request[i].kind \in kinds /\ request[i].by = page.instance
isSaving == Pending({"create", "update"})

Shown_EveryAnswer(p, was, is) ==
    IF p.at \in Id /\ is.data # None THEN [p EXCEPT !.draft = Repaired(is.data)] ELSE p
\* The effect on the query's data, which runs when there is another template
\* than before; an equal one that is fetched again leaves the draft alone.
Shown(p, was, is) ==
    IF p.at \in Id /\ is.data \notin {None, was.data} THEN [p EXCEPT !.draft = Repaired(is.data)] ELSE p

\* Between two editor pages the component, its draft and its dialog stay.
Moved(p, at) ==
    IF p.at \in Editor /\ at \in Editor THEN [p EXCEPT !.at = at]
    ELSE [at |-> at, filter |-> "list", draft |-> createEmptyCapabilityTemplate,
          dialog |-> Closed, instance |-> p.instance + 1]

\* Components mount: templates are always fetched, the rest if it was never
\* loaded, is marked, or (refetch) has become too old.
Mounted(p, refetch) ==
    LET fetched == {q \in ActiveOn(p) \ Active :
                       refetch \/ q \in Id \/ ~Loaded(cache[q]) \/ cache[q].invalid}
    IN  [q \in Query |-> IF q \in fetched THEN Start(cache[q]) ELSE cache[q]]
Goto_NoEffect(at, refetch) ==
    IF at = page.at THEN UNCHANGED <<cache, page>>
    ELSE page' = Moved(page, at) /\ cache' = Mounted(Moved(page, at), refetch)
Goto(at, refetch) ==
    IF at = page.at THEN UNCHANGED <<cache, page>>
    ELSE LET p == Moved(page, at) IN
         /\ page' = IF at \in Id THEN Shown(p, Empty, cache[at]) ELSE p
         /\ cache' = Mounted(p, refetch)
-----------------------------------------------------------------------------
(* The editor's inputs.  The dialog is modal.                              *)

Spend(what) == budget[what] > 0 /\ budget' = [budget EXCEPT ![what] = @ - 1]
Move(step) == step \in budget.steps /\ Spend("moves")
Unsent == UNCHANGED <<server, cache, request, missed>>

Edit(tab, templates) ==
    /\ FormShown /\ page.dialog.state = None /\ tab \in budget.tabs /\ Spend("edits")
    /\ \E t \in templates \ {page.draft} : page' = [page EXCEPT !.draft = Repaired(t)]
    /\ Unsent

BasicTab == Edit("basic", BasicEdits(page.draft, isNew))
ControlTab == Edit("control", ControlEdits(page.draft))
StatesTab == Edit("states", UNION {CapabilityStateCard(page.draft, v) : v \in DOMAIN page.draft.states})
SyncTab == Edit("sync", SyncEdits(page.draft, typesLoaded))
HaTab == Edit("ha", HaEdits(page.draft))

\* The dialog keeps the type and parameters it was cancelled with.
addActionToState ==
    /\ FormShown /\ page.dialog.state = None /\ "states" \in budget.tabs /\ Spend("edits")
    /\ \E v \in ToSet(page.draft.options) : page' = [page EXCEPT !.dialog.state = v]
    /\ Unsent

InDialog(d) == page.dialog.state # None /\ page' = [page EXCEPT !.dialog = d] /\ Unsent

handleTypeChange ==
    /\ typesLoaded /\ Spend("edits")
    /\ \E type \in TypeId \ {page.dialog.type} :
         InDialog([page.dialog EXCEPT !.type = type,
            !.params = defaultSyncParams(scopeParamSchema(Schema[type], page.draft.scope))])

setParams ==
    /\ page.dialog.type # Blank /\ Spend("edits")
    /\ \E f \in resolveVisibleFields(scopeParamSchema(Schema[page.dialog.type], page.draft.scope),
                                     page.dialog.params) :
         \E v \in Inputs(f) : InDialog([page.dialog EXCEPT !.params = WithParam(@, f.key, v)])

\* "Save action".  Nothing is added to the state of an empty option; React
\* gives up when the state of the dialog is no longer in the draft.
SaveAction ==
    LET state == page.dialog.state
        added == [id |-> CHOOSE n \in 1 .. MaxActions : n \notin UsedIds(page.draft),
                  type |-> page.dialog.type, params |-> page.dialog.params]
    IN  /\ state # None /\ page.dialog.type # Blank /\ UsedIds(page.draft) # 1 .. MaxActions
        /\ Spend("edits") /\ Unsent
        /\ page' = IF state = Blank THEN [page EXCEPT !.dialog = Closed]
                   ELSE IF state \notin DOMAIN page.draft.states
                   THEN Moved(page, "crashed")
                   ELSE [page EXCEPT !.dialog = Closed, !.draft = handleSaveAction(@, state, added)]

\* Cancel closes the dialog, Escape and the cross reset it too.
CancelAction == InDialog([page.dialog EXCEPT !.state = None]) /\ UNCHANGED budget
DismissAction == InDialog(Closed) /\ UNCHANGED budget
-----------------------------------------------------------------------------
(* Requests and navigation.                                                *)

Send(kind, id, template, moves) ==
    /\ Spend("ops")
    /\ request' = Append(request, [kind |-> kind, id |-> id, template |-> template, moves |-> moves,
                                   by |-> page.instance, phase |-> "sent", waits |-> {}])
    /\ UNCHANGED <<server, cache, page, missed>>

\* saveCapability creates on the page of a new capability and updates on the others.
handleSave ==
    /\ FormShown /\ page.dialog.state = None /\ ~isSaving
    /\ ~hasGlobalScopeParamViolations(page.draft)
    /\ Send(IF isNew THEN "create" ELSE "update", IF isNew THEN page.draft.id ELSE page.at,
            page.draft, TRUE)

Rows == IF page.at = "capabilities" /\ Loaded(cache[page.filter]) THEN cache[page.filter].data ELSE {}

duplicateTemplate(t, copy) == [t EXCEPT !.id = copy]
handleDuplicate ==
    /\ ~Pending({"create"})
    /\ \E t \in Rows, copy \in Copies : Send("create", copy, duplicateTemplate(t, copy), TRUE)
handleDelete ==
    /\ ~Pending({"delete"})
    /\ \E t \in Rows : Send("delete", t.id, None, FALSE)

\* The links of the sidebar and of the rows; Cancel; New capability.
Navigate ==
    /\ page.dialog.state = None /\ Move("go")
    /\ \E at \in ({"capabilities", "global"} \cup {t.id : t \in Rows}
                    \cup (IF page.at = "capabilities" THEN {"new"} ELSE {})) \ {page.at},
          refetch \in BOOLEAN : Goto(at, refetch)
    /\ UNCHANGED <<server, request, missed>>

SetFilter ==
    /\ page.at = "capabilities" /\ Move("filter")
    /\ \E f \in Lists \ {page.filter}, old \in BOOLEAN :
         /\ page' = [page EXCEPT !.filter = f]
         /\ cache' = [cache EXCEPT ![f] = IF old \/ ~Loaded(@) \/ @.invalid THEN Start(@) ELSE @]
    /\ UNCHANGED <<server, request, missed>>

\* Window focus, when the data is too old; the interval of the Global page.
Refetch ==
    /\ Move("focus")
    /\ \E qs \in (SUBSET Active) \ {{}} :
         cache' = [q \in Query |-> IF q \in qs THEN Start(cache[q]) ELSE cache[q]]
    /\ UNCHANGED <<server, page, request, missed>>
-----------------------------------------------------------------------------
(* The network.                                                            *)

ServerReads(q) ==
    /\ cache[q].fetch = Sent /\ Serve(q) # None
    /\ cache' = [cache EXCEPT ![q].fetch = Read(Serve(q))]
    /\ UNCHANGED <<server, page, request, missed, budget>>

FetchOver(q, entry) ==
    /\ cache' = [cache EXCEPT ![q] = entry]
    /\ page' = IF q = page.at THEN Shown(page, cache[q], entry) ELSE page
    /\ request' = [i \in DOMAIN request |-> [request[i] EXCEPT !.waits = @ \ {q}]]
    /\ UNCHANGED <<server, missed>>
FetchSucceeds(q) ==
    cache[q].fetch \notin {Idle, Sent} /\ FetchOver(q, Answered(cache[q], cache[q].fetch[2])) /\ UNCHANGED budget
FetchFails(q) == Fetching(cache[q]) /\ FetchOver(q, Failed(cache[q])) /\ Spend("faults")
NotFound(q) ==
    cache[q].fetch = Sent /\ Serve(q) = None /\ FetchOver(q, Failed(cache[q])) /\ UNCHANGED budget

ServerProcesses(i) ==
    LET r == request[i]
        left == CASE r.kind = "create" -> CreateCapability(r)
                  [] r.kind = "update" -> UpdateCapability(r)
                  [] OTHER -> DeleteCapability(r)
    IN  /\ r.phase = "sent"
        /\ request' = [request EXCEPT ![i].phase = IF left = {} THEN "refused" ELSE "stored"]
        /\ server' = IF left = {} THEN server ELSE [server EXCEPT ![r.id] = CHOOSE t \in left : TRUE]
        /\ UNCHANGED <<cache, page, missed, budget>>

Without(i) == RemoveAt(request, i)

Invalidated_NoGlobal(r) == Lists \cup (IF r.kind = "delete" THEN {} ELSE {r.id})
\* The keys that onSuccess invalidates; Delete forgets the template's own.
Invalidated(r) == Lists \cup {"global"} \cup (IF r.kind = "delete" THEN {} ELSE {r.id})

\* A fetch that invalidation does not restart: its answer clears the mark
\* whatever it was computed from.
Unstoppable(q) == Fetching(cache[q]) /\ (q \in Active => ~Loaded(cache[q]))

Awaited_All(keys) == keys
\* onSuccess waits for the fetches that invalidation starts: of what is in use.
Awaited(keys) == keys \cap Active

\* onSuccess: the request is over when the fetches this starts are.
RequestSucceeds(i) ==
    LET keys == Invalidated(request[i]) IN
    /\ request[i].phase = "stored"
    /\ cache' = [q \in Query |-> IF q \in keys /\ cache[q] # Empty THEN Invalidate(cache[q], q \in Active)
                                 ELSE cache[q]]
    /\ request' = [request EXCEPT ![i].phase = "waiting", ![i].waits = Awaited(keys)]
    /\ missed' = missed \cup {q \in keys : Unstoppable(q)}
    /\ UNCHANGED <<server, page, budget>>

\* The code after the await goes on before any other event is handled.
CanReturn(i) == request[i].phase = "waiting" /\ request[i].waits = {}
Return(i) ==
    /\ CanReturn(i) /\ request' = Without(i)
    /\ IF request[i].moves THEN \E refetch \in BOOLEAN : Goto(request[i].id, refetch)
       ELSE UNCHANGED <<cache, page>>
    /\ UNCHANGED <<server, missed, budget>>

\* A message is shown and the draft stays.
RequestRefused(i) ==
    /\ request[i].phase = "refused" /\ request' = Without(i)
    /\ UNCHANGED <<server, cache, page, missed, budget>>
\* The request, or its answer, is lost: nothing is invalidated.
RequestLost(i) ==
    /\ request[i].phase \in {"sent", "stored", "refused"} /\ Spend("faults")
    /\ request' = Without(i) /\ missed' = IF request[i].phase = "stored" THEN Query ELSE missed
    /\ UNCHANGED <<server, cache, page>>

\* Another browser stores or deletes a template.
Outside ==
    /\ Spend("outside") /\ missed' = Query
    /\ \/ \E t \in Foreign : server' = [server EXCEPT ![t.id] = t]
       \/ \E i \in Id : server[i] # None /\ server' = [server EXCEPT ![i] = None]
    /\ UNCHANGED <<cache, page, request>>
-----------------------------------------------------------------------------
\* The list and the Global page have been visited before.
Init ==
    \E s \in Scenario :
        /\ server = [i \in Id |-> IF \E t \in s.stored : t.id = i THEN CHOOSE t \in s.stored : t.id = i ELSE None]
        /\ cache = [q \in Query |-> IF q \in {"list", "global"} THEN [Empty EXCEPT !.data = Serve(q)] ELSE Empty]
        /\ page = Moved([at |-> None, instance |-> 0], "capabilities")
        /\ request = <<>> /\ missed = {} /\ budget = s.budget

Users ==
    \/ BasicTab \/ ControlTab \/ StatesTab \/ SyncTab \/ HaTab
    \/ addActionToState \/ handleTypeChange \/ setParams \/ SaveAction \/ CancelAction \/ DismissAction
    \/ handleSave \/ handleDuplicate \/ handleDelete \/ Navigate \/ SetFilter \/ Refetch
Answers ==
    \/ \E q \in Query : ServerReads(q) \/ FetchSucceeds(q) \/ NotFound(q)
    \/ \E i \in DOMAIN request : ServerProcesses(i) \/ RequestSucceeds(i) \/ RequestRefused(i)
Faults == (\E q \in Query : FetchFails(q)) \/ (\E i \in DOMAIN request : RequestLost(i)) \/ Outside

Busy == \E i \in DOMAIN request : CanReturn(i)
Next ==
    \/ \E i \in DOMAIN request : Return(i)
    \/ ~Busy /\ (Users \/ Answers \/ Faults)

Spec == Init /\ [][Next]_vars

\* Fetches and requests are processed and answered in the end.
Proceed == (\E i \in DOMAIN request : Return(i)) \/ (~Busy /\ Answers)
FairSpec == Spec /\ WF_vars(Proceed)
-----------------------------------------------------------------------------
IsData(q, v) ==
    CASE q = "types" -> v = "types"
      [] q \in Id -> IsTemplate(v) /\ v.id = q
      [] OTHER -> \A t \in v : IsTemplate(t)
IsEntry(q, e) ==
    /\ e.data # None => IsData(q, e.data)
    /\ e.fetch \notin {Idle, Sent} => IsData(q, e.fetch[2])
    /\ {e.error, e.invalid} \subseteq BOOLEAN
TypeOK ==
    /\ \A i \in Id : server[i] # None => IsData(i, server[i])
    /\ \A q \in Query : IsEntry(q, cache[q])
    /\ page.at \in Editor \cup {"capabilities", "global", "crashed"} /\ page.filter \in Lists
    /\ IsTemplate(page.draft)
    /\ page.dialog \in [state : Value \cup {None}, type : TypeId \cup {Blank}, params : Params]
    /\ \A i \in DOMAIN request : request[i].kind # "delete" => IsTemplate(request[i].template)
    /\ missed \subseteq Query /\ budget \in Budget

\* Whatever was edited on whichever tab, in whichever order, and whatever was
\* loaded meanwhile: the draft has exactly one list of actions for every option,
\* two options at least, those of a switch if it is one, and a synchronisation maps to options there are
\* (buildStateMapFromOptions, setControlType, the mapping effect).
DraftConsistent ==
    LET t == page.draft IN
    /\ DOMAIN t.states = ToSet(t.options) /\ Len(t.options) >= 2
    /\ t.type = "switch" => t.options = <<"on", "off">>
    /\ t.sync # None => {t.sync.when_true, t.sync.when_false} \subseteq ToSet(t.options)

\* A template's page stores nothing but its own.  A save that ends late moves the
\* browser between templates while the component keeps its draft (handleSave), and
\* the form is drawn also when a first load has failed: only then it shows the draft
\* of the template the user came from, and Save is refused until one's own has been
\* loaded (CapabilityEditorPage.tsx 416, 423; service.go 103).
OwnTemplate ==
    /\ page.at \in Id /\ FormShown =>
          page.draft.id = page.at \/ (cache[page.at].error /\ ~Loaded(cache[page.at]))
    /\ \A i \in DOMAIN request :
          request[i].kind = "update" /\ request[i].phase \in {"stored", "waiting"} =>
              request[i].template.id = request[i].id

\* With every request over, what nothing marks as out of date is what the
\* server holds, except after a change the browser was not told of or a fetch
\* that invalidation could not restart; the template of a deleted capability
\* may linger too (the onSuccess handlers of useCapabilityEditor).
SettledIsTrue ==
    request = <<>> =>
        \A q \in Query \ missed : Settled(cache[q]) /\ Serve(q) # None => cache[q].data = Serve(q)

SameEditor == page.at \in Editor /\ page'.at = page.at /\ page'.instance = page.instance
Loads == page.at \in Id /\ cache'[page.at].data # cache[page.at].data

\* Unsaved edits are given up only for a template that really is another one:
\* saving, refusals, lost answers, focus and polls leave the draft alone.
EditsKept ==
    [][SameEditor /\ ~Loads /\ page'.draft # page.draft => budget'.edits < budget.edits]_vars

ActionsKept ==
    \A v \in DOMAIN page.draft.states \cap DOMAIN page'.draft.states :
        Cardinality(ToSet(page.draft.states[v]) \ ToSet(page'.draft.states[v])) <=
            IF "states" \in budget.tabs THEN 1 ELSE 0
DefaultKept ==
    LET t == page.draft
        u == page'.draft
        renamed == /\ u.type = "select" /\ Len(u.options) = Len(t.options)
                   /\ \E i \in DOMAIN t.options : t.options[i] = t.default_state /\ u.options[i] # t.options[i]
    IN  t.default_state \in ToSet(t.options) /\ u.default_state \notin ToSet(u.options) => renamed

\* An edit loses nothing that it is not about: the actions of a state go one by
\* one or with the option of the state, whatever else is done to the options,
\* the control type or the scope, and the default state stays one of the options
\* unless its own is renamed (buildStateMapFromOptions, removeSelectOption).
EditsAreLocal == [][SameEditor /\ ~Loads => ActionsKept /\ DefaultKept]_vars

\* Every request comes to its end, so that Save can be used again.
RequestsEnd == request # <<>> ~> request = <<>>
=============================================================================
