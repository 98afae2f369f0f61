----------------------------- MODULE Automation -----------------------------
(***************************************************************************)
(* The automation engine and service (services/automation).                *)
(*                                                                         *)
(* A capability template gives each of its states a list of router actions *)
(* to run on entering it and, optionally, a router fact the stored state   *)
(* is synchronised with.  HTTP requests change the state or the enabled    *)
(* flag of a capability on a target (a device, or the whole system); the   *)
(* sync loop reads router facts and rewrites stored states.  There is no   *)
(* lock: each database call and each router command is an action here, and *)
(* the calls of several requests and of the sync loop interleave.          *)
(***************************************************************************)
EXTENDS Naturals, Sequences

CONSTANTS
    None,       \* an absent row, an omitted field, a blank string
    Device,     \* device targets
    Global,     \* the one target of global capabilities
    Cap,        \* capability ids
    State,      \* capability state ids
    Fact,       \* what an action writes and a state source reads on the router:
                \* membership of a target in a list, enabledness of a rule
    Requests,   \* HTTP requests that may be in flight at the same time
    Sync,       \* the sync goroutine, as a caller of SetCapabilityState
    Scenario    \* what the outside does: the kinds of change it makes, the templates
                \* clients send, and bounds on the number of changes and of faults
                \* (failed or skipped actions, failed calls)

Target == Device \cup {Global}
Proc == Requests \cup {Sync}
Opt(S) == S \cup {None}

Action == [fact : Fact, value : BOOLEAN]
SyncConfig == [external : BOOLEAN, trigger : BOOLEAN, fact : Fact,
               whenTrue : Opt(State), whenFalse : Opt(State)]
Template == [scope : {"device", "global"}, states : SUBSET State,
             actions : [State -> Seq(Action)], default : State, sync : Opt(SyncConfig)]
Row == [enabled : BOOLEAN, state : State]

Churn == [kinds : SUBSET {"request", "router", "device", "template"}, payload : SUBSET Template,
          changes : Nat, faults : Nat]

ASSUME AutomationAssumption ==
    /\ Global \notin Device /\ Sync \notin Requests
    /\ None \notin State /\ None \notin Row /\ None \notin Template /\ None \notin SyncConfig
    /\ None \notin BOOLEAN /\ None \notin Cap
    /\ Scenario \subseteq Churn

VARIABLES
    templates,   \* capability_templates, by id
    rows,        \* device_capabilities_state and global_capabilities_state
    router,      \* the facts on the router, by target
    known,       \* the devices GetDevice and ListDevices return
    call,        \* the calls in flight and their local variables
    sync,        \* the local variables of SyncOnce
    edit,        \* an UpdateCapability between its read and its write
    outcome,     \* how the last transition that ran actions ended, by row
    churn,       \* the scenario, with the changes that are left to it
    faults

vars == <<templates, rows, router, known, call, sync, edit, outcome, churn, faults>>

NoCall == [pc |-> "idle", t |-> Global, c |-> None, want |-> None, enable |-> None,
           tmpl |-> None, cur |-> None, todo |-> <<>>, warned |-> FALSE]
\* The arguments of a call.
Begin(t, c, want, enable) == [NoCall EXCEPT !.t = t, !.c = c, !.want = want, !.enable = enable]
NoSync == [pc |-> "idle", listed |-> [c \in Cap |-> None], c |-> None, tmpl |-> None,
           targets |-> {}, t |-> Global, cur |-> None, want |-> None]

Outside(kind) ==
    /\ kind \in churn.kinds /\ churn.changes > 0
    /\ churn' = [churn EXCEPT !.changes = @ - 1]
Fault ==
    /\ faults < churn.faults
    /\ faults' = faults + 1

-----------------------------------------------------------------------------
\* Mutant: the sync mapping is not compared with the states.
validateTemplate_NoMapping(tm) == tm.default \in tm.states

\* What CreateCapability and UpdateCapability accept.
validateTemplate(tm) ==
    /\ tm.default \in tm.states
    /\ tm.sync # None =>
          tm.sync.whenTrue \in Opt(tm.states) /\ tm.sync.whenFalse \in Opt(tm.states)

Scope(t) == IF t = Global THEN "global" ELSE "device"

\* A target without a row is enabled and in the default state.
currentCapabilityState(t, c, default) ==
    IF rows[t][c] = None THEN [enabled |-> TRUE, state |-> default] ELSE rows[t][c]

\* Mutant: the mapping is inverted.
MappedState_Swapped(config, value) == IF value THEN config.whenFalse ELSE config.whenTrue
MappedState(config, value) == IF value THEN config.whenTrue ELSE config.whenFalse

\* A blank mapping changes nothing.
NeedsChange(want, cur) == want # None /\ want # cur.state

\* Mutant: a failed action leaves no warning.
AfterWarning_Silent(k) == [k EXCEPT !.todo = Tail(@)]

\* A failed or skipped action adds a warning; the next action is tried.
AfterWarning(k) == [k EXCEPT !.todo = Tail(@), !.warned = TRUE]

\* persistCapabilityState, and the upsert of SetDeviceCapabilityEnabled.
Upsert(t, c, row) == rows' = [rows EXCEPT ![t][c] = row]

Return(p) == call' = [call EXCEPT ![p] = NoCall]
Goto(p, pc) == call' = [call EXCEPT ![p].pc = pc]

\* PATCH: the enabled flag is changed after the state, by a second call.
EnabledPhase(k) ==
    IF k.enable = None THEN NoCall
    ELSE [k EXCEPT !.pc = IF k.t = Global THEN "enTemplate" ELSE "enDevice",
                   !.tmpl = None, !.cur = None, !.warned = FALSE]

-----------------------------------------------------------------------------
Init ==
    /\ churn \in Scenario
    /\ templates \in [Cap -> {tm \in churn.payload : validateTemplate(tm)} \cup {None}]
    /\ rows = [t \in Target |-> [c \in Cap |-> None]]
    /\ router = [t \in Target |-> [f \in Fact |-> FALSE]]
    /\ known = Device
    /\ call = [p \in Proc |-> NoCall]
    /\ sync = NoSync
    /\ edit = None
    /\ outcome = [t \in Target |-> [c \in Cap |-> "none"]]
    /\ faults = 0

\* A PATCH request arrives with a state, an enabled flag, or both.
Patch(p, t, c, want, enable) ==
    /\ Outside("request")
    /\ call[p].pc = "idle"
    /\ want # None \/ enable # None
    /\ LET k == Begin(t, c, want, enable)
       IN  call' = [call EXCEPT ![p] =
               IF want # None THEN [k EXCEPT !.pc = "getTemplate"] ELSE EnabledPhase(k)]
    /\ UNCHANGED <<templates, rows, router, known, sync, edit, outcome, faults>>

\* SetCapabilityState.
GetTemplate(p) ==
    /\ call[p].pc = "getTemplate"
    /\ LET k == call[p]  tm == templates[k.c]
       IN  IF tm = None \/ (tm # None /\ (tm.scope # Scope(k.t) \/ k.want \notin tm.states))
           THEN Return(p)
           ELSE call' = [call EXCEPT ![p].tmpl = tm,
                             ![p].pc = IF k.t = Global THEN "getState" ELSE "getDevice"]
    /\ UNCHANGED <<templates, rows, router, known, sync, edit, outcome, churn, faults>>

GetDevice(p) ==
    /\ call[p].pc = "getDevice"
    /\ IF call[p].t \in known THEN Goto(p, "getState") ELSE Return(p)
    /\ UNCHANGED <<templates, rows, router, known, sync, edit, outcome, churn, faults>>

\* A capability that is enabled and already in the state is left alone.
GetState(p) ==
    /\ call[p].pc = "getState"
    /\ LET k   == call[p]
           cur == currentCapabilityState(k.t, k.c, k.tmpl.default)
       IN  call' = [call EXCEPT ![p] =
               IF cur.enabled /\ cur.state = k.want THEN EnabledPhase(k)
               ELSE [k EXCEPT !.pc = "act", !.cur = cur, !.todo = k.tmpl.actions[k.want]]]
    /\ UNCHANGED <<templates, rows, router, known, sync, edit, outcome, churn, faults>>

\* One iteration of executeStateActions.
ExecuteAction(p) ==
    /\ call[p].pc = "act" /\ call[p].todo # <<>>
    /\ LET a == Head(call[p].todo)
       IN  router' = [router EXCEPT ![call[p].t][a.fact] = a.value]
    /\ call' = [call EXCEPT ![p].todo = Tail(@)]
    /\ UNCHANGED <<templates, rows, known, sync, edit, outcome, churn, faults>>

\* The action is unregistered, invalid for the target, the router is not
\* configured, the command fails, or (the second choice) its reply is lost.
ActionWarns(p) ==
    /\ call[p].pc = "act" /\ call[p].todo # <<>>
    /\ Fault
    /\ LET a == Head(call[p].todo)
       IN  \/ UNCHANGED router
           \/ router' = [router EXCEPT ![call[p].t][a.fact] = a.value]
    /\ call' = [call EXCEPT ![p] = AfterWarning(@)]
    /\ UNCHANGED <<templates, rows, known, sync, edit, outcome, churn>>

\* The state is persisted whether or not the actions succeeded.
PersistState(p) ==
    /\ call[p].pc = "act" /\ call[p].todo = <<>>
    /\ LET k == call[p]
       IN  /\ Upsert(k.t, k.c, [enabled |-> TRUE, state |-> k.want])
           /\ outcome' = [outcome EXCEPT ![k.t][k.c] = IF k.warned THEN "warned" ELSE "ok"]
           /\ call' = [call EXCEPT ![p] = EnabledPhase(k)]
    /\ UNCHANGED <<templates, router, known, sync, edit, churn, faults>>

\* SetDeviceCapabilityEnabled and SetGlobalCapabilityEnabled.
EnabledGetDevice(p) ==
    /\ call[p].pc = "enDevice"
    /\ IF call[p].t \in known THEN Goto(p, "enTemplate") ELSE Return(p)
    /\ UNCHANGED <<templates, rows, router, known, sync, edit, outcome, churn, faults>>

EnabledGetTemplate(p) ==
    /\ call[p].pc = "enTemplate"
    /\ LET k == call[p]  tm == templates[k.c]
       IN  IF tm = None \/ (tm # None /\ tm.scope # Scope(k.t)) THEN Return(p)
           ELSE call' = [call EXCEPT ![p].tmpl = tm, ![p].pc = "enState"]
    /\ UNCHANGED <<templates, rows, router, known, sync, edit, outcome, churn, faults>>

EnabledGetState(p) ==
    /\ call[p].pc = "enState"
    /\ LET k == call[p]
       IN  call' = [call EXCEPT ![p].pc = "enPersist",
                        ![p].cur = currentCapabilityState(k.t, k.c, k.tmpl.default)]
    /\ UNCHANGED <<templates, rows, router, known, sync, edit, outcome, churn, faults>>

EnabledPersist(p) ==
    /\ call[p].pc = "enPersist"
    /\ LET k == call[p]
       IN  Upsert(k.t, k.c, [enabled |-> k.enable, state |-> k.cur.state])
    /\ Return(p)
    /\ UNCHANGED <<templates, router, known, sync, edit, outcome, churn, faults>>

\* The database call that is next fails, or the client has gone and its
\* context is cancelled.  The process stopping is this for every call.
CallFails(p) ==
    /\ call[p].pc # "idle"
    /\ Fault
    /\ outcome' = IF call[p].pc = "act"
                  THEN [outcome EXCEPT ![call[p].t][call[p].c] = "failed"] ELSE outcome
    /\ Return(p)
    /\ UNCHANGED <<templates, rows, router, known, sync, edit, churn>>

-----------------------------------------------------------------------------
\* SyncOnce: the templates are listed once, those without sync are skipped.
\* The order of templates and of devices is left open.
SyncListTemplates ==
    /\ sync.pc = "idle"
    /\ sync' = [NoSync EXCEPT !.pc = "template", !.listed = [c \in Cap |->
           IF templates[c] # None /\ templates[c].sync # None THEN templates[c] ELSE None]]
    /\ UNCHANGED <<templates, rows, router, known, call, edit, outcome, churn, faults>>

SyncTargets(c) ==
    /\ sync.pc = "template" /\ sync.listed[c] # None
    /\ sync' = [sync EXCEPT !.pc = "target", !.c = c, !.tmpl = sync.listed[c],
           !.listed[c] = None,
           !.targets = IF sync.listed[c].scope = "global" THEN {Global} ELSE known]
    /\ UNCHANGED <<templates, rows, router, known, call, edit, outcome, churn, faults>>

SyncTemplateDone ==
    /\ sync.pc = "target" /\ sync.targets = {}
    /\ sync' = [sync EXCEPT !.pc = "template", !.c = None, !.tmpl = None]
    /\ UNCHANGED <<templates, rows, router, known, call, edit, outcome, churn, faults>>

SyncReturns ==
    /\ sync.pc = "template" /\ \A c \in Cap : sync.listed[c] = None
    /\ sync' = NoSync
    /\ UNCHANGED <<templates, rows, router, known, call, edit, outcome, churn, faults>>

NextTarget == [sync EXCEPT !.pc = "target", !.t = Global, !.cur = None, !.want = None]

\* A disabled capability and internal_truth are skipped.
SyncReadState(t) ==
    /\ sync.pc = "target" /\ t \in sync.targets
    /\ LET cur == currentCapabilityState(t, sync.c, sync.tmpl.default)
       IN  sync' = IF cur.enabled /\ sync.tmpl.sync.external
                   THEN [sync EXCEPT !.pc = "source", !.t = t, !.cur = cur,
                                     !.targets = @ \ {t}]
                   ELSE [sync EXCEPT !.targets = @ \ {t}]
    /\ UNCHANGED <<templates, rows, router, known, call, edit, outcome, churn, faults>>

SyncReadSource ==
    /\ sync.pc = "source"
    /\ LET want == MappedState(sync.tmpl.sync, router[sync.t][sync.tmpl.sync.fact])
       IN  IF ~NeedsChange(want, sync.cur) THEN sync' = NextTarget /\ UNCHANGED call
           ELSE IF ~sync.tmpl.sync.trigger
           THEN sync' = [sync EXCEPT !.pc = "persist", !.want = want] /\ UNCHANGED call
           ELSE /\ sync' = [sync EXCEPT !.pc = "apply", !.want = want]
                /\ call' = [call EXCEPT ![Sync] =
                       [Begin(sync.t, sync.c, want, None) EXCEPT !.pc = "getTemplate"]]
    /\ UNCHANGED <<templates, rows, router, known, edit, outcome, churn, faults>>

\* The row as it was read, with the state replaced.
SyncPersist ==
    /\ sync.pc = "persist"
    /\ Upsert(sync.t, sync.c, [sync.cur EXCEPT !.state = sync.want])
    /\ sync' = NextTarget
    /\ UNCHANGED <<templates, router, known, call, edit, outcome, churn, faults>>

\* SetCapabilityState has returned to the sync loop, with or without an error.
SyncApplied ==
    /\ sync.pc = "apply" /\ call[Sync].pc = "idle"
    /\ sync' = NextTarget
    /\ UNCHANGED <<templates, rows, router, known, call, edit, outcome, churn, faults>>

\* A failing target is recorded and the loop goes on with the next one.
SyncSkips ==
    /\ sync.pc \in {"source", "persist"}
    /\ Fault
    /\ sync' = NextTarget
    /\ UNCHANGED <<templates, rows, router, known, call, edit, outcome, churn>>

-----------------------------------------------------------------------------
CreateCapability(c, tm) ==
    /\ Outside("template")
    /\ templates[c] = None /\ validateTemplate(tm)
    /\ templates' = [templates EXCEPT ![c] = tm]
    /\ UNCHANGED <<rows, router, known, call, sync, edit, outcome, faults>>

\* A payload with a sync section replaces the template.
UpdateCapability(c, tm) ==
    /\ Outside("template")
    /\ templates[c] # None /\ validateTemplate(tm)
    /\ templates' = [templates EXCEPT ![c] = tm]
    /\ UNCHANGED <<rows, router, known, call, sync, edit, outcome, faults>>

\* A payload without one first reads the stored sync section ...
UpdateReadsSync(c, tm) ==
    /\ Outside("template")
    /\ edit = None /\ templates[c] # None
    /\ LET merged == [tm EXCEPT !.sync = templates[c].sync]
       IN  validateTemplate(merged) /\ edit' = [c |-> c, tmpl |-> merged]
    /\ UNCHANGED <<templates, rows, router, known, call, sync, outcome, faults>>

\* ... and then writes the merged template, if the row still exists.
UpdateWrites ==
    /\ edit # None
    /\ templates' = IF templates[edit.c] = None THEN templates
                    ELSE [templates EXCEPT ![edit.c] = edit.tmpl]
    /\ edit' = None
    /\ UNCHANGED <<rows, router, known, call, sync, outcome, churn, faults>>

\* The state rows of the capability stay.
DeleteCapability(c) ==
    /\ Outside("template")
    /\ templates[c] # None
    /\ templates' = [templates EXCEPT ![c] = None]
    /\ UNCHANGED <<rows, router, known, call, sync, edit, outcome, faults>>

\* Someone changes the router directly.
RouterChanges(t, f) ==
    /\ Outside("router")
    /\ router' = [router EXCEPT ![t][f] = ~@]
    /\ UNCHANGED <<templates, rows, known, call, sync, edit, outcome, faults>>

\* A poll adds a device or deletes it (module DevicePoll).
DeviceComesOrGoes(d) ==
    /\ Outside("device")
    /\ known' = IF d \in known THEN known \ {d} ELSE known \cup {d}
    /\ UNCHANGED <<templates, rows, router, call, sync, edit, outcome, faults>>

-----------------------------------------------------------------------------
CallStep(p) ==
    \/ GetTemplate(p) \/ GetDevice(p) \/ GetState(p) \/ ExecuteAction(p) \/ PersistState(p)
    \/ EnabledGetDevice(p) \/ EnabledGetTemplate(p) \/ EnabledGetState(p) \/ EnabledPersist(p)

SyncStep ==
    \/ SyncListTemplates \/ SyncTemplateDone \/ SyncReturns
    \/ \E c \in Cap : SyncTargets(c)
    \/ \E t \in Target : SyncReadState(t)
    \/ SyncReadSource \/ SyncPersist \/ SyncApplied

Next ==
    \/ \E p \in Proc : CallStep(p) \/ ActionWarns(p) \/ CallFails(p)
    \/ SyncStep \/ SyncSkips
    \/ \E p \in Requests, t \in Target, c \in Cap, want \in Opt(State), enable \in Opt(BOOLEAN) :
          Patch(p, t, c, want, enable)
    \/ \E c \in Cap, tm \in churn.payload :
          CreateCapability(c, tm) \/ UpdateCapability(c, tm) \/ UpdateReadsSync(c, tm)
    \/ UpdateWrites
    \/ \E c \in Cap : DeleteCapability(c)
    \/ \E t \in Target, f \in Fact : RouterChanges(t, f)
    \/ \E d \in Device : DeviceComesOrGoes(d)

Spec == Init /\ [][Next]_vars

(***************************************************************************)
(* Every call returns (contexts carry timeouts), the ticker keeps starting *)
(* SyncOnce, and an update that has read goes on to write.  Nothing is     *)
(* assumed of clients, of the router's administrator or of faults.         *)
(***************************************************************************)
Fairness ==
    /\ \A p \in Proc : WF_vars(CallStep(p))
    /\ WF_vars(SyncStep) /\ WF_vars(UpdateWrites)
FairSpec == Spec /\ Fairness

-----------------------------------------------------------------------------
Call == [pc : {"idle", "getTemplate", "getDevice", "getState", "act",
               "enDevice", "enTemplate", "enState", "enPersist"},
         t : Target, c : Opt(Cap), want : Opt(State), enable : Opt(BOOLEAN),
         tmpl : Opt(Template), cur : Opt(Row), todo : Seq(Action), warned : BOOLEAN]
SyncCall == [pc : {"idle", "template", "target", "source", "persist", "apply"},
             listed : [Cap -> Opt(Template)], c : Opt(Cap), tmpl : Opt(Template),
             targets : SUBSET Target, t : Target, cur : Opt(Row), want : Opt(State)]

TypeOK ==
    /\ templates \in [Cap -> Opt(Template)]
    /\ rows \in [Target -> [Cap -> Opt(Row)]]
    /\ router \in [Target -> [Fact -> BOOLEAN]]
    /\ known \subseteq Device
    /\ call \in [Proc -> Call] /\ sync \in SyncCall
    /\ edit \in Opt([c : Cap, tmpl : Template])
    /\ outcome \in [Target -> [Cap -> {"none", "ok", "warned", "failed"}]]
    /\ churn \in Churn /\ faults \in Nat

\* As long as clients do not change which states a capability has, a stored
\* state is always one its template declares: for SetCapabilityState, for
\* default states, and for states the sync loop maps router facts to
\* (validate.go 47-86, engine.go 101-130 and 204-215).
StoredStateDeclared ==
    \A t \in Target, c \in Cap :
        rows[t][c] # None /\ templates[c] # None => rows[t][c].state \in templates[c].states

Quiet == sync.pc = "idle" /\ \A p \in Proc : call[p].pc = "idle"

\* The router facts a list of actions leaves behind.
InEffect(t, actions) ==
    \A i \in DOMAIN actions :
        (\A j \in DOMAIN actions : j > i => actions[j].fact # actions[i].fact)
        => router[t][actions[i].fact] = actions[i].value

\* Whether a template's actions write a fact; whether no other template writes c's.
Writes(tm, f) == \E s \in State : \E i \in DOMAIN tm.actions[s] : tm.actions[s][i].fact = f
SoleWriter(c) ==
    \A d \in Cap \ {c}, f \in Fact :
        templates[d] # None /\ Writes(templates[d], f) => ~Writes(templates[c], f)

\* "SetCapabilityState executes actions and persists new state" (engine.go
\* 66): where only requests change things, when nothing is in flight and the
\* last transition of a capability on a target succeeded without a warning,
\* the actions of the stored state are the ones in effect on the router, if no
\* other capability writes the same facts.
RouterFollowsState ==
    churn.kinds = {"request"} /\ Quiet => \A t \in Target, c \in Cap :
        outcome[t][c] = "ok" /\ templates[c] # None /\ SoleWriter(c) =>
            InEffect(t, templates[c].actions[rows[t][c].state])

\* "SyncOnce reads external state-sources and aligns capability states"
\* (engine.go 136): once requests, the router's administrator and faults have
\* stopped, every enabled external_truth capability ends up, for good, in the
\* state its router fact maps to, whatever was in flight and whether or not
\* the sync runs the actions of that state.
Aligned(t, c) ==
    LET tm == templates[c]
        s  == IF rows[t][c] = None THEN [enabled |-> TRUE, state |-> tm.default] ELSE rows[t][c]
        mapped == IF router[t][tm.sync.fact] THEN tm.sync.whenTrue ELSE tm.sync.whenFalse
    IN  s.enabled => mapped \in {None, s.state}
Synced(t, c) ==
    /\ templates[c] # None /\ templates[c].scope = Scope(t)
    /\ t \in known \cup {Global}
    /\ templates[c].sync # None /\ templates[c].sync.external
SyncAligns ==
    \A t \in Target, c \in Cap : <>[](Synced(t, c) => Aligned(t, c))
=============================================================================
