---------------------------- MODULE TemplateDraft ----------------------------
(***************************************************************************)
(* The capability template a user edits on the capability page of the      *)
(* frontend, and what every input of the page does to it: the functions of *)
(* lib/automation.ts and the setDraft updaters of CapabilityEditorPage.    *)
(*                                                                         *)
(* Left out as wording: option labels, description and category; wording   *)
(* stands for the texts no rule depends on (state labels among them).      *)
(***************************************************************************)
EXTENDS Naturals, Sequences, FiniteSets, SequencesExt

CONSTANTS
    None,
    Id, Text,          \* identifiers and labels a user may type; the empty string is neither
    Typed,             \* option values a user may type
    Padded,            \* typed values with blanks around them -> what is left without
    Schema,            \* action or source type -> its parameter fields, in order
    FirstSource,       \* the first state source type of the server's list
    ParamText,         \* what a user may type in a string parameter
    DeviceRefs,        \* parameter values that name the device
    MaxOptions, MaxActions

\* An input with nothing in it.
Blank == ""
OptionName == <<"option_1", "option_2", "option_3", "option_4", "option_5">>
Value == {"on", "off", "allow", "deny"} \cup ToSet(OptionName) \cup Typed \cup {Padded[v] : v \in DOMAIN Padded}
TypeId == DOMAIN Schema

ASSUME TextAssumption == Blank \notin Id \cup Text
ASSUME PaddedAssumption == DOMAIN Padded \subseteq Typed
ASSUME SourceAssumption == FirstSource \in TypeId
\* normalizeControl may make a select of three options.
ASSUME BoundAssumption == MaxOptions \in 3 .. Len(OptionName) /\ MaxActions \in Nat
ASSUME SchemaAssumption ==
    \A t \in TypeId :
        /\ Schema[t] \in Seq(ToSet(Schema[t]))
        /\ \A f \in ToSet(Schema[t]) :
             DOMAIN f = {"key", "kind", "options", "visible_if"} /\ f.options \in Seq(ToSet(f.options))

trim(v) == IF v \in DOMAIN Padded THEN Padded[v] ELSE v

\* The members of a sequence at some of its places, in their order.
Taken(s, places) ==
    LET Place(n) == CHOOSE i \in places : Cardinality(places \cap 1 .. i) = n
    IN  [n \in 1 .. Cardinality(places) |-> s[Place(n)]]
-----------------------------------------------------------------------------
(* Parameters of actions and state sources.                                *)

Keys == UNION {{Schema[t][i].key : i \in DOMAIN Schema[t]} : t \in TypeId}
ParamValue ==
    (UNION {UNION {ToSet(Schema[t][i].options) : i \in DOMAIN Schema[t]} : t \in TypeId})
        \cup ParamText \cup {Blank, "false", "true"}
Params == UNION {[ks -> ParamValue] : ks \in SUBSET Keys}
NoParams == [k \in {} |-> Blank]

\* In a global capability the options that name the device are not offered.
scopeParamSchema(fields, scope) ==
    [i \in DOMAIN fields |->
        IF scope = "global" /\ fields[i].kind = "enum"
        THEN [fields[i] EXCEPT !.options = Taken(@, {j \in DOMAIN @ : @[j] \notin DeviceRefs})]
        ELSE fields[i]]

defaultValueForActionField(field) ==
    CASE field.kind = "bool" -> "false"
      [] field.kind = "enum" /\ field.options # <<>> -> field.options[1]
      [] OTHER -> Blank

defaultSyncParams(fields) ==
    [k \in {fields[i].key : i \in DOMAIN fields} |->
        defaultValueForActionField(CHOOSE f \in ToSet(fields) : f.key = k)]

resolveVisibleFields(fields, params) ==
    {f \in ToSet(fields) :
        f.visible_if # None => /\ f.visible_if.key \in DOMAIN params
                               /\ params[f.visible_if.key] = f.visible_if.equals}

WithParam(params, key, value) ==
    [k \in DOMAIN params \cup {key} |-> IF k = key THEN value ELSE params[k]]

\* What a user may enter in the input of a field.
Inputs(field) ==
    CASE field.kind = "bool" -> {"false", "true"}
      [] field.kind = "enum" -> ToSet(field.options)
      [] OTHER -> ParamText

hasScopeViolationForGlobal(params) == \E k \in DOMAIN params : params[k] \in DeviceRefs
-----------------------------------------------------------------------------
(* Templates.                                                              *)

Action == [id : 1 .. MaxActions, type : TypeId, params : Params]
SyncConfig ==
    [enabled : BOOLEAN, type : TypeId \cup {Blank}, params : Params, when_true : Value,
     when_false : Value, mode : {"external_truth", "internal_truth"}, trigger : BOOLEAN]
HaExpose == [enabled : BOOLEAN, entity_type : {"switch", "select"}, suffix : Text \cup {Blank}]

\* The members of [... -> ...] are too many to enumerate: a membership test.
IsTemplate(t) ==
    /\ DOMAIN t = {"id", "label", "wording", "scope", "type", "options", "states",
                   "default_state", "sync", "ha"}
    /\ t.id \in Id \cup {Blank} /\ t.label \in Text \cup {Blank} /\ t.wording \in Text \cup {Blank}
    /\ t.scope \in {"device", "global"} /\ t.type \in {"switch", "select"}
    /\ t.options \in Seq(Value) /\ Len(t.options) \in 2 .. MaxOptions
    /\ DOMAIN t.states \subseteq Value /\ \A v \in DOMAIN t.states : t.states[v] \in Seq(Action)
    /\ t.default_state \in Value
    /\ t.sync \in SyncConfig \cup {None}
    /\ t.ha \in HaExpose

createEmptyCapabilityTemplate ==
    [id |-> Blank, label |-> Blank, wording |-> Blank, scope |-> "device",
     type |-> "switch", options |-> <<"on", "off">>,
     states |-> [v \in {"on", "off"} |-> <<>>], default_state |-> "off", sync |-> None,
     ha |-> [enabled |-> FALSE, entity_type |-> "switch", suffix |-> Blank]]

ActionsOf(t) == UNION {ToSet(t.states[v]) : v \in DOMAIN t.states}
UsedIds(t) == {a.id : a \in ActionsOf(t)}

hasGlobalScopeParamViolations(t) ==
    /\ t.scope = "global"
    /\ \/ \E a \in ActionsOf(t) : hasScopeViolationForGlobal(a.params)
       \/ t.sync # None /\ hasScopeViolationForGlobal(t.sync.params)
-----------------------------------------------------------------------------
(* The Control tab.                                                        *)

buildStateMapFromOptions_Fresh(options, states) == [v \in ToSet(options) |-> <<>>]
buildStateMapFromOptions(options, states) ==
    [v \in ToSet(options) |-> IF v \in DOMAIN states THEN states[v] ELSE <<>>]

AddUnique(values, v) == IF v \in {Blank} \cup ToSet(values) THEN values ELSE Append(values, v)

\* A Map keeps a value in the place where it was first set.
Unique(values) ==
    Taken(values, {i \in DOMAIN values : values[i] # Blank /\ \A j \in 1 .. i - 1 : values[j] # values[i]})

normalizeControl(type, options) ==
    IF type = "switch" THEN <<"on", "off">>
    ELSE LET unique == Unique([i \in DOMAIN options |-> trim(options[i])])
         IN IF Len(unique) < 2 THEN AddUnique(AddUnique(unique, "allow"), "deny") ELSE unique

WithOptions(t, options) ==
    [t EXCEPT !.options = options, !.states = buildStateMapFromOptions(options, t.states)]

DefaultIn(t) == IF t.default_state \in DOMAIN t.states THEN t.default_state ELSE t.options[1]

setControlType(t, type) ==
    LET u == WithOptions(t, normalizeControl(type, t.options))
    IN [u EXCEPT !.type = type, !.default_state = DefaultIn(u), !.ha.entity_type = type]

\* A switch keeps its two values; a select takes the new one as it is typed.
updateControlOption(t, i, value) ==
    WithOptions(t, IF t.type = "switch" THEN <<"on", "off">> ELSE [t.options EXCEPT ![i] = value])

addSelectOption(t) == WithOptions(t, Append(t.options, OptionName[Len(t.options) + 1]))

removeSelectOption(t, i) ==
    IF t.type # "select" \/ Len(t.options) <= 2 THEN t
    ELSE LET u == WithOptions(t, RemoveAt(t.options, i)) IN [u EXCEPT !.default_state = DefaultIn(u)]

ControlEdits(t) ==
    {setControlType(t, type) : type \in {"switch", "select"} \ {t.type}}
    \cup {updateControlOption(t, i, t.options[i]) : i \in DOMAIN t.options}
    \cup (IF t.type = "switch" THEN {}
          ELSE {updateControlOption(t, i, v) : i \in DOMAIN t.options, v \in Typed}
               \cup {removeSelectOption(t, i) : i \in DOMAIN t.options}
               \cup (IF Len(t.options) < MaxOptions THEN {addSelectOption(t)} ELSE {}))
    \cup {[t EXCEPT !.default_state = v] : v \in ToSet(t.options)}
-----------------------------------------------------------------------------
(* The Basic tab, the States tab and the Home Assistant tab.               *)

BasicEdits(t, isNew) ==
    (IF isNew THEN {[t EXCEPT !.id = i] : i \in Id \cup {Blank}} ELSE {})
    \cup {[t EXCEPT !.label = l] : l \in Text \cup {Blank}}
    \cup {[t EXCEPT !.wording = l] : l \in Text}
    \cup {[t EXCEPT !.scope = s] : s \in {"device", "global"}}

updateStateLabel(t, label) == [t EXCEPT !.wording = label]

removeActionFromState(t, state, id) ==
    [t EXCEPT !.states[state] = Taken(@, {i \in DOMAIN @ : @[i].id # id})]

\* The buttons of the cards of the options' states.
CapabilityStateCard(t, state) ==
    {updateStateLabel(t, l) : l \in Text}
    \cup {removeActionFromState(t, state, a.id) : a \in ToSet(t.states[state])}

handleSaveAction(t, state, action) == [t EXCEPT !.states[state] = Append(@, action)]

HaEdits(t) ==
    {[t EXCEPT !.ha.enabled = b] : b \in BOOLEAN}
    \cup (IF ~t.ha.enabled THEN {}
          ELSE {[t EXCEPT !.ha.entity_type = e] : e \in {"switch", "select"}}
               \cup {[t EXCEPT !.ha.suffix = s] : s \in Text \cup {Blank}}
               \cup {[t EXCEPT !.wording = l] : l \in Text})
-----------------------------------------------------------------------------
(* The Sync tab.  sources: the state source types have been loaded.        *)

FirstParams(t, sources) ==
    IF sources THEN defaultSyncParams(scopeParamSchema(Schema[FirstSource], t.scope)) ELSE NoParams

defaultSyncConfig(t, sources) ==
    [enabled |-> TRUE, type |-> IF sources THEN FirstSource ELSE Blank,
     params |-> FirstParams(t, sources), when_true |-> t.options[1], when_false |-> t.options[2],
     mode |-> "external_truth", trigger |-> FALSE]

setSyncEnabled(t, enabled, sources) ==
    CASE ~enabled /\ t.sync = None -> t
      [] ~enabled /\ t.sync # None -> [t EXCEPT !.sync.enabled = FALSE]
      [] enabled /\ t.sync = None -> [t EXCEPT !.sync = defaultSyncConfig(t, sources)]
      [] OTHER -> IF t.sync.type = Blank /\ sources
                  THEN [t EXCEPT !.sync.enabled = TRUE, !.sync.type = FirstSource,
                                 !.sync.params = FirstParams(t, sources)]
                  ELSE [t EXCEPT !.sync.enabled = TRUE]

setSyncSourceType(t, type) ==
    [t EXCEPT !.sync.type = type,
              !.sync.params = defaultSyncParams(scopeParamSchema(Schema[type], t.scope))]

setSyncParam(t, key, value) == [t EXCEPT !.sync.params = WithParam(@, key, value)]

visibleSyncFields(t, sources) ==
    IF t.sync.type = Blank \/ ~sources THEN {}
    ELSE resolveVisibleFields(scopeParamSchema(Schema[t.sync.type], t.scope), t.sync.params)

\* What the inputs show while synchronisation is enabled can do.
SyncParamEdits(t, sources) ==
    UNION {{setSyncParam(t, f.key, v) : v \in Inputs(f)} : f \in visibleSyncFields(t, sources)}
MappingEdits(t) ==
    UNION {{[t EXCEPT !.sync.when_true = v], [t EXCEPT !.sync.when_false = v]} : v \in ToSet(t.options)}
ModeEdits(t) == {[t EXCEPT !.sync.mode = m] : m \in {"external_truth", "internal_truth"}}
TriggerEdits(t) == {[t EXCEPT !.sync.trigger = b] : b \in BOOLEAN}

SyncEdits(t, sources) ==
    {setSyncEnabled(t, b, sources) : b \in BOOLEAN}
    \cup (IF t.sync = None \/ ~t.sync.enabled THEN {}
          ELSE (IF sources THEN {setSyncSourceType(t, type) : type \in TypeId} ELSE {})
               \cup SyncParamEdits(t, sources) \cup MappingEdits(t) \cup ModeEdits(t)
               \cup TriggerEdits(t))

Repaired_TrueOnly(t) ==
    IF t.sync = None \/ t.sync.when_true \in ToSet(t.options) THEN t
    ELSE [t EXCEPT !.sync.when_true = t.options[1]]
\* The effect behind every edit: a mapping to an option that is gone falls
\* back to the first or the second option.
Repaired(t) ==
    IF t.sync = None THEN t
    ELSE LET Kept(v, fallback) == IF v \in ToSet(t.options) THEN v ELSE fallback
         IN [t EXCEPT !.sync.when_true = Kept(@, t.options[1]),
                      !.sync.when_false = Kept(@, t.options[2])]
=============================================================================
