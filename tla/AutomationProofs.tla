-------------------------- MODULE AutomationProofs ---------------------------
(***************************************************************************)
(* The automation engine, for any devices, capabilities, states, action    *)
(* lists, requests in flight, changes and faults: types, stored states are *)
(* declared ones, and, for calls that do not overlap, the router follows   *)
(* the stored state.                                                       *)
(***************************************************************************)
EXTENDS Automation, SequenceTheorems, TLAPS

(***************************************************************************)
(* Types.  Which local variables of a call are set depends on how far it   *)
(* has come.                                                               *)
(***************************************************************************)
SettingState == {"getTemplate", "getDevice", "getState", "act"}
SettingEnabled == {"enDevice", "enTemplate", "enState", "enPersist"}

CallOK(k) ==
    /\ k \in Call
    /\ k.pc # "idle" => k.c \in Cap
    /\ k.pc \in SettingState => k.want \in State
    /\ k.pc \in {"getDevice", "getState", "act", "enState"} => k.tmpl \in Template
    /\ k.pc \in SettingEnabled => k.enable \in BOOLEAN
    /\ k.pc = "enPersist" => k.cur \in Row

SyncOK(s) ==
    /\ s \in SyncCall
    /\ \A c \in Cap : s.listed[c] # None => s.listed[c].sync # None
    /\ s.pc \in {"target", "source", "persist", "apply"} =>
          s.c \in Cap /\ s.tmpl \in Template /\ s.tmpl.sync # None
    /\ s.pc \in {"source", "persist"} => s.cur \in Row
    /\ s.pc = "persist" => s.want \in State

Tables ==
    /\ templates \in [Cap -> Opt(Template)]
    /\ rows \in [Target -> [Cap -> Opt(Row)]]
    /\ router \in [Target -> [Fact -> BOOLEAN]]
    /\ known \subseteq Device
    /\ edit \in Opt([c : Cap, tmpl : Template])
    /\ outcome \in [Target -> [Cap -> {"none", "ok", "warned", "failed"}]]
    /\ churn \in Churn /\ faults \in Nat
Typed == Tables /\ call \in [Proc -> Call] /\ (\A p \in Proc : CallOK(call[p])) /\ SyncOK(sync)

LEMMA Absent ==
    /\ None \notin State /\ None \notin Row /\ None \notin Template /\ None \notin SyncConfig
    /\ None \notin BOOLEAN /\ None \notin Cap /\ Sync \notin Requests /\ Global \notin Device
BY AutomationAssumption

LEMMA NoCallOK == CallOK(NoCall)
BY Absent DEF CallOK, Call, NoCall, Target, Opt, SettingState, SettingEnabled

LEMMA NoSyncOK == SyncOK(NoSync)
BY DEF SyncOK, SyncCall, NoSync, Target, Opt

\* A call as it begins.
LEMMA BeginsOK ==
    ASSUME NEW t \in Target, NEW c \in Cap, NEW want \in Opt(State), NEW enable \in Opt(BOOLEAN)
    PROVE  /\ CallOK(Begin(t, c, want, enable)) /\ Begin(t, c, want, enable).pc = "idle"
           /\ Begin(t, c, want, enable).t = t /\ Begin(t, c, want, enable).c = c
           /\ Begin(t, c, want, enable).want = want /\ Begin(t, c, want, enable).enable = enable
           /\ ~Begin(t, c, want, enable).warned
<1>1. NoCall \in Call /\ NoCall.pc = "idle" /\ ~NoCall.warned
  BY NoCallOK DEF CallOK, NoCall
<1> DEFINE k == Begin(t, c, want, enable)
<1>2. /\ k \in Call /\ k.pc = "idle" /\ k.t = t /\ k.c = c /\ k.want = want /\ k.enable = enable
      /\ ~k.warned
  BY <1>1 DEF Call, Opt, Begin
<1> HIDE DEF k
<1>3. CallOK(k)
  BY <1>2 DEF CallOK, SettingState, SettingEnabled
<1> QED
  BY <1>2, <1>3 DEF k

LEMMA StartsOK ==
    ASSUME NEW k, CallOK(k), k.c \in Cap, k.want \in State
    PROVE  CallOK([k EXCEPT !.pc = "getTemplate"])
BY DEF CallOK, Call, SettingState, SettingEnabled

\* A call of which one record changes.
LEMMA CallSet ==
    ASSUME Typed, NEW p \in Proc, NEW k, CallOK(k), call' = [call EXCEPT ![p] = k],
           Tables', sync' = sync
    PROVE  Typed'
<1>1. k \in Call
  BY DEF CallOK
<1> QED
  BY <1>1 DEF Typed

LEMMA CallsKept ==
    ASSUME Typed, call' = call, Tables', SyncOK(sync')
    PROVE  Typed'
BY DEF Typed

LEMMA TablesKept ==
    ASSUME Tables, UNCHANGED <<templates, rows, router, known, edit, outcome, churn, faults>>
    PROVE  Tables'
BY DEF Tables

LEMMA OutsideOK ==
    ASSUME churn \in Churn, NEW kind, Outside(kind)
    PROVE  churn' \in Churn /\ churn'.kinds = churn.kinds /\ churn'.payload = churn.payload
           /\ kind \in churn.kinds
BY DEF Outside, Churn

LEMMA FaultOK ==
    ASSUME churn \in Churn, faults \in Nat, Fault
    PROVE  faults' \in Nat
BY DEF Fault, Churn

LEMMA CurrentOK ==
    ASSUME Tables, NEW t \in Target, NEW c \in Cap, NEW tm \in Template
    PROVE  currentCapabilityState(t, c, tm.default) \in Row
BY DEF Tables, currentCapabilityState, Row, Opt, Template

LEMMA EnabledPhaseOK ==
    ASSUME NEW k, CallOK(k), k.c \in Cap
    PROVE  CallOK(EnabledPhase(k))
<1>1. CASE k.enable = None
  BY <1>1, NoCallOK DEF EnabledPhase
<1>2. CASE k.enable # None
  BY <1>2 DEF EnabledPhase, CallOK, Call, Opt, SettingState, SettingEnabled
<1> QED
  BY <1>1, <1>2

LEMMA ReturnOK ==
    ASSUME Typed, NEW p \in Proc, Return(p), Tables', sync' = sync
    PROVE  Typed'
BY NoCallOK, CallSet DEF Return

\* SetCapabilityState, step by step.
LEMMA GetTemplateTyped == ASSUME Typed, NEW p \in Proc, GetTemplate(p) PROVE Typed'
<1> DEFINE k == call[p]
           tm == templates[k.c]
           new == [k EXCEPT !.tmpl = tm, !.pc = IF k.t = Global THEN "getState" ELSE "getDevice"]
<1>1. Tables' /\ sync' = sync
  BY TablesKept DEF GetTemplate, Typed
<1>2. CallOK(k) /\ k.pc = "getTemplate" /\ DOMAIN call = Proc
  BY DEF Typed, GetTemplate
<1>3. CASE Return(p)
  BY <1>1, <1>3, ReturnOK
<1>4. CASE ~Return(p)
  <2>1. tm # None /\ call' = [call EXCEPT ![p] = new]
    BY <1>2, <1>4 DEF GetTemplate
  <2>2. tm \in Template
    BY <1>2, <2>1 DEF Typed, Tables, CallOK, SettingState, Opt
  <2>3. CallOK(new)
    <3> HIDE DEF tm, k
    <3> QED
      BY <1>2, <2>2 DEF CallOK, Call, Opt, SettingState, SettingEnabled
  <2> HIDE DEF new
  <2> QED
    BY <1>1, <2>1, <2>3, CallSet
<1> QED
  BY <1>3, <1>4

LEMMA GetDeviceTyped == ASSUME Typed, NEW p \in Proc, GetDevice(p) PROVE Typed'
<1> DEFINE k == call[p]
           new == [k EXCEPT !.pc = "getState"]
<1>1. Tables' /\ sync' = sync
  BY TablesKept DEF GetDevice, Typed
<1>2. CallOK(k) /\ k.pc = "getDevice" /\ DOMAIN call = Proc
  BY DEF Typed, GetDevice
<1>3. Return(p) \/ call' = [call EXCEPT ![p] = new]
  BY DEF GetDevice, Goto
<1>4. CallOK(new)
  <2> HIDE DEF k
  <2> QED
    BY <1>2 DEF CallOK, Call, SettingState, SettingEnabled
<1> HIDE DEF new
<1> QED
  BY <1>1, <1>3, <1>4, ReturnOK, CallSet

LEMMA GetStateTyped == ASSUME Typed, NEW p \in Proc, GetState(p) PROVE Typed'
<1> DEFINE k == call[p]
           cur == currentCapabilityState(k.t, k.c, k.tmpl.default)
           acts == k.tmpl.actions[k.want]
           new == [k EXCEPT !.pc = "act", !.cur = cur, !.todo = acts]
<1>1. Tables' /\ sync' = sync
  BY TablesKept DEF GetState, Typed
<1>2. CallOK(k) /\ k.pc = "getState"
  BY DEF Typed, GetState
<1>3. k.c \in Cap /\ k.t \in Target /\ k.want \in State /\ k.tmpl \in Template
  BY <1>2 DEF CallOK, Call, SettingState
<1>4. cur \in Row /\ acts \in Seq(Action)
  <2>1. cur \in Row
    <3> HIDE DEF k
    <3> QED
      BY <1>3, CurrentOK DEF Typed
  <2>2. acts \in Seq(Action)
    <3> HIDE DEF k
    <3> QED
      BY <1>3 DEF Template
  <2> QED
    BY <2>1, <2>2
<1>5. call' = [call EXCEPT ![p] = IF cur.enabled /\ cur.state = k.want THEN EnabledPhase(k) ELSE new]
  BY DEF GetState
<1> HIDE DEF k, cur, acts
<1>6. CallOK(new)
  BY <1>2, <1>3, <1>4 DEF CallOK, Call, SettingState, SettingEnabled, Opt
<1>7. CallOK(EnabledPhase(k))
  BY <1>2, <1>3, EnabledPhaseOK
<1> HIDE DEF new
<1> QED
  BY <1>1, <1>5, <1>6, <1>7, CallSet

\* What one action does to the router, whether or not the engine hears of it.
LEMMA WrittenOK ==
    ASSUME Tables, NEW k, CallOK(k), k.todo # <<>>
    PROVE  [router EXCEPT ![k.t][Head(k.todo).fact] = Head(k.todo).value]
              \in [Target -> [Fact -> BOOLEAN]]
<1>1. k.todo \in Seq(Action) /\ k.t \in Target
  BY DEF CallOK, Call
<1>2. Head(k.todo) \in Action
  BY <1>1
<1>3. Head(k.todo).fact \in Fact /\ Head(k.todo).value \in BOOLEAN
  BY <1>2 DEF Action
<1> QED
  BY <1>1, <1>3 DEF Tables

LEMMA ActTyped == ASSUME Typed, NEW p \in Proc, ExecuteAction(p) \/ ActionWarns(p) PROVE Typed'
<1> DEFINE k == call[p]
           moved == [router EXCEPT ![k.t][Head(k.todo).fact] = Head(k.todo).value]
<1>1. Tables /\ CallOK(k) /\ k.pc = "act" /\ k.todo # <<>> /\ DOMAIN call = Proc
  BY DEF Typed, ExecuteAction, ActionWarns
<1>2. moved \in [Target -> [Fact -> BOOLEAN]]
  BY <1>1, WrittenOK
<1>3. router' \in {router, moved} /\ sync' = sync /\ churn' = churn
      /\ UNCHANGED <<templates, rows, known, edit, outcome>>
  BY DEF ExecuteAction, ActionWarns
<1>4. faults' \in Nat
  BY <1>1, FaultOK DEF ExecuteAction, ActionWarns, Tables
<1> HIDE DEF moved
<1>5. Tables'
  BY <1>1, <1>2, <1>3, <1>4 DEF Tables
<1>6. \/ call' = [call EXCEPT ![p] = [k EXCEPT !.todo = Tail(k.todo)]]
      \/ call' = [call EXCEPT ![p] = [k EXCEPT !.todo = Tail(k.todo), !.warned = TRUE]]
  BY <1>1 DEF ExecuteAction, ActionWarns, AfterWarning
<1> HIDE DEF k
<1>7. Tail(k.todo) \in Seq(Action)
  BY <1>1 DEF CallOK, Call
<1>8. /\ CallOK([k EXCEPT !.todo = Tail(k.todo)])
      /\ CallOK([k EXCEPT !.todo = Tail(k.todo), !.warned = TRUE])
  BY <1>1, <1>7 DEF CallOK, Call, SettingState, SettingEnabled
<1> QED
  BY <1>3, <1>5, <1>6, <1>8, CallSet

LEMMA UpsertOK ==
    ASSUME rows \in [Target -> [Cap -> Opt(Row)]], NEW t \in Target, NEW c \in Cap, NEW r \in Row
    PROVE  [rows EXCEPT ![t][c] = r] \in [Target -> [Cap -> Opt(Row)]]
BY DEF Opt

LEMMA PersistTyped == ASSUME Typed, NEW p \in Proc, PersistState(p) PROVE Typed'
<1> DEFINE k == call[p]
           r == [enabled |-> TRUE, state |-> k.want]
<1>1. Tables /\ CallOK(k) /\ k.pc = "act"
  BY DEF Typed, PersistState
<1>2. k.c \in Cap /\ k.t \in Target /\ k.want \in State
  BY <1>1 DEF CallOK, Call, SettingState
<1>3. r \in Row
  BY <1>2 DEF Row
<1>4. /\ rows' = [rows EXCEPT ![k.t][k.c] = r]
      /\ outcome' = [outcome EXCEPT ![k.t][k.c] = IF k.warned THEN "warned" ELSE "ok"]
      /\ call' = [call EXCEPT ![p] = EnabledPhase(k)] /\ sync' = sync
      /\ UNCHANGED <<templates, router, known, edit, churn, faults>>
  BY DEF PersistState, Upsert
<1>5. CallOK(EnabledPhase(k))
  BY <1>1, <1>2, EnabledPhaseOK
<1> HIDE DEF k, r
<1>6. rows' \in [Target -> [Cap -> Opt(Row)]]
  BY <1>1, <1>2, <1>3, <1>4, UpsertOK DEF Tables
<1>7. outcome' \in [Target -> [Cap -> {"none", "ok", "warned", "failed"}]]
  BY <1>1, <1>2, <1>4 DEF Tables
<1>8. Tables'
  BY <1>1, <1>4, <1>6, <1>7 DEF Tables
<1> QED
  BY <1>4, <1>5, <1>8, CallSet

\* The enabled flag, step by step.
LEMMA EnabledTyped ==
    ASSUME Typed, NEW p \in Proc,
           EnabledGetDevice(p) \/ EnabledGetTemplate(p) \/ EnabledGetState(p)
    PROVE  Typed'
<1> DEFINE k == call[p]
<1>1. Tables /\ CallOK(k) /\ DOMAIN call = Proc
  BY DEF Typed
<1>2. Tables' /\ sync' = sync
  BY TablesKept DEF EnabledGetDevice, EnabledGetTemplate, EnabledGetState, Typed
<1>3. CASE EnabledGetDevice(p)
  <2> DEFINE new == [k EXCEPT !.pc = "enTemplate"]
  <2>1. k.pc = "enDevice" /\ (Return(p) \/ call' = [call EXCEPT ![p] = new])
    BY <1>3 DEF EnabledGetDevice, Goto
  <2> HIDE DEF k
  <2>2. CallOK(new)
    BY <1>1, <2>1 DEF CallOK, Call, SettingState, SettingEnabled
  <2> HIDE DEF new
  <2> QED
    BY <1>2, <2>1, <2>2, ReturnOK, CallSet DEF k
<1>4. CASE EnabledGetTemplate(p) /\ ~Return(p)
  <2> DEFINE tm == templates[k.c]
             new == [k EXCEPT !.tmpl = tm, !.pc = "enState"]
  <2>1. k.pc = "enTemplate" /\ tm # None /\ call' = [call EXCEPT ![p] = new]
    BY <1>1, <1>4 DEF EnabledGetTemplate
  <2>2. tm \in Template
    BY <1>1, <2>1 DEF Tables, CallOK, Opt
  <2> HIDE DEF k, tm
  <2>3. CallOK(new)
    BY <1>1, <2>1, <2>2 DEF CallOK, Call, SettingState, SettingEnabled, Opt
  <2> HIDE DEF new
  <2> QED
    BY <1>2, <2>1, <2>3, CallSet
<1>5. CASE EnabledGetState(p)
  <2> DEFINE cur == currentCapabilityState(k.t, k.c, k.tmpl.default)
             new == [k EXCEPT !.pc = "enPersist", !.cur = cur]
  <2>1. k.pc = "enState" /\ call' = [call EXCEPT ![p] = new]
    BY <1>1, <1>5 DEF EnabledGetState
  <2> HIDE DEF k
  <2>2. k.c \in Cap /\ k.t \in Target /\ k.tmpl \in Template
    BY <1>1, <2>1 DEF CallOK, Call
  <2>3. cur \in Row
    BY <1>1, <2>2, CurrentOK
  <2> HIDE DEF cur
  <2>4. CallOK(new)
    BY <1>1, <2>1, <2>3 DEF CallOK, Call, SettingState, SettingEnabled, Opt
  <2> HIDE DEF new
  <2> QED
    BY <1>2, <2>1, <2>4, CallSet DEF k
<1> QED
  BY <1>2, <1>3, <1>4, <1>5, ReturnOK

LEMMA EnabledPersistTyped == ASSUME Typed, NEW p \in Proc, EnabledPersist(p) PROVE Typed'
<1> DEFINE k == call[p]
           r == [enabled |-> k.enable, state |-> k.cur.state]
<1>1. Tables /\ CallOK(k) /\ k.pc = "enPersist"
  BY DEF Typed, EnabledPersist
<1>2. k.c \in Cap /\ k.t \in Target /\ k.enable \in BOOLEAN /\ k.cur \in Row
  BY <1>1 DEF CallOK, Call, SettingEnabled
<1>3. r \in Row
  BY <1>2 DEF Row
<1>4. /\ rows' = [rows EXCEPT ![k.t][k.c] = r] /\ Return(p) /\ sync' = sync
      /\ UNCHANGED <<templates, router, known, edit, outcome, churn, faults>>
  BY DEF EnabledPersist, Upsert
<1> HIDE DEF k, r
<1>5. Tables'
  BY <1>1, <1>2, <1>3, <1>4, UpsertOK DEF Tables
<1> QED
  BY <1>4, <1>5, ReturnOK

LEMMA CallFailsTyped == ASSUME Typed, NEW p \in Proc, CallFails(p) PROVE Typed'
<1> DEFINE k == call[p]
<1>1. Tables /\ CallOK(k) /\ k.pc # "idle"
  BY DEF Typed, CallFails
<1>2. k.c \in Cap /\ k.t \in Target
  BY <1>1 DEF CallOK, Call
<1>3. /\ outcome' \in {outcome, [outcome EXCEPT ![k.t][k.c] = "failed"]} /\ Return(p) /\ sync' = sync
      /\ UNCHANGED <<templates, rows, router, known, edit, churn>>
  BY DEF CallFails
<1>4. faults' \in Nat
  BY <1>1, FaultOK DEF CallFails, Tables
<1> HIDE DEF k
<1>5. outcome' \in [Target -> [Cap -> {"none", "ok", "warned", "failed"}]]
  <2>1. [outcome EXCEPT ![k.t][k.c] = "failed"]
           \in [Target -> [Cap -> {"none", "ok", "warned", "failed"}]]
    BY <1>1, <1>2 DEF Tables
  <2> QED
    BY <1>1, <1>3, <2>1 DEF Tables
<1>6. Tables'
  BY <1>1, <1>3, <1>4, <1>5 DEF Tables
<1> QED
  BY <1>3, <1>6, ReturnOK

LEMMA PatchTyped ==
    ASSUME Typed, NEW p \in Requests, NEW t \in Target, NEW c \in Cap, NEW want \in Opt(State),
           NEW enable \in Opt(BOOLEAN), Patch(p, t, c, want, enable)
    PROVE  Typed'
<1> DEFINE k == Begin(t, c, want, enable)
           set == [k EXCEPT !.pc = "getTemplate"]
<1>1. CallOK(k) /\ k.c \in Cap /\ k.want = want
  BY BeginsOK
<1>2. call' = [call EXCEPT ![p] = IF want # None THEN set ELSE EnabledPhase(k)]
  BY DEF Patch
<1>3. CallOK(EnabledPhase(k))
  BY <1>1, EnabledPhaseOK
<1>4. want # None => CallOK(set)
  <2> HIDE DEF k
  <2> QED
    BY <1>1, StartsOK DEF Opt
<1> HIDE DEF k, set
<1>5. Tables' /\ sync' = sync /\ p \in Proc
  BY OutsideOK DEF Patch, Typed, Tables, Proc
<1> QED
  BY <1>2, <1>3, <1>4, <1>5, CallSet

\* The sync loop, step by step.
LEMMA SyncListTyped ==
    ASSUME Typed, SyncListTemplates \/ SyncTemplateDone \/ SyncReturns \/ SyncApplied \/ SyncSkips
    PROVE  Typed'
<1>1. Tables /\ SyncOK(sync)
  BY DEF Typed
<1>2. /\ call' = call /\ churn' = churn
      /\ UNCHANGED <<templates, rows, router, known, edit, outcome>> /\ (UNCHANGED faults \/ Fault)
  BY DEF SyncListTemplates, SyncTemplateDone, SyncReturns, SyncApplied, SyncSkips
<1>3. Tables'
  BY <1>1, <1>2, FaultOK DEF Tables
<1>4. CASE SyncListTemplates
  <2> DEFINE l == [c \in Cap |-> IF templates[c] # None /\ templates[c].sync # None
                                 THEN templates[c] ELSE None]
  <2>1. l \in [Cap -> Opt(Template)] /\ \A c \in Cap : l[c] # None => l[c].sync # None
    BY <1>1 DEF Tables, Opt
  <2>2. sync' = [NoSync EXCEPT !.pc = "template", !.listed = l]
    BY <1>4 DEF SyncListTemplates
  <2> HIDE DEF l
  <2>3. SyncOK(sync')
    BY <2>1, <2>2 DEF SyncOK, SyncCall, NoSync, Target, Opt
  <2> QED
    BY <1>2, <1>3, <2>3, CallsKept
<1>5. CASE SyncTemplateDone
  <2>1. SyncOK(sync')
    BY <1>1, <1>5 DEF SyncTemplateDone, SyncOK, SyncCall, Opt
  <2> QED
    BY <1>2, <1>3, <2>1, CallsKept
<1>6. CASE SyncReturns
  <2>1. SyncOK(sync')
    BY <1>6, NoSyncOK DEF SyncReturns
  <2> QED
    BY <1>2, <1>3, <2>1, CallsKept
<1>7. CASE SyncApplied \/ SyncSkips
  <2>1. sync' = NextTarget /\ sync.pc \in {"source", "persist", "apply"}
    BY <1>7 DEF SyncApplied, SyncSkips
  <2>2. SyncOK(sync')
    BY <1>1, <2>1 DEF NextTarget, SyncOK, SyncCall, Target, Opt
  <2> QED
    BY <1>2, <1>3, <2>2, CallsKept
<1> QED
  BY <1>4, <1>5, <1>6, <1>7

LEMMA SyncTargetsTyped == ASSUME Typed, NEW c \in Cap, SyncTargets(c) PROVE Typed'
<1>1. Tables /\ SyncOK(sync)
  BY DEF Typed
<1> DEFINE tm == sync.listed[c]
           T == IF tm.scope = "global" THEN {Global} ELSE known
<1>2. tm \in Template /\ tm.sync # None /\ T \subseteq Target /\ sync \in SyncCall
  BY <1>1 DEF SyncTargets, SyncOK, SyncCall, Tables, Target, Opt
<1>3. sync' = [sync EXCEPT !.pc = "target", !.c = c, !.tmpl = tm, !.listed[c] = None, !.targets = T]
  BY DEF SyncTargets
<1> HIDE DEF tm, T
<1>4. SyncOK(sync')
  BY <1>1, <1>2, <1>3 DEF SyncOK, SyncCall, Opt
<1>5. Tables' /\ call' = call
  BY <1>1, TablesKept DEF SyncTargets
<1> QED
  BY <1>4, <1>5, CallsKept

LEMMA SyncReadStateTyped == ASSUME Typed, NEW t \in Target, SyncReadState(t) PROVE Typed'
<1>1. Tables /\ SyncOK(sync) /\ sync.pc = "target"
  BY DEF Typed, SyncReadState
<1> DEFINE cur == currentCapabilityState(t, sync.c, sync.tmpl.default)
<1>2. cur \in Row
  BY <1>1, CurrentOK DEF SyncOK
<1>3. \/ sync' = [sync EXCEPT !.pc = "source", !.t = t, !.cur = cur, !.targets = @ \ {t}]
      \/ sync' = [sync EXCEPT !.targets = @ \ {t}]
  BY DEF SyncReadState
<1> HIDE DEF cur
<1>4. SyncOK(sync')
  BY <1>1, <1>2, <1>3 DEF SyncOK, SyncCall, Opt
<1>5. Tables' /\ call' = call
  BY <1>1, TablesKept DEF SyncReadState
<1> QED
  BY <1>4, <1>5, CallsKept

LEMMA SyncReadSourceTyped == ASSUME Typed, SyncReadSource PROVE Typed'
<1> DEFINE want == MappedState(sync.tmpl.sync, router[sync.t][sync.tmpl.sync.fact])
           b == Begin(sync.t, sync.c, want, None)
           k == [b EXCEPT !.pc = "getTemplate"]
<1>1. Tables /\ SyncOK(sync) /\ sync.pc = "source"
  BY DEF Typed, SyncReadSource
<1>2. sync.t \in Target /\ sync.c \in Cap /\ sync.tmpl \in Template /\ sync.tmpl.sync \in SyncConfig
      /\ sync \in SyncCall
  BY <1>1 DEF SyncOK, SyncCall, Template, Opt
<1>3. want \in Opt(State)
  BY <1>2 DEF MappedState, SyncConfig
<1>4. Tables'
  BY <1>1, TablesKept DEF SyncReadSource
<1>5. \/ sync' = NextTarget /\ call' = call
      \/ /\ want # None /\ sync' = [sync EXCEPT !.pc = "persist", !.want = want] /\ call' = call
      \/ /\ want # None /\ sync' = [sync EXCEPT !.pc = "apply", !.want = want]
         /\ call' = [call EXCEPT ![Sync] = k]
  BY DEF SyncReadSource, NeedsChange
<1> HIDE DEF want
<1>6. want # None => CallOK(k)
  <2>1. CallOK(b) /\ b.c \in Cap /\ b.want = want
    BY <1>2, <1>3, BeginsOK DEF Opt
  <2> HIDE DEF b
  <2> QED
    BY <1>3, <2>1, StartsOK DEF Opt
<1>7. SyncOK(sync')
  <2>1. SyncOK(NextTarget)
    BY <1>1, <1>2 DEF NextTarget, SyncOK, SyncCall, Target, Opt
  <2>2. want # None => /\ SyncOK([sync EXCEPT !.pc = "persist", !.want = want])
                       /\ SyncOK([sync EXCEPT !.pc = "apply", !.want = want])
    BY <1>1, <1>2, <1>3 DEF SyncOK, SyncCall, Opt
  <2> QED
    BY <1>5, <2>1, <2>2
<1> HIDE DEF k
<1>8. call' \in [Proc -> Call] /\ \A p \in Proc : CallOK(call'[p])
  <2>1. want # None => k \in Call
    BY <1>6 DEF CallOK
  <2> QED
    BY <1>5, <1>6, <2>1 DEF Typed
<1> QED
  BY <1>4, <1>7, <1>8 DEF Typed

LEMMA SyncPersistTyped == ASSUME Typed, SyncPersist PROVE Typed'
<1> DEFINE r == [sync.cur EXCEPT !.state = sync.want]
<1>1. Tables /\ SyncOK(sync) /\ sync.pc = "persist"
  BY DEF Typed, SyncPersist
<1>2. sync.t \in Target /\ sync.c \in Cap /\ r \in Row
  BY <1>1 DEF SyncOK, SyncCall, Row
<1>3. /\ rows' = [rows EXCEPT ![sync.t][sync.c] = r] /\ sync' = NextTarget /\ call' = call
      /\ UNCHANGED <<templates, router, known, edit, outcome, churn, faults>>
  BY DEF SyncPersist, Upsert
<1> HIDE DEF r
<1>4. Tables'
  BY <1>1, <1>2, <1>3, UpsertOK DEF Tables
<1>5. SyncOK(sync')
  BY <1>1, <1>3 DEF NextTarget, SyncOK, SyncCall, Target, Opt
<1> QED
  BY <1>3, <1>4, <1>5, CallsKept

\* Templates, the router and the devices change from outside.
LEMMA EditTyped ==
    ASSUME Typed,
           \/ \E c \in Cap, tm \in churn.payload :
                CreateCapability(c, tm) \/ UpdateCapability(c, tm) \/ UpdateReadsSync(c, tm)
           \/ UpdateWrites \/ \E c \in Cap : DeleteCapability(c)
    PROVE  Typed'
<1>1. Tables /\ SyncOK(sync) /\ churn \in Churn
  BY DEF Typed, Tables
<1>2. /\ UNCHANGED <<rows, router, known, call, sync, outcome, faults>>
      /\ churn' = churn \/ Outside("template")
  BY DEF CreateCapability, UpdateCapability, UpdateReadsSync, UpdateWrites, DeleteCapability
<1>3. churn' \in Churn
  BY <1>1, <1>2, OutsideOK
<1>4. templates' \in [Cap -> Opt(Template)] /\ edit' \in Opt([c : Cap, tmpl : Template])
  <2>1. ASSUME NEW c \in Cap, NEW tm \in churn.payload, CreateCapability(c, tm) \/ UpdateCapability(c, tm)
        PROVE  templates' \in [Cap -> Opt(Template)] /\ edit' = edit
    <3>1. tm \in Template
      BY <1>1 DEF Churn
    <3>2. templates' = [templates EXCEPT ![c] = tm] /\ edit' = edit
      BY <2>1 DEF CreateCapability, UpdateCapability
    <3> QED
      BY <1>1, <3>1, <3>2 DEF Tables, Opt
  <2>2. ASSUME NEW c \in Cap, NEW tm \in churn.payload, UpdateReadsSync(c, tm)
        PROVE  templates' = templates /\ edit' \in Opt([c : Cap, tmpl : Template])
    <3>1. tm \in Template /\ templates[c] \in Template
      BY <1>1, <2>2 DEF Churn, Tables, UpdateReadsSync, Opt
    <3> DEFINE merged == [tm EXCEPT !.sync = templates[c].sync]
    <3>2. merged \in Template
      BY <3>1 DEF Template
    <3>3. edit' = [c |-> c, tmpl |-> merged] /\ templates' = templates
      BY <2>2 DEF UpdateReadsSync
    <3> HIDE DEF merged
    <3> QED
      BY <3>2, <3>3 DEF Opt
  <2>3. CASE UpdateWrites
    BY <1>1, <2>3 DEF UpdateWrites, Tables, Opt
  <2>4. ASSUME NEW c \in Cap, DeleteCapability(c)
        PROVE  templates' \in [Cap -> Opt(Template)] /\ edit' = edit
    BY <1>1, <2>4 DEF DeleteCapability, Tables, Opt
  <2> QED
    BY <1>1, <2>1, <2>2, <2>3, <2>4 DEF Tables
<1>5. Tables'
  BY <1>1, <1>2, <1>3, <1>4 DEF Tables
<1> QED
  BY <1>1, <1>2, <1>5, CallsKept

LEMMA WorldTyped ==
    ASSUME Typed,
           \/ \E t \in Target, f \in Fact : RouterChanges(t, f)
           \/ \E d \in Device : DeviceComesOrGoes(d)
    PROVE  Typed'
<1>1. Tables /\ SyncOK(sync) /\ churn \in Churn
  BY DEF Typed, Tables
<1>2. /\ UNCHANGED <<templates, rows, edit, call, sync, outcome, faults>>
      /\ Outside("router") \/ Outside("device")
  BY DEF RouterChanges, DeviceComesOrGoes
<1>3. churn' \in Churn
  BY <1>1, <1>2, OutsideOK
<1>4. router' \in [Target -> [Fact -> BOOLEAN]] /\ known' \subseteq Device
  <2>1. ASSUME NEW t \in Target, NEW f \in Fact, RouterChanges(t, f)
        PROVE  router' \in [Target -> [Fact -> BOOLEAN]] /\ known' = known
    BY <1>1, <2>1 DEF RouterChanges, Tables
  <2>2. ASSUME NEW d \in Device, DeviceComesOrGoes(d)
        PROVE  router' = router /\ known' \subseteq Device
    BY <1>1, <2>2 DEF DeviceComesOrGoes, Tables
  <2> QED
    BY <1>1, <2>1, <2>2 DEF Tables
<1>5. Tables'
  BY <1>1, <1>2, <1>3, <1>4 DEF Tables
<1> QED
  BY <1>1, <1>2, <1>5, CallsKept

LEMMA NextTyped == Typed /\ [Next]_vars => Typed'
<1> SUFFICES ASSUME Typed, [Next]_vars PROVE Typed'
  OBVIOUS
<1>1. ASSUME NEW p \in Proc, CallStep(p) \/ ActionWarns(p) \/ CallFails(p) PROVE Typed'
  BY <1>1, GetTemplateTyped, GetDeviceTyped, GetStateTyped, ActTyped, PersistTyped, EnabledTyped,
     EnabledPersistTyped, CallFailsTyped DEF CallStep
<1>2. CASE SyncStep \/ SyncSkips
  BY <1>2, SyncListTyped, SyncTargetsTyped, SyncReadStateTyped, SyncReadSourceTyped, SyncPersistTyped
     DEF SyncStep
<1>3. CASE UNCHANGED vars
  <2>1. Tables' /\ call' = call /\ sync' = sync
    BY <1>3, TablesKept DEF vars, Typed
  <2> QED
    BY <2>1, CallsKept DEF Typed
<1> QED
  BY <1>1, <1>2, <1>3, PatchTyped, EditTyped, WorldTyped DEF Next

LEMMA InitTyped == Init => Typed
<1> SUFFICES ASSUME Init PROVE Typed
  OBVIOUS
<1>1. churn \in Churn
  BY AutomationAssumption DEF Init
<1>2. templates \in [Cap -> Opt(Template)]
  BY <1>1 DEF Init, Churn, Opt
<1>3. Tables
  BY <1>1, <1>2 DEF Init, Tables, Opt
<1>4. call \in [Proc -> Call] /\ (\A p \in Proc : CallOK(call[p])) /\ SyncOK(sync)
  BY NoCallOK, NoSyncOK DEF Init, CallOK
<1> QED
  BY <1>3, <1>4 DEF Typed

LEMMA AlwaysTyped == Spec => []Typed
BY InitTyped, NextTyped, PTL DEF Spec

\* The tables, the calls in flight and the sync loop keep their types, for any
\* number of requests and any interleaving.
THEOREM TypeCorrect == Spec => []TypeOK
<1>1. Typed => TypeOK
  <2> SUFFICES ASSUME Typed PROVE TypeOK
    OBVIOUS
  <2>1. call \in [Proc -> Call] /\ sync \in SyncCall
    BY DEF Typed, SyncOK
  <2> QED
    BY <2>1 DEF Typed, Tables, TypeOK
<1> QED
  BY AlwaysTyped, <1>1, PTL

-----------------------------------------------------------------------------
(***************************************************************************)
(* Stored states are declared ones.                                        *)
(***************************************************************************)

\* Clients do not change which states a capability has: every template that is
\* ever stored for c has the states D[c].
StatesKept(D) == \A c \in Cap : templates[c] # None => templates[c].states = D[c]

\* A template that has been validated and has the states S.
Fits(tm, S) == validateTemplate(tm) /\ tm.states = S

CallDeclared(k, D) ==
    /\ k.tmpl # None => Fits(k.tmpl, D[k.c])
    /\ k.pc \in {"getDevice", "getState", "act"} => k.want \in D[k.c]
    /\ k.pc = "enPersist" => k.cur.state \in D[k.c]
SyncDeclared(s, D) ==
    /\ \A c \in Cap : s.listed[c] # None => Fits(s.listed[c], D[c])
    /\ s.tmpl # None => Fits(s.tmpl, D[s.c])
    /\ s.pc = "persist" => s.want \in D[s.c]
RowsDeclared(r, D) == \A t \in Target, c \in Cap : r[t][c] # None => r[t][c].state \in D[c]
TemplatesFit(ts, D) == \A c \in Cap : ts[c] # None => Fits(ts[c], D[c])

\* Every template and state that is stored, listed or held by a call.
AllDeclared(D) ==
    /\ TemplatesFit(templates, D) /\ RowsDeclared(rows, D)
    /\ edit # None => validateTemplate(edit.tmpl)
    /\ (\A p \in Proc : CallDeclared(call[p], D)) /\ SyncDeclared(sync, D)

LEMMA CurrentDeclared ==
    ASSUME NEW D, RowsDeclared(rows, D), NEW t \in Target, NEW c \in Cap, NEW tm, Fits(tm, D[c])
    PROVE  currentCapabilityState(t, c, tm.default).state \in D[c]
<1>1. CASE rows[t][c] = None
  BY <1>1 DEF currentCapabilityState, Fits, validateTemplate
<1>2. CASE rows[t][c] # None
  BY <1>2 DEF currentCapabilityState, RowsDeclared
<1> QED
  BY <1>1, <1>2

\* A call of which one record changes, and nothing else but the router.
LEMMA CallDeclaredSet ==
    ASSUME NEW D, AllDeclared(D), Typed, NEW p \in Proc, NEW k, CallDeclared(k, D),
           call' = [call EXCEPT ![p] = k], RowsDeclared(rows', D),
           templates' = templates, edit' = edit, sync' = sync
    PROVE  AllDeclared(D)'
<1>1. \A q \in Proc : CallDeclared(call'[q], D)
  BY DEF AllDeclared, Typed
<1> QED
  BY <1>1 DEF AllDeclared

LEMMA NoCallDeclared == \A D : CallDeclared(NoCall, D)
BY DEF CallDeclared, NoCall

LEMMA EnabledPhaseDeclared ==
    ASSUME NEW D, NEW k, CallOK(k), CallDeclared(k, D)
    PROVE  CallDeclared(EnabledPhase(k), D)
<1>1. CASE k.enable = None
  BY <1>1, NoCallDeclared DEF EnabledPhase
<1>2. CASE k.enable # None
  BY <1>2 DEF EnabledPhase, CallOK, Call, CallDeclared
<1> QED
  BY <1>1, <1>2

LEMMA RowDeclared ==
    ASSUME NEW D, RowsDeclared(rows, D), Tables, NEW t \in Target, NEW c \in Cap, NEW r,
           r.state \in D[c]
    PROVE  RowsDeclared([rows EXCEPT ![t][c] = r], D)
<1>1. \A u \in Target, d \in Cap :
        [rows EXCEPT ![t][c] = r][u][d] = IF u = t /\ d = c THEN r ELSE rows[u][d]
  BY DEF Tables
<1> QED
  BY <1>1 DEF RowsDeclared

LEMMA CallStepDeclared ==
    ASSUME NEW D, AllDeclared(D), Typed, NEW p \in Proc,
           CallStep(p) \/ ActionWarns(p) \/ CallFails(p)
    PROVE  AllDeclared(D)'
<1> DEFINE k == call[p]
<1>1. Tables /\ CallOK(k) /\ CallDeclared(k, D) /\ call \in [Proc -> Call]
  BY DEF Typed, AllDeclared
<1>2. TemplatesFit(templates, D) /\ RowsDeclared(rows, D)
  BY DEF AllDeclared
<1>3. templates' = templates /\ edit' = edit /\ sync' = sync
  BY DEF CallStep, GetTemplate, GetDevice, GetState, ExecuteAction, PersistState, EnabledGetDevice,
         EnabledGetTemplate, EnabledGetState, EnabledPersist, ActionWarns, CallFails
<1>4. ASSUME NEW r, CallDeclared(r, D), call' = [call EXCEPT ![p] = r], RowsDeclared(rows', D)
      PROVE  AllDeclared(D)'
  BY <1>3, <1>4, CallDeclaredSet
<1>5. ASSUME Return(p), RowsDeclared(rows', D) PROVE AllDeclared(D)'
  BY <1>4, <1>5, NoCallDeclared DEF Return
<1>6. CASE GetTemplate(p)
  <2> DEFINE tm == templates[k.c]
             new == [k EXCEPT !.tmpl = tm, !.pc = IF k.t = Global THEN "getState" ELSE "getDevice"]
  <2>1. k.pc = "getTemplate" /\ rows' = rows /\ k.c \in Cap
    BY <1>1, <1>6 DEF GetTemplate, CallOK
  <2>2. \/ Return(p)
        \/ tm # None /\ k.want \in tm.states /\ call' = [call EXCEPT ![p] = new]
    BY <1>1, <1>6 DEF GetTemplate
  <2>3. tm # None => Fits(tm, D[k.c])
    BY <1>2, <2>1 DEF TemplatesFit
  <2> HIDE DEF tm
  <2>4. tm # None /\ k.want \in tm.states => k.want \in D[k.c]
    BY <2>3 DEF Fits
  <2> HIDE DEF k
  <2>5. tm # None /\ k.want \in tm.states => CallDeclared(new, D)
    BY <1>1, <2>3, <2>4 DEF CallDeclared, CallOK, Call
  <2> HIDE DEF new
  <2> QED
    BY <1>2, <1>4, <1>5, <2>1, <2>2, <2>5
<1>7. CASE GetDevice(p)
  <2> DEFINE new == [k EXCEPT !.pc = "getState"]
  <2>1. /\ k.pc = "getDevice" /\ rows' = rows
        /\ Return(p) \/ call' = [call EXCEPT ![p] = new]
    BY <1>7 DEF GetDevice, Goto
  <2> HIDE DEF k
  <2>2. CallDeclared(new, D)
    BY <1>1, <2>1 DEF CallDeclared, CallOK, Call
  <2> HIDE DEF new
  <2> QED
    BY <1>2, <1>4, <1>5, <2>1, <2>2
<1>8. CASE GetState(p)
  <2> DEFINE cur == currentCapabilityState(k.t, k.c, k.tmpl.default)
             new == [k EXCEPT !.pc = "act", !.cur = cur, !.todo = k.tmpl.actions[k.want]]
  <2>1. /\ k.pc = "getState" /\ rows' = rows
        /\ call' = [call EXCEPT ![p] =
                      IF cur.enabled /\ cur.state = k.want THEN EnabledPhase(k) ELSE new]
    BY <1>8 DEF GetState
  <2> HIDE DEF k, cur
  <2>2. CallDeclared(new, D)
    BY <1>1, <2>1 DEF CallDeclared, CallOK, Call
  <2>3. CallDeclared(EnabledPhase(k), D)
    BY <1>1, EnabledPhaseDeclared
  <2> HIDE DEF new
  <2> QED
    BY <1>2, <1>4, <2>1, <2>2, <2>3
<1>9. CASE ExecuteAction(p) \/ ActionWarns(p)
  <2>1. k.pc = "act" /\ rows' = rows
    BY <1>9 DEF ExecuteAction, ActionWarns
  <2>2. \/ call' = [call EXCEPT ![p] = [k EXCEPT !.todo = Tail(k.todo)]]
        \/ call' = [call EXCEPT ![p] = [k EXCEPT !.todo = Tail(k.todo), !.warned = TRUE]]
    BY <1>1, <1>9 DEF ExecuteAction, ActionWarns, AfterWarning
  <2> HIDE DEF k
  <2>3. /\ CallDeclared([k EXCEPT !.todo = Tail(k.todo)], D)
        /\ CallDeclared([k EXCEPT !.todo = Tail(k.todo), !.warned = TRUE], D)
    BY <1>1, <2>1 DEF CallDeclared, CallOK, Call
  <2> QED
    BY <1>2, <1>4, <2>1, <2>2, <2>3
<1>10. CASE PersistState(p)
  <2> DEFINE r == [enabled |-> TRUE, state |-> k.want]
  <2>1. /\ k.pc = "act" /\ rows' = [rows EXCEPT ![k.t][k.c] = r]
        /\ call' = [call EXCEPT ![p] = EnabledPhase(k)]
    BY <1>10 DEF PersistState, Upsert
  <2>2. r.state \in D[k.c] /\ k.t \in Target /\ k.c \in Cap
    BY <1>1, <2>1 DEF CallDeclared, CallOK, Call
  <2>3. CallDeclared(EnabledPhase(k), D)
    BY <1>1, EnabledPhaseDeclared
  <2> HIDE DEF r, k
  <2>4. RowsDeclared(rows', D)
    BY <1>1, <1>2, <2>1, <2>2, RowDeclared
  <2> QED
    BY <1>4, <2>1, <2>3, <2>4
<1>11. CASE EnabledGetDevice(p)
  <2> DEFINE new == [k EXCEPT !.pc = "enTemplate"]
  <2>1. /\ k.pc = "enDevice" /\ rows' = rows
        /\ Return(p) \/ call' = [call EXCEPT ![p] = new]
    BY <1>11 DEF EnabledGetDevice, Goto
  <2> HIDE DEF k
  <2>2. CallDeclared(new, D)
    BY <1>1, <2>1 DEF CallDeclared, CallOK, Call
  <2> HIDE DEF new
  <2> QED
    BY <1>2, <1>4, <1>5, <2>1, <2>2
<1>12. CASE EnabledGetTemplate(p)
  <2> DEFINE tm == templates[k.c]
             new == [k EXCEPT !.tmpl = tm, !.pc = "enState"]
  <2>1. k.pc = "enTemplate" /\ rows' = rows /\ k.c \in Cap
    BY <1>1, <1>12 DEF EnabledGetTemplate, CallOK
  <2>2. Return(p) \/ (tm # None /\ call' = [call EXCEPT ![p] = new])
    BY <1>1, <1>12 DEF EnabledGetTemplate
  <2>3. tm # None => Fits(tm, D[k.c])
    BY <1>2, <2>1 DEF TemplatesFit
  <2> HIDE DEF tm, k
  <2>4. tm # None => CallDeclared(new, D)
    BY <1>1, <2>1, <2>3 DEF CallDeclared, CallOK, Call
  <2> HIDE DEF new
  <2> QED
    BY <1>2, <1>4, <1>5, <2>1, <2>2, <2>4
<1>13. CASE EnabledGetState(p)
  <2> DEFINE cur == currentCapabilityState(k.t, k.c, k.tmpl.default)
             new == [k EXCEPT !.pc = "enPersist", !.cur = cur]
  <2>1. k.pc = "enState" /\ rows' = rows /\ call' = [call EXCEPT ![p] = new]
    BY <1>1, <1>13 DEF EnabledGetState
  <2> HIDE DEF k
  <2>2. k.t \in Target /\ k.c \in Cap /\ Fits(k.tmpl, D[k.c])
    BY <1>1, <2>1, Absent DEF CallOK, Call, CallDeclared
  <2>3. cur.state \in D[k.c]
    BY <1>2, <2>2, CurrentDeclared
  <2> HIDE DEF cur
  <2>4. CallDeclared(new, D)
    BY <1>1, <2>1, <2>3 DEF CallDeclared, CallOK, Call
  <2> HIDE DEF new
  <2> QED
    BY <1>2, <1>4, <2>1, <2>4
<1>14. CASE EnabledPersist(p)
  <2> DEFINE r == [enabled |-> k.enable, state |-> k.cur.state]
  <2>1. k.pc = "enPersist" /\ rows' = [rows EXCEPT ![k.t][k.c] = r] /\ Return(p)
    BY <1>14 DEF EnabledPersist, Upsert
  <2>2. r.state \in D[k.c] /\ k.t \in Target /\ k.c \in Cap
    BY <1>1, <2>1 DEF CallDeclared, CallOK, Call
  <2> HIDE DEF r, k
  <2>3. RowsDeclared(rows', D)
    BY <1>1, <1>2, <2>1, <2>2, RowDeclared
  <2> QED
    BY <1>5, <2>1, <2>3
<1>15. CASE CallFails(p)
  BY <1>2, <1>5, <1>15 DEF CallFails
<1> QED
  BY <1>6, <1>7, <1>8, <1>9, <1>10, <1>11, <1>12, <1>13, <1>14, <1>15 DEF CallStep

LEMMA PatchDeclared ==
    ASSUME NEW D, AllDeclared(D), Typed, NEW p \in Requests, NEW t \in Target, NEW c \in Cap,
           NEW want \in Opt(State), NEW enable \in Opt(BOOLEAN), Patch(p, t, c, want, enable)
    PROVE  AllDeclared(D)'
<1> DEFINE k == Begin(t, c, want, enable)
           set == [k EXCEPT !.pc = "getTemplate"]
<1>1. CallOK(k) /\ CallDeclared(k, D)
  <2>1. k.tmpl = None /\ k.pc = "idle"
    BY DEF Begin, NoCall
  <2> QED
    BY <2>1, BeginsOK DEF CallDeclared
<1>2. call' = [call EXCEPT ![p] = IF want # None THEN set ELSE EnabledPhase(k)]
  BY DEF Patch
<1> HIDE DEF k
<1>3. CallDeclared(EnabledPhase(k), D)
  BY <1>1, EnabledPhaseDeclared
<1>4. CallDeclared(set, D)
  BY <1>1 DEF CallDeclared, CallOK, Call
<1> HIDE DEF set
<1>5. templates' = templates /\ rows' = rows /\ edit' = edit /\ sync' = sync /\ p \in Proc
  BY DEF Patch, Proc
<1> QED
  BY <1>2, <1>3, <1>4, <1>5, CallDeclaredSet DEF AllDeclared

\* The sync loop: what it lists, what it holds and what it writes.
LEMMA SyncDeclaredSet ==
    ASSUME NEW D, AllDeclared(D), SyncDeclared(sync', D), RowsDeclared(rows', D),
           templates' = templates, edit' = edit, call' = call
    PROVE  AllDeclared(D)'
BY DEF AllDeclared

LEMMA NextTargetDeclared ==
    ASSUME NEW D, SyncOK(sync), SyncDeclared(sync, D)
    PROVE  SyncDeclared(NextTarget, D)
BY DEF NextTarget, SyncOK, SyncCall, SyncDeclared

LEMMA SyncWalkDeclared ==
    ASSUME NEW D, AllDeclared(D), Typed,
           SyncListTemplates \/ SyncTemplateDone \/ SyncReturns \/ SyncApplied \/ SyncSkips
    PROVE  AllDeclared(D)'
<1>1. /\ templates' = templates /\ rows' = rows /\ edit' = edit /\ call' = call
  BY DEF SyncListTemplates, SyncTemplateDone, SyncReturns, SyncApplied, SyncSkips
<1>2. SyncOK(sync) /\ SyncDeclared(sync, D) /\ TemplatesFit(templates, D) /\ RowsDeclared(rows, D)
  BY DEF Typed, AllDeclared
<1> SUFFICES SyncDeclared(sync', D)
  BY <1>1, <1>2, SyncDeclaredSet
<1>3. CASE SyncListTemplates
  <2> DEFINE l == [c \in Cap |-> IF templates[c] # None /\ templates[c].sync # None
                                 THEN templates[c] ELSE None]
  <2>1. \A c \in Cap : l[c] # None => Fits(l[c], D[c])
    BY <1>2 DEF TemplatesFit
  <2>2. sync' = [NoSync EXCEPT !.pc = "template", !.listed = l]
    BY <1>3 DEF SyncListTemplates
  <2> HIDE DEF l
  <2> QED
    BY <2>1, <2>2 DEF SyncDeclared, NoSync
<1>4. CASE SyncTemplateDone
  BY <1>2, <1>4 DEF SyncTemplateDone, SyncOK, SyncCall, SyncDeclared
<1>5. CASE SyncReturns
  BY <1>5 DEF SyncReturns, SyncDeclared, NoSync
<1>6. CASE SyncApplied \/ SyncSkips
  BY <1>2, <1>6, NextTargetDeclared DEF SyncApplied, SyncSkips
<1> QED
  BY <1>3, <1>4, <1>5, <1>6

LEMMA SyncTargetsDeclared ==
    ASSUME NEW D, AllDeclared(D), Typed, NEW c \in Cap, SyncTargets(c)
    PROVE  AllDeclared(D)'
<1> DEFINE tm == sync.listed[c]
           T == IF tm.scope = "global" THEN {Global} ELSE known
<1>1. SyncOK(sync) /\ SyncDeclared(sync, D) /\ Fits(tm, D[c])
  BY DEF Typed, AllDeclared, SyncDeclared, SyncTargets
<1>2. sync' = [sync EXCEPT !.pc = "target", !.c = c, !.tmpl = tm, !.listed[c] = None, !.targets = T]
  BY DEF SyncTargets
<1> HIDE DEF tm, T
<1>3. SyncDeclared(sync', D)
  BY <1>1, <1>2 DEF SyncOK, SyncCall, SyncDeclared
<1> QED
  BY <1>3, SyncDeclaredSet DEF SyncTargets, AllDeclared

LEMMA SyncReadStateDeclared ==
    ASSUME NEW D, AllDeclared(D), Typed, NEW t \in Target, SyncReadState(t)
    PROVE  AllDeclared(D)'
<1> DEFINE cur == currentCapabilityState(t, sync.c, sync.tmpl.default)
<1>1. SyncOK(sync) /\ SyncDeclared(sync, D) /\ sync.pc = "target"
  BY DEF Typed, AllDeclared, SyncReadState
<1>2. \/ sync' = [sync EXCEPT !.pc = "source", !.t = t, !.cur = cur, !.targets = @ \ {t}]
      \/ sync' = [sync EXCEPT !.targets = @ \ {t}]
  BY DEF SyncReadState
<1> HIDE DEF cur
<1>3. SyncDeclared(sync', D)
  BY <1>1, <1>2 DEF SyncOK, SyncCall, SyncDeclared
<1> QED
  BY <1>3, SyncDeclaredSet DEF SyncReadState, AllDeclared

\* A router fact is mapped to a state of the template that was listed.
LEMMA SyncReadSourceDeclared ==
    ASSUME NEW D, AllDeclared(D), Typed, SyncReadSource
    PROVE  AllDeclared(D)'
<1> DEFINE want == MappedState(sync.tmpl.sync, router[sync.t][sync.tmpl.sync.fact])
           b == Begin(sync.t, sync.c, want, None)
           k == [b EXCEPT !.pc = "getTemplate"]
<1>1. SyncOK(sync) /\ SyncDeclared(sync, D) /\ sync.pc = "source" /\ sync \in SyncCall
  BY DEF Typed, AllDeclared, SyncReadSource, SyncOK
<1>2. /\ sync.t \in Target /\ sync.c \in Cap /\ sync.tmpl \in Template
      /\ sync.tmpl.sync \in SyncConfig /\ sync.tmpl.sync # None /\ sync.tmpl # None
  BY <1>1, Absent DEF SyncOK, SyncCall, Template, Opt
<1>3. want \in Opt(sync.tmpl.states) /\ sync.tmpl.states = D[sync.c]
  BY <1>1, <1>2 DEF MappedState, SyncDeclared, Fits, validateTemplate
<1>4. \/ sync' = NextTarget /\ call' = call
      \/ /\ want # None /\ sync' = [sync EXCEPT !.pc = "persist", !.want = want] /\ call' = call
      \/ /\ want # None /\ sync' = [sync EXCEPT !.pc = "apply", !.want = want]
         /\ call' = [call EXCEPT ![Sync] = k]
  BY DEF SyncReadSource, NeedsChange
<1>5. want \in Opt(State)
  BY <1>2, <1>3 DEF Template, Opt
<1> HIDE DEF want
<1>6. CallDeclared(k, D)
  <2>1. CallOK(b) /\ b.tmpl = None
    BY <1>2, <1>5, BeginsOK DEF Opt, Begin, NoCall
  <2> HIDE DEF b
  <2> QED
    BY <2>1 DEF CallDeclared, CallOK, Call
<1> HIDE DEF k
<1>7. \A p \in Proc : CallDeclared(call'[p], D)
  BY <1>4, <1>6 DEF AllDeclared, Typed
<1>8. SyncDeclared(sync', D)
  <2>1. SyncDeclared(NextTarget, D)
    BY <1>1, NextTargetDeclared
  <2>2. want # None => /\ SyncDeclared([sync EXCEPT !.pc = "persist", !.want = want], D)
                       /\ SyncDeclared([sync EXCEPT !.pc = "apply", !.want = want], D)
    BY <1>1, <1>3 DEF SyncDeclared, SyncCall, Opt
  <2> QED
    BY <1>4, <2>1, <2>2
<1> QED
  BY <1>7, <1>8 DEF SyncReadSource, AllDeclared

LEMMA SyncPersistDeclared ==
    ASSUME NEW D, AllDeclared(D), Typed, SyncPersist
    PROVE  AllDeclared(D)'
<1> DEFINE r == [sync.cur EXCEPT !.state = sync.want]
<1>1. Tables /\ SyncOK(sync) /\ SyncDeclared(sync, D) /\ sync.pc = "persist" /\ RowsDeclared(rows, D)
  BY DEF Typed, AllDeclared, SyncPersist
<1>2. sync.t \in Target /\ sync.c \in Cap /\ r.state \in D[sync.c]
  BY <1>1 DEF SyncOK, SyncCall, SyncDeclared, Row
<1>3. rows' = [rows EXCEPT ![sync.t][sync.c] = r] /\ sync' = NextTarget
  BY DEF SyncPersist, Upsert
<1> HIDE DEF r
<1>4. RowsDeclared(rows', D)
  BY <1>1, <1>2, <1>3, RowDeclared
<1>5. SyncDeclared(sync', D)
  BY <1>1, <1>3, NextTargetDeclared
<1> QED
  BY <1>4, <1>5, SyncDeclaredSet DEF SyncPersist

\* Templates are validated when they are written and keep their states.
LEMMA EditDeclared ==
    ASSUME NEW D, AllDeclared(D), Typed, StatesKept(D)',
           \/ \E c \in Cap, tm \in churn.payload :
                CreateCapability(c, tm) \/ UpdateCapability(c, tm) \/ UpdateReadsSync(c, tm)
           \/ UpdateWrites \/ \E c \in Cap : DeleteCapability(c)
    PROVE  AllDeclared(D)'
<1>1. UNCHANGED <<rows, call, sync>>
  BY DEF CreateCapability, UpdateCapability, UpdateReadsSync, UpdateWrites, DeleteCapability
<1>2. \A c \in Cap : templates[c] # None => validateTemplate(templates[c])
  BY DEF AllDeclared, TemplatesFit, Fits
<1>3. DOMAIN templates = Cap
  BY DEF Typed, Tables
<1> DEFINE Valid == /\ \A c \in Cap : templates'[c] # None => validateTemplate(templates'[c])
                    /\ edit' # None => validateTemplate(edit'.tmpl)
<1>4. Valid
  <2>1. ASSUME NEW c \in Cap, NEW tm \in churn.payload, CreateCapability(c, tm) \/ UpdateCapability(c, tm)
        PROVE  Valid
    BY <1>2, <1>3, <2>1 DEF CreateCapability, UpdateCapability, AllDeclared
  <2>2. ASSUME NEW c \in Cap, NEW tm \in churn.payload, UpdateReadsSync(c, tm)
        PROVE  Valid
    BY <1>2, <2>2 DEF UpdateReadsSync
  <2>3. CASE UpdateWrites
    <3>1. edit # None /\ validateTemplate(edit.tmpl) /\ edit' = None
      BY <2>3 DEF UpdateWrites, AllDeclared
    <3>2. templates' = templates \/ templates' = [templates EXCEPT ![edit.c] = edit.tmpl]
      BY <2>3 DEF UpdateWrites
    <3> QED
      BY <1>2, <1>3, <3>1, <3>2
  <2>4. ASSUME NEW c \in Cap, DeleteCapability(c)
        PROVE  Valid
    BY <1>2, <1>3, <2>4 DEF DeleteCapability, AllDeclared
  <2> QED
    BY <2>1, <2>2, <2>3, <2>4
<1>5. TemplatesFit(templates', D)
  BY <1>4 DEF TemplatesFit, Fits, StatesKept
<1> QED
  BY <1>1, <1>4, <1>5 DEF AllDeclared

LEMMA NextDeclared ==
    ASSUME NEW D
    PROVE  Typed /\ AllDeclared(D) /\ StatesKept(D)' /\ [Next]_vars => AllDeclared(D)'
<1> SUFFICES ASSUME Typed, AllDeclared(D), StatesKept(D)', [Next]_vars PROVE AllDeclared(D)'
  OBVIOUS
<1>1. CASE SyncStep \/ SyncSkips
  BY <1>1, SyncWalkDeclared, SyncTargetsDeclared, SyncReadStateDeclared, SyncReadSourceDeclared,
     SyncPersistDeclared DEF SyncStep
<1>2. ASSUME \/ \E t \in Target, f \in Fact : RouterChanges(t, f)
             \/ \E d \in Device : DeviceComesOrGoes(d)
             \/ UNCHANGED vars
      PROVE  AllDeclared(D)'
  <2>1. UNCHANGED <<templates, rows, edit, call, sync>>
    BY <1>2 DEF RouterChanges, DeviceComesOrGoes, vars
  <2> QED
    BY <2>1 DEF AllDeclared
<1> QED
  BY <1>1, <1>2, CallStepDeclared, PatchDeclared, EditDeclared DEF Next

LEMMA InitDeclared == ASSUME NEW D PROVE Init /\ StatesKept(D) => AllDeclared(D)
<1> SUFFICES ASSUME Init, StatesKept(D) PROVE AllDeclared(D)
  OBVIOUS
<1>1. TemplatesFit(templates, D)
  BY DEF Init, TemplatesFit, Fits, StatesKept
<1>2. RowsDeclared(rows, D) /\ edit = None
  BY DEF Init, RowsDeclared
<1>3. (\A p \in Proc : CallDeclared(call[p], D)) /\ SyncDeclared(sync, D)
  BY NoCallDeclared DEF Init, SyncDeclared, NoSync
<1> QED
  BY <1>1, <1>2, <1>3 DEF AllDeclared

\* Whatever requests, the sync loop, template edits, the router and faults do
\* and in whatever order: where the templates stored for a capability always
\* have the same states, every stored state is one of them, although requests
\* and the sync loop write states they chose from a template read earlier.
THEOREM StoredStatesAreDeclared ==
    ASSUME NEW D
    PROVE  Spec /\ []StatesKept(D) => []StoredStateDeclared
<1>1. AllDeclared(D) => StoredStateDeclared
  BY DEF AllDeclared, TemplatesFit, RowsDeclared, Fits, StoredStateDeclared
<1>2. Init /\ StatesKept(D) => AllDeclared(D)
  BY InitDeclared
<1>3. Typed /\ AllDeclared(D) /\ StatesKept(D)' /\ [Next]_vars => AllDeclared(D)'
  BY NextDeclared
<1> QED
  BY AlwaysTyped, <1>1, <1>2, <1>3, PTL DEF Spec

-----------------------------------------------------------------------------
(***************************************************************************)
(* The router follows the stored state, for calls that do not overlap.     *)
(***************************************************************************)

\* Calls of SetCapabilityState and of the handlers around it do not overlap.
Serial == \A p, q \in Proc : call[p].pc # "idle" /\ call[q].pc # "idle" => p = q

\* No capability takes its state from the router (sync mode external_truth).
InternalTruth ==
    \A c \in Cap : templates[c] # None /\ templates[c].sync # None => ~templates[c].sync.external

\* The sync loop has nothing to do.
SyncIdles(s) ==
    /\ s.pc \in {"idle", "template", "target"}
    /\ \A c \in Cap : s.listed[c] # None => ~s.listed[c].sync.external
    /\ s.tmpl # None => ~s.tmpl.sync.external

\* What is left of a list of actions; the first n of them are in effect.
Left(acts, todo) ==
    /\ Len(todo) <= Len(acts)
    /\ \A i \in 1..Len(todo) : todo[i] = acts[Len(acts) - Len(todo) + i]
FirstInEffect(facts, acts, n) ==
    \A i \in 1..n :
        (\A j \in 1..n : j > i => acts[j].fact # acts[i].fact)
        => facts[acts[i].fact] = acts[i].value

\* What executeStateActions has left to do is the rest of the template's list,
\* and what it has done is in effect, unless there was a warning.
Halfway(k) ==
    LET acts == k.tmpl.actions[k.want]
    IN  /\ Left(acts, k.todo)
        /\ ~k.warned => FirstInEffect(router[k.t], acts, Len(acts) - Len(k.todo))

CallFollows(k) ==
    /\ k.pc \in {"getDevice", "getState", "act"} => k.tmpl = templates[k.c]
    /\ k.pc = "act" => Halfway(k)
    /\ k.pc = "enPersist" /\ rows[k.t][k.c] # None => k.cur.state = rows[k.t][k.c].state

Acting(t, c) == \E p \in Proc : call[p].pc = "act" /\ call[p].t = t /\ call[p].c = c

RowFollows(t, c) ==
    outcome[t][c] = "ok" =>
        /\ rows[t][c] # None /\ templates[c] # None
        /\ SoleWriter(c) /\ ~Acting(t, c) =>
              InEffect(t, templates[c].actions[rows[t][c].state])

CallsFollow == \A p \in Proc : CallFollows(call[p])
RowsFollow == \A t \in Target, c \in Cap : RowFollows(t, c)
Following == edit = None /\ SyncIdles(sync) /\ call[Sync].pc = "idle" /\ CallsFollow /\ RowsFollow

LEMMA AllLeft ==
    ASSUME NEW acts \in Seq(Action), NEW facts
    PROVE  Left(acts, acts) /\ FirstInEffect(facts, acts, Len(acts) - Len(acts))
<1>1. Len(acts) \in Nat /\ Len(acts) - Len(acts) = 0
  OBVIOUS
<1>2. \A i \in 1..Len(acts) : Len(acts) - Len(acts) + i = i
  BY <1>1
<1>3. 1..0 = {}
  OBVIOUS
<1> QED
  BY <1>1, <1>2, <1>3 DEF Left, FirstInEffect

\* One action more.
LEMMA OneMore ==
    ASSUME NEW acts \in Seq(Action), NEW todo \in Seq(Action), todo # <<>>, Left(acts, todo)
    PROVE  /\ Left(acts, Tail(todo)) /\ Tail(todo) \in Seq(Action)
           /\ \E i \in DOMAIN acts : Head(todo) = acts[i]
           /\ \A facts \in [Fact -> BOOLEAN] :
                FirstInEffect(facts, acts, Len(acts) - Len(todo)) =>
                FirstInEffect([facts EXCEPT ![Head(todo).fact] = Head(todo).value],
                              acts, Len(acts) - Len(Tail(todo)))
<1> DEFINE n == Len(acts) - Len(todo)
           a == Head(todo)
<1>1. Len(todo) \in Nat \ {0} /\ Len(acts) \in Nat /\ Tail(todo) \in Seq(Action)
      /\ Len(Tail(todo)) = Len(todo) - 1 /\ Head(todo) = todo[1]
      /\ \A i \in 1..Len(Tail(todo)) : Tail(todo)[i] = todo[i + 1]
  OBVIOUS
<1>2. n \in Nat /\ Len(acts) - Len(Tail(todo)) = n + 1 /\ n + 1 \in 1..Len(acts)
  BY <1>1 DEF Left
<1>3. a = acts[n + 1]
  BY <1>1 DEF Left
<1>4. Left(acts, Tail(todo))
  <2>1. ASSUME NEW i \in 1..Len(Tail(todo)) PROVE Tail(todo)[i] = acts[n + 1 + i]
    <3>1. i + 1 \in 1..Len(todo) /\ n + (i + 1) = n + 1 + i
      BY <1>1, <1>2
    <3> QED
      BY <1>1, <3>1 DEF Left
  <2> QED
    BY <1>1, <1>2, <2>1 DEF Left
<1>5. ASSUME NEW facts \in [Fact -> BOOLEAN], FirstInEffect(facts, acts, n)
      PROVE  FirstInEffect([facts EXCEPT ![a.fact] = a.value], acts, n + 1)
  <2> DEFINE new == [facts EXCEPT ![a.fact] = a.value]
  <2> SUFFICES ASSUME NEW i \in 1..(n + 1),
                      \A j \in 1..(n + 1) : j > i => acts[j].fact # acts[i].fact
               PROVE  new[acts[i].fact] = acts[i].value
    BY DEF FirstInEffect
  <2>1. acts[i] \in Action /\ a \in Action
    BY <1>2, <1>3
  <2>2. acts[i].fact \in Fact /\ a.fact \in Fact
    BY <2>1 DEF Action
  <2>3. CASE i = n + 1
    BY <1>3, <2>2, <2>3
  <2>4. CASE i # n + 1
    <3>1. i \in 1..n /\ n + 1 > i /\ n + 1 \in 1..(n + 1)
      <4> HIDE DEF n
      <4> QED
        BY <1>2, <2>4
    <3>2. acts[i].fact # a.fact
      BY <1>3, <3>1
    <3>3. \A j \in 1..n : j > i => acts[j].fact # acts[i].fact
      BY <1>2
    <3>4. facts[acts[i].fact] = acts[i].value
      BY <1>5, <3>1, <3>3 DEF FirstInEffect
    <3> QED
      BY <2>2, <3>2, <3>4
  <2> QED
    BY <2>3, <2>4
<1>6. n + 1 \in DOMAIN acts
  BY <1>1, <1>2
<1> QED
  BY <1>1, <1>2, <1>3, <1>4, <1>5, <1>6

LEMMA AllInEffect ==
    ASSUME NEW acts \in Seq(Action), NEW t, FirstInEffect(router[t], acts, Len(acts) - Len(<<>>))
    PROVE  InEffect(t, acts)
<1>1. Len(acts) \in Nat /\ DOMAIN acts = 1..Len(acts) /\ Len(acts) - Len(<<>>) = Len(acts)
  OBVIOUS
<1> QED
  BY <1>1 DEF FirstInEffect, InEffect

\* A template's list of actions, and one of its actions.
LEMMA ActionsOK ==
    ASSUME NEW tm \in Template, NEW s \in State
    PROVE  tm.actions[s] \in Seq(Action)
BY DEF Template

\* Where no capability takes its state from the router, SyncOnce only walks
\* through the templates and targets.
LEMMA SyncOnlyWalks ==
    ASSUME Typed, SyncIdles(sync), InternalTruth, SyncStep \/ SyncSkips, call[Sync].pc = "idle"
    PROVE  /\ SyncIdles(sync')
           /\ UNCHANGED <<templates, rows, router, call, edit, outcome, churn>>
<1>1. SyncOK(sync) /\ sync \in SyncCall
  BY DEF Typed, SyncOK
<1>2. CASE SyncListTemplates
  <2> DEFINE l == [c \in Cap |-> IF templates[c] # None /\ templates[c].sync # None
                                 THEN templates[c] ELSE None]
  <2>1. \A c \in Cap : l[c] # None => ~l[c].sync.external
    BY DEF InternalTruth
  <2>2. sync' = [NoSync EXCEPT !.pc = "template", !.listed = l]
    BY <1>2 DEF SyncListTemplates
  <2> HIDE DEF l
  <2>3. SyncIdles(sync')
    BY <2>1, <2>2 DEF SyncIdles, NoSync
  <2> QED
    BY <1>2, <2>3 DEF SyncListTemplates
<1>3. CASE SyncTemplateDone
  BY <1>1, <1>3 DEF SyncTemplateDone, SyncIdles, SyncCall
<1>4. CASE SyncReturns
  <2>1. SyncIdles(sync')
    BY <1>4 DEF SyncReturns, SyncIdles, NoSync
  <2> QED
    BY <1>4, <2>1 DEF SyncReturns
<1>5. ASSUME NEW c \in Cap, SyncTargets(c) PROVE SyncIdles(sync')
  <2> DEFINE tm == sync.listed[c]
             T == IF tm.scope = "global" THEN {Global} ELSE known
  <2>1. ~tm.sync.external
    BY <1>5 DEF SyncTargets, SyncIdles
  <2>2. sync' = [sync EXCEPT !.pc = "target", !.c = c, !.tmpl = tm, !.listed[c] = None, !.targets = T]
    BY <1>5 DEF SyncTargets
  <2> HIDE DEF tm, T
  <2> QED
    BY <1>1, <2>1, <2>2 DEF SyncIdles, SyncCall
<1>6. ASSUME NEW t \in Target, SyncReadState(t) PROVE SyncIdles(sync')
  <2>1. sync.tmpl # None
    BY <1>1, <1>6, Absent DEF SyncReadState, SyncOK
  <2>2. ~sync.tmpl.sync.external
    BY <2>1 DEF SyncIdles
  <2>3. sync' = [sync EXCEPT !.targets = @ \ {t}]
    BY <1>6, <2>2 DEF SyncReadState
  <2> QED
    BY <1>1, <2>3 DEF SyncIdles, SyncCall
<1>7. ~(SyncReadSource \/ SyncPersist \/ SyncApplied \/ SyncSkips)
  BY DEF SyncReadSource, SyncPersist, SyncApplied, SyncSkips, SyncIdles
<1>8. CASE \E c \in Cap : SyncTargets(c)
  BY <1>5, <1>8 DEF SyncTargets
<1>9. CASE \E t \in Target : SyncReadState(t)
  BY <1>6, <1>9 DEF SyncReadState
<1> QED
  BY <1>2, <1>3, <1>4, <1>7, <1>8, <1>9 DEF SyncStep

\* Nothing that the invariant is about changes, but perhaps the sync loop.
LEMMA FollowingStays ==
    ASSUME Following, UNCHANGED <<templates, rows, router, call, edit, outcome>>, SyncIdles(sync')
    PROVE  Following'
<1>1. CallsFollow'
  BY DEF Following, CallsFollow, CallFollows, Halfway
<1>2. ASSUME NEW t \in Target, NEW c \in Cap PROVE RowFollows(t, c)'
  <2>1. RowFollows(t, c)
    BY DEF Following, RowsFollow
  <2>2. (Acting(t, c)' <=> Acting(t, c)) /\ (SoleWriter(c)' <=> SoleWriter(c))
    BY DEF Acting, SoleWriter
  <2>3. \A acts : InEffect(t, acts)' <=> InEffect(t, acts)
    BY DEF InEffect
  <2> QED
    BY <2>1, <2>2, <2>3 DEF RowFollows
<1> QED
  BY <1>1, <1>2 DEF Following, RowsFollow

\* A step of one call: the other calls are idle.
LEMMA OneCallMoves ==
    ASSUME Typed, Following, NEW p \in Proc, p # Sync,
           (Serial /\ call[p].pc # "idle") \/ UNCHANGED <<templates, rows, router>>,
           NEW k, call' = [call EXCEPT ![p] = k], CallFollows(call[p])',
           UNCHANGED <<edit, sync>>, RowsFollow'
    PROVE  Following'
<1>1. call'[p] = k /\ \A q \in Proc : q # p => call'[q] = call[q]
  BY DEF Typed
<1>2. ASSUME NEW q \in Proc, q # p PROVE CallFollows(call[q])'
  <2>1. CASE UNCHANGED <<templates, rows, router>>
    BY <1>1, <1>2, <2>1 DEF Following, CallsFollow, CallFollows, Halfway
  <2>2. CASE call[q].pc = "idle"
    BY <1>1, <1>2, <2>2 DEF CallFollows
  <2> QED
    BY <1>2, <2>1, <2>2 DEF Serial
<1>3. Sync \in Proc
  BY DEF Proc
<1> QED
  BY <1>1, <1>2, <1>3 DEF Following, CallsFollow

\* A step that changes neither tables nor router, of a call that is not running
\* actions.
LEMMA RowsFollowStill ==
    ASSUME RowsFollow, UNCHANGED <<templates, rows, router, outcome>>,
           \A t \in Target, c \in Cap : Acting(t, c) => Acting(t, c)'
    PROVE  RowsFollow'
<1> SUFFICES ASSUME NEW t \in Target, NEW c \in Cap PROVE RowFollows(t, c)'
  BY DEF RowsFollow
<1>1. RowFollows(t, c) /\ (Acting(t, c) => Acting(t, c)')
  BY DEF RowsFollow
<1> QED
  BY <1>1 DEF RowFollows, SoleWriter, InEffect

\* SetCapabilityState up to its actions, and the steps before the enabled flag
\* is written.
LEMMA ReadingFollows ==
    ASSUME Typed, Following, Serial, NEW p \in Proc, p # Sync,
           \/ GetTemplate(p) \/ GetDevice(p) \/ GetState(p)
           \/ EnabledGetDevice(p) \/ EnabledGetTemplate(p) \/ EnabledGetState(p)
    PROVE  Following'
<1> DEFINE k == call[p]
<1>1. CallOK(k) /\ CallFollows(k) /\ call \in [Proc -> Call] /\ k \in Call /\ Tables
  BY DEF Typed, CallOK, Following, CallsFollow
<1>2. /\ UNCHANGED <<templates, rows, router, edit, sync, outcome>>
      /\ k.pc # "act" /\ k.pc # "idle"
  BY DEF GetTemplate, GetDevice, GetState, EnabledGetDevice, EnabledGetTemplate, EnabledGetState
<1>3. ASSUME NEW r, call' = [call EXCEPT ![p] = r], CallFollows(call[p])'
      PROVE  Following'
  <2>1. \A q \in Proc : q # p => call'[q] = call[q]
    BY <1>3 DEF Typed
  <2>2. \A t \in Target, c \in Cap : Acting(t, c) => Acting(t, c)'
    BY <1>2, <2>1 DEF Acting
  <2>3. RowsFollow'
    BY <1>2, <2>2, RowsFollowStill DEF Following
  <2> QED
    BY <1>2, <1>3, <2>3, OneCallMoves
<1>4. CASE Return(p)
  <2>1. call'[p] = NoCall
    BY <1>1, <1>4 DEF Return
  <2>2. CallFollows(call[p])'
    BY <2>1 DEF CallFollows, NoCall
  <2> QED
    BY <1>3, <1>4, <2>2 DEF Return
<1>5. ASSUME NEW r, call' = [call EXCEPT ![p] = r],
             r.pc \notin {"getDevice", "getState", "act", "enPersist"}
      PROVE  Following'
  <2>1. call'[p] = r
    BY <1>1, <1>5
  <2>2. CallFollows(call[p])'
    BY <1>5, <2>1 DEF CallFollows
  <2> QED
    BY <1>3, <1>5, <2>2
<1>6. CASE GetTemplate(p) /\ ~Return(p)
  <2> DEFINE tm == templates[k.c]
             new == [k EXCEPT !.tmpl = tm, !.pc = IF k.t = Global THEN "getState" ELSE "getDevice"]
  <2>1. call' = [call EXCEPT ![p] = new]
    BY <1>1, <1>6 DEF GetTemplate
  <2>2. call'[p] = new
    BY <1>1, <2>1
  <2>3. new.tmpl = templates'[new.c] /\ new.pc \in {"getState", "getDevice"}
    <3>1. new.tmpl = templates[k.c] /\ new.c = k.c /\ new.pc \in {"getState", "getDevice"}
      <4> HIDE DEF k
      <4> QED
        BY <1>1 DEF Call
    <3> QED
      BY <1>2, <3>1
  <2> HIDE DEF new
  <2>4. CallFollows(call[p])'
    BY <2>2, <2>3 DEF CallFollows
  <2> QED
    BY <1>3, <2>1, <2>4
<1>7. CASE GetDevice(p) /\ ~Return(p)
  <2> DEFINE new == [k EXCEPT !.pc = "getState"]
  <2>1. call' = [call EXCEPT ![p] = new] /\ k.pc = "getDevice"
    BY <1>1, <1>7 DEF GetDevice, Goto
  <2>2. call'[p] = new
    BY <1>1, <2>1
  <2>3. new.tmpl = templates'[new.c] /\ new.pc = "getState"
    <3>1. new.tmpl = k.tmpl /\ new.c = k.c /\ new.pc = "getState"
      <4> HIDE DEF k
      <4> QED
        BY <1>1 DEF Call
    <3> QED
      BY <1>1, <1>2, <2>1, <3>1 DEF CallFollows
  <2> HIDE DEF new
  <2>4. CallFollows(call[p])'
    BY <2>2, <2>3 DEF CallFollows
  <2> QED
    BY <1>3, <2>1, <2>4
<1>8. CASE EnabledGetDevice(p) /\ ~Return(p)
  <2> DEFINE new == [k EXCEPT !.pc = "enTemplate"]
  <2>1. call' = [call EXCEPT ![p] = new]
    BY <1>1, <1>8 DEF EnabledGetDevice, Goto
  <2> HIDE DEF k
  <2>2. new.pc = "enTemplate"
    BY <1>1 DEF Call
  <2> HIDE DEF new
  <2> QED
    BY <1>5, <2>1, <2>2
<1>9. CASE EnabledGetTemplate(p) /\ ~Return(p)
  <2> DEFINE tm == templates[k.c]
             new == [k EXCEPT !.tmpl = tm, !.pc = "enState"]
  <2>1. call' = [call EXCEPT ![p] = new]
    BY <1>1, <1>9 DEF EnabledGetTemplate
  <2> HIDE DEF k, tm
  <2>2. new.pc = "enState"
    BY <1>1 DEF Call
  <2> HIDE DEF new
  <2> QED
    BY <1>5, <2>1, <2>2
<1>10. CASE EnabledGetState(p)
  <2> DEFINE cur == currentCapabilityState(k.t, k.c, k.tmpl.default)
             new == [k EXCEPT !.pc = "enPersist", !.cur = cur]
  <2>1. call' = [call EXCEPT ![p] = new]
    BY <1>1, <1>10 DEF EnabledGetState
  <2>2. call'[p] = new
    BY <1>1, <2>1
  <2>3. rows[k.t][k.c] # None => cur.state = rows[k.t][k.c].state
    BY DEF currentCapabilityState
  <2>4. new.pc = "enPersist" /\ new.t = k.t /\ new.c = k.c /\ new.cur = cur
    <3> HIDE DEF k, cur
    <3> QED
      BY <1>1 DEF Call
  <2> HIDE DEF new, cur
  <2>5. CallFollows(call[p])'
    BY <1>2, <2>2, <2>3, <2>4 DEF CallFollows
  <2> QED
    BY <1>3, <2>1, <2>5
<1>11. CASE GetState(p)
  <2> DEFINE cur == currentCapabilityState(k.t, k.c, k.tmpl.default)
             acts == k.tmpl.actions[k.want]
             new == [k EXCEPT !.pc = "act", !.cur = cur, !.todo = acts]
  <2>1. call' = [call EXCEPT ![p] = EnabledPhase(k)] \/ call' = [call EXCEPT ![p] = new]
    BY <1>1, <1>11 DEF GetState
  <2>2. CASE call' = [call EXCEPT ![p] = EnabledPhase(k)]
    <3>1. EnabledPhase(k).pc \in {"idle", "enTemplate", "enDevice"}
      <4> HIDE DEF k
      <4> QED
        BY <1>1 DEF EnabledPhase, NoCall, Call
    <3> HIDE DEF k
    <3> QED
      BY <1>5, <2>2, <3>1 DEF k
  <2>3. CASE call' = [call EXCEPT ![p] = new]
    <3>1. k.pc = "getState" /\ k.tmpl \in Template /\ k.want \in State /\ k.tmpl = templates[k.c]
      BY <1>1, <1>11 DEF GetState, CallOK, SettingState, CallFollows
    <3>2. acts \in Seq(Action)
      BY <3>1, ActionsOK
    <3>3. call'[p] = new
      BY <1>1, <2>3
    <3>4. /\ new.pc = "act" /\ new.t = k.t /\ new.c = k.c /\ new.todo = acts /\ new.tmpl = k.tmpl
          /\ new.want = k.want
      <4> HIDE DEF k, cur, acts
      <4> QED
        BY <1>1 DEF Call
    <3> HIDE DEF new
    <3>5. Left(acts, acts) /\ FirstInEffect(router'[call'[p].t], acts, Len(acts) - Len(acts))
      BY <3>2, AllLeft
    <3>6. Halfway(call[p])'
      BY <3>3, <3>4, <3>5 DEF Halfway
    <3>7. CallFollows(call[p])'
      BY <1>2, <3>1, <3>3, <3>4, <3>6 DEF CallFollows
    <3> QED
      BY <1>3, <2>3, <3>7
  <2> QED
    BY <2>1, <2>2, <2>3
<1> QED
  BY <1>4, <1>6, <1>7, <1>8, <1>9, <1>10, <1>11

\* An action moves a fact of its own capability only.
LEMMA ActFollows ==
    ASSUME Typed, Following, Serial, NEW p \in Proc, p # Sync, ExecuteAction(p) \/ ActionWarns(p)
    PROVE  Following'
<1> DEFINE k == call[p]
           a == Head(k.todo)
           acts == k.tmpl.actions[k.want]
           moved == [router EXCEPT ![k.t][a.fact] = a.value]
<1>1. /\ CallOK(k) /\ CallFollows(k) /\ call \in [Proc -> Call] /\ k \in Call /\ Tables
      /\ k.pc = "act" /\ k.todo # <<>>
  BY DEF Typed, CallOK, Following, CallsFollow, ExecuteAction, ActionWarns
<1>2. /\ k.t \in Target /\ k.c \in Cap /\ k.want \in State /\ k.tmpl \in Template
      /\ k.tmpl = templates[k.c] /\ k.todo \in Seq(Action) /\ Halfway(k)
  BY <1>1 DEF CallOK, Call, SettingState, CallFollows
<1>3. acts \in Seq(Action) /\ Left(acts, k.todo)
  BY <1>2, ActionsOK DEF Halfway
<1>4. /\ Left(acts, Tail(k.todo)) /\ \E i \in DOMAIN acts : a = acts[i]
      /\ \A facts \in [Fact -> BOOLEAN] :
           FirstInEffect(facts, acts, Len(acts) - Len(k.todo)) =>
           FirstInEffect([facts EXCEPT ![a.fact] = a.value], acts, Len(acts) - Len(Tail(k.todo)))
  <2> HIDE DEF k, acts
  <2> QED
    BY <1>1, <1>2, <1>3, OneMore
<1>5. /\ UNCHANGED <<templates, rows, edit, sync, outcome>> /\ router' \in {router, moved}
  BY DEF ExecuteAction, ActionWarns
<1>6. \/ router' = moved /\ call' = [call EXCEPT ![p] = [k EXCEPT !.todo = Tail(k.todo)]]
      \/ call' = [call EXCEPT ![p] = [k EXCEPT !.todo = Tail(k.todo), !.warned = TRUE]]
  BY <1>1 DEF ExecuteAction, ActionWarns, AfterWarning
<1>7. PICK new : /\ call' = [call EXCEPT ![p] = new] /\ call'[p] = new /\ new.pc = "act"
                 /\ new.t = k.t /\ new.c = k.c /\ new.tmpl = k.tmpl /\ new.want = k.want
                 /\ new.todo = Tail(k.todo)
                 /\ ~new.warned => ~k.warned /\ router' = moved
  <2>1. CASE router' = moved /\ call' = [call EXCEPT ![p] = [k EXCEPT !.todo = Tail(k.todo)]]
    <3> DEFINE new == [k EXCEPT !.todo = Tail(k.todo)]
    <3>1. /\ new.pc = "act" /\ new.t = k.t /\ new.c = k.c /\ new.tmpl = k.tmpl /\ new.want = k.want
          /\ new.todo = Tail(k.todo) /\ new.warned = k.warned
      <4> HIDE DEF k
      <4> QED
        BY <1>1 DEF Call
    <3>2. call'[p] = new
      BY <1>1, <2>1
    <3> HIDE DEF moved
    <3> QED
      BY <2>1, <3>1, <3>2
  <2>2. CASE call' = [call EXCEPT ![p] = [k EXCEPT !.todo = Tail(k.todo), !.warned = TRUE]]
    <3> DEFINE new == [k EXCEPT !.todo = Tail(k.todo), !.warned = TRUE]
    <3>1. /\ new.pc = "act" /\ new.t = k.t /\ new.c = k.c /\ new.tmpl = k.tmpl /\ new.want = k.want
          /\ new.todo = Tail(k.todo) /\ new.warned
      <4> HIDE DEF k
      <4> QED
        BY <1>1 DEF Call
    <3>2. call'[p] = new
      BY <1>1, <2>2
    <3> HIDE DEF moved
    <3> QED
      BY <2>2, <3>1, <3>2
  <2> QED
    BY <1>6, <2>1, <2>2
<1>8. a.fact \in Fact /\ a.value \in BOOLEAN
  <2>1. a \in Action
    <3> HIDE DEF k
    <3> QED
      BY <1>1, <1>2
  <2> HIDE DEF a
  <2> QED
    BY <2>1 DEF Action
<1>9. \A t \in Target, f \in Fact :
        moved[t][f] = IF t = k.t /\ f = a.fact THEN a.value ELSE router[t][f]
  <2> HIDE DEF k, a
  <2> QED
    BY <1>1, <1>2, <1>8 DEF Tables
<1>10. CallFollows(call[p])'
  <2>1. ~new.warned => FirstInEffect(router'[k.t], acts, Len(acts) - Len(Tail(k.todo)))
    <3> SUFFICES ASSUME ~new.warned
                 PROVE  FirstInEffect(router'[k.t], acts, Len(acts) - Len(Tail(k.todo)))
      OBVIOUS
    <3>1. FirstInEffect(router[k.t], acts, Len(acts) - Len(k.todo))
      BY <1>2, <1>7 DEF Halfway
    <3>2. router[k.t] \in [Fact -> BOOLEAN]
      BY <1>1, <1>2 DEF Tables
    <3>3. router'[k.t] = [router[k.t] EXCEPT ![a.fact] = a.value]
      <4> HIDE DEF k, a
      <4> QED
        BY <1>1, <1>2, <1>7 DEF Tables
    <3> QED
      BY <1>4, <3>1, <3>2, <3>3
  <2>2. Halfway(call[p])'
    BY <1>4, <1>7, <2>1 DEF Halfway
  <2> QED
    BY <1>2, <1>5, <1>7, <2>2 DEF CallFollows
<1>11. RowsFollow'
  <2> SUFFICES ASSUME NEW t \in Target, NEW c \in Cap, outcome[t][c] = "ok", SoleWriter(c),
                      ~Acting(t, c)'
               PROVE  InEffect(t, templates[c].actions[rows[t][c].state])'
    <3>1. \A t \in Target, c \in Cap :
             outcome[t][c] = "ok" => rows[t][c] # None /\ templates[c] # None
      BY DEF Following, RowsFollow, RowFollows
    <3> QED
      BY <1>5, <3>1 DEF RowsFollow, RowFollows, SoleWriter
  <2>1. ~(t = k.t /\ c = k.c)
    BY <1>7 DEF Acting
  <2>2. ~Acting(t, c)
    BY <1>1, <2>1 DEF Acting, Serial
  <2>3. rows[t][c] # None /\ templates[c] # None /\ InEffect(t, templates[c].actions[rows[t][c].state])
    BY <2>2 DEF Following, RowsFollow, RowFollows
  <2> DEFINE mine == templates[c].actions[rows[t][c].state]
  <2>4. templates[c] \in Template /\ rows[t][c].state \in State
    BY <1>1, <2>3 DEF Tables, Opt, Row
  <2>5. mine \in Seq(Action)
    BY <2>4, ActionsOK
  <2>6. \A i \in DOMAIN mine : mine[i].fact \in Fact
    <3> SUFFICES ASSUME NEW i \in DOMAIN mine PROVE mine[i].fact \in Fact
      OBVIOUS
    <3> HIDE DEF mine
    <3>1. mine[i] \in Action
      BY <2>5
    <3> QED
      BY <3>1 DEF Action
  <2>7. ASSUME NEW i \in DOMAIN mine
        PROVE  router'[t][mine[i].fact] = router[t][mine[i].fact]
    <3>1. CASE t # k.t \/ router' = router
      <4> HIDE DEF mine, moved
      <4> QED
        BY <1>5, <1>9, <2>6, <2>7, <3>1
    <3>2. CASE t = k.t /\ c # k.c
      <4>1. Writes(templates[k.c], a.fact) /\ templates[k.c] # None
        BY <1>2, <1>4, Absent DEF Writes
      <4>2. Writes(templates[c], mine[i].fact)
        BY <2>4, <2>7 DEF Writes
      <4>3. k.c \in Cap \ {c}
        BY <1>2, <3>2
      <4>4. ~Writes(templates[c], a.fact)
        <5> HIDE DEF a, k
        <5> QED
          BY <1>8, <4>1, <4>3 DEF SoleWriter
      <4>5. mine[i].fact # a.fact
        BY <4>2, <4>4
      <4> HIDE DEF mine, moved
      <4> QED
        BY <1>5, <1>9, <2>6, <2>7, <4>5
    <3> QED
      BY <2>1, <3>1, <3>2
  <2>8. mine' = mine
    BY <1>5
  <2>9. InEffect(t, mine)
    BY <2>3
  <2>10. \A i \in DOMAIN mine : (\A j \in DOMAIN mine : j > i => mine[j].fact # mine[i].fact)
                                => router'[t][mine[i].fact] = mine[i].value
    <3> HIDE DEF mine
    <3> QED
      BY <2>7, <2>9 DEF InEffect
  <2> QED
    BY <1>5, <2>10 DEF InEffect
<1> QED
  BY <1>1, <1>5, <1>7, <1>10, <1>11, OneCallMoves

\* EnabledPhase is never in the middle of anything the invariant is about.
LEMMA EnabledPhaseStarts ==
    ASSUME NEW k \in Call
    PROVE  EnabledPhase(k).pc \in {"idle", "enTemplate", "enDevice"}
BY DEF EnabledPhase, NoCall, Call

\* A call that has just started or returned satisfies the invariant.
LEMMA BetweenFollows ==
    ASSUME Typed, NEW p \in Proc, NEW r, call' = [call EXCEPT ![p] = r],
           r.pc \notin {"getDevice", "getState", "act", "enPersist"}
    PROVE  CallFollows(call[p])'
<1>1. call'[p] = r
  BY DEF Typed
<1> QED
  BY <1>1 DEF CallFollows

\* The rows after a step that leaves the router alone and no call at its actions.
LEMMA RowsFollowAfter ==
    ASSUME UNCHANGED <<templates, router>>,
           \A t \in Target, c \in Cap : outcome'[t][c] = "ok" =>
               /\ rows'[t][c] # None /\ templates[c] # None
               /\ SoleWriter(c) => InEffect(t, templates[c].actions[rows'[t][c].state])
    PROVE  RowsFollow'
<1> SUFFICES ASSUME NEW t \in Target, NEW c \in Cap, outcome'[t][c] = "ok", SoleWriter(c)
             PROVE  InEffect(t, templates[c].actions[rows[t][c].state])'
  BY DEF RowsFollow, RowFollows, SoleWriter
<1> DEFINE acts == templates[c].actions[rows'[t][c].state]
<1>1. InEffect(t, acts) /\ acts = (templates[c].actions[rows[t][c].state])'
  OBVIOUS
<1> QED
  BY <1>1 DEF InEffect

\* When the state is stored, its actions are the ones in effect.
LEMMA PersistFollows ==
    ASSUME Typed, Following, Serial, NEW p \in Proc, p # Sync, PersistState(p)
    PROVE  Following'
<1> DEFINE k == call[p]
           r == [enabled |-> TRUE, state |-> k.want]
           o == IF k.warned THEN "warned" ELSE "ok"
           acts == k.tmpl.actions[k.want]
<1>1. /\ CallOK(k) /\ CallFollows(k) /\ call \in [Proc -> Call] /\ k \in Call /\ Tables
      /\ k.pc = "act" /\ k.todo = <<>>
  BY DEF Typed, CallOK, Following, CallsFollow, PersistState
<1>2. /\ k.t \in Target /\ k.c \in Cap /\ k.want \in State /\ k.tmpl \in Template
      /\ k.tmpl = templates[k.c] /\ Halfway(k)
  BY <1>1 DEF CallOK, Call, SettingState, CallFollows
<1>3. /\ rows' = [rows EXCEPT ![k.t][k.c] = r] /\ outcome' = [outcome EXCEPT ![k.t][k.c] = o]
      /\ call' = [call EXCEPT ![p] = EnabledPhase(k)]
      /\ UNCHANGED <<templates, router, edit, sync>>
  BY DEF PersistState, Upsert
<1>4. acts \in Seq(Action)
  BY <1>2, ActionsOK
<1>5. ~k.warned => InEffect(k.t, acts)
  <2>1. ~k.warned => FirstInEffect(router[k.t], acts, Len(acts) - Len(<<>>))
    BY <1>1, <1>2 DEF Halfway
  <2> HIDE DEF acts, k
  <2> QED
    BY <1>4, <2>1, AllInEffect
<1>6. r \in Row /\ r # None /\ r.state = k.want
  <2>1. r \in Row
    <3> HIDE DEF k
    <3> QED
      BY <1>2 DEF Row
  <2> QED
    BY <2>1, Absent
<1>7. CallFollows(call[p])'
  BY <1>1, <1>3, EnabledPhaseStarts, BetweenFollows
<1>8. RowsFollow'
  <2> SUFFICES ASSUME NEW t \in Target, NEW c \in Cap, outcome'[t][c] = "ok"
               PROVE  /\ rows'[t][c] # None /\ templates[c] # None
                      /\ SoleWriter(c) => InEffect(t, templates[c].actions[rows'[t][c].state])
    BY <1>3, RowsFollowAfter
  <2>1. CASE t = k.t /\ c = k.c
    <3>1. rows'[t][c] = r /\ outcome'[t][c] = o
      <4> HIDE DEF k, r, o
      <4> QED
        BY <1>1, <1>2, <1>3, <2>1 DEF Tables
    <3>2. InEffect(t, acts)
      BY <1>5, <2>1, <3>1
    <3> QED
      BY <1>2, <1>6, <2>1, <3>1, <3>2, Absent
  <2>2. CASE ~(t = k.t /\ c = k.c)
    <3>1. rows'[t][c] = rows[t][c] /\ outcome'[t][c] = outcome[t][c]
      <4> HIDE DEF k, r, o
      <4> QED
        BY <1>1, <1>2, <1>3, <2>2 DEF Tables
    <3>2. ~Acting(t, c)
      BY <1>1, <2>2 DEF Acting, Serial
    <3> QED
      BY <3>1, <3>2 DEF Following, RowsFollow, RowFollows
  <2> QED
    BY <2>1, <2>2
<1> QED
  BY <1>1, <1>3, <1>7, <1>8, OneCallMoves

\* The enabled flag is written with the state that is stored.
LEMMA EnabledPersistFollows ==
    ASSUME Typed, Following, Serial, NEW p \in Proc, p # Sync, EnabledPersist(p)
    PROVE  Following'
<1> DEFINE k == call[p]
           r == [enabled |-> k.enable, state |-> k.cur.state]
<1>1. /\ CallOK(k) /\ CallFollows(k) /\ call \in [Proc -> Call] /\ k \in Call /\ Tables
      /\ k.pc = "enPersist"
  BY DEF Typed, CallOK, Following, CallsFollow, EnabledPersist
<1>2. /\ k.t \in Target /\ k.c \in Cap /\ k.cur \in Row /\ k.enable \in BOOLEAN
  BY <1>1 DEF CallOK, Call, SettingEnabled
<1>3. /\ rows' = [rows EXCEPT ![k.t][k.c] = r] /\ call' = [call EXCEPT ![p] = NoCall]
      /\ UNCHANGED <<templates, router, edit, sync, outcome>>
  BY DEF EnabledPersist, Upsert, Return
<1>4. CallFollows(call[p])'
  BY <1>3, BetweenFollows DEF NoCall
<1>5. r # None /\ r.state = k.cur.state /\ (rows[k.t][k.c] # None => r.state = rows[k.t][k.c].state)
  <2>1. r \in Row
    <3> HIDE DEF k
    <3> QED
      BY <1>2 DEF Row
  <2> QED
    BY <1>1, <2>1, Absent DEF CallFollows
<1>6. RowsFollow'
  <2> SUFFICES ASSUME NEW t \in Target, NEW c \in Cap, outcome[t][c] = "ok"
               PROVE  /\ rows'[t][c] # None /\ templates[c] # None
                      /\ SoleWriter(c) => InEffect(t, templates[c].actions[rows'[t][c].state])
    BY <1>3, RowsFollowAfter
  <2>1. ~Acting(t, c)
    BY <1>1 DEF Acting, Serial
  <2>2. /\ rows[t][c] # None /\ templates[c] # None
        /\ SoleWriter(c) => InEffect(t, templates[c].actions[rows[t][c].state])
    BY <2>1 DEF Following, RowsFollow, RowFollows
  <2>3. rows'[t][c] = IF t = k.t /\ c = k.c THEN r ELSE rows[t][c]
    <3> HIDE DEF k, r
    <3> QED
      BY <1>1, <1>2, <1>3 DEF Tables
  <2>4. rows'[t][c] # None /\ rows'[t][c].state = rows[t][c].state
    <3> HIDE DEF r
    <3> QED
      BY <1>5, <2>2, <2>3
  <2> QED
    BY <2>2, <2>4
<1> QED
  BY <1>1, <1>3, <1>4, <1>6, OneCallMoves

\* A transition that is cut short among its actions is recorded as failed.
LEMMA FailureFollows ==
    ASSUME Typed, Following, Serial, NEW p \in Proc, p # Sync, CallFails(p)
    PROVE  Following'
<1> DEFINE k == call[p]
<1>1. CallOK(k) /\ k \in Call /\ Tables /\ k.pc # "idle"
  BY DEF Typed, CallOK, CallFails
<1>2. /\ call' = [call EXCEPT ![p] = NoCall]
      /\ UNCHANGED <<templates, rows, router, edit, sync>>
      /\ outcome' = IF k.pc = "act" THEN [outcome EXCEPT ![k.t][k.c] = "failed"] ELSE outcome
  BY DEF CallFails, Return
<1>3. CallFollows(call[p])'
  BY <1>2, BetweenFollows DEF NoCall
<1>4. RowsFollow'
  <2> SUFFICES ASSUME NEW t \in Target, NEW c \in Cap, outcome'[t][c] = "ok"
               PROVE  /\ rows[t][c] # None /\ templates[c] # None
                      /\ SoleWriter(c) => InEffect(t, templates[c].actions[rows[t][c].state])
    BY <1>2, RowsFollowAfter
  <2>1. outcome[t][c] = "ok" /\ ~(k.pc = "act" /\ k.t = t /\ k.c = c)
    <3>1. k.t \in Target /\ k.pc = "act" => k.c \in Cap
      BY <1>1 DEF CallOK, Call
    <3> HIDE DEF k
    <3> QED
      BY <1>1, <1>2, <3>1 DEF Tables, CallOK, Call
  <2>2. ~Acting(t, c)
    BY <1>1, <2>1 DEF Acting, Serial
  <2> QED
    BY <2>1, <2>2 DEF Following, RowsFollow, RowFollows
<1> QED
  BY <1>1, <1>2, <1>3, <1>4, OneCallMoves

LEMMA PatchFollows ==
    ASSUME Typed, Following, NEW p \in Requests, NEW t \in Target, NEW c \in Cap,
           NEW want \in Opt(State), NEW enable \in Opt(BOOLEAN), Patch(p, t, c, want, enable)
    PROVE  Following'
<1> DEFINE k == Begin(t, c, want, enable)
           set == [k EXCEPT !.pc = "getTemplate"]
<1>1. /\ call' = [call EXCEPT ![p] = IF want # None THEN set ELSE EnabledPhase(k)]
      /\ call[p].pc = "idle" /\ p \in Proc /\ p # Sync
      /\ UNCHANGED <<templates, rows, router, edit, sync, outcome>>
  BY Absent DEF Patch, Proc
<1>2. k \in Call
  BY BeginsOK DEF CallOK
<1> HIDE DEF k
<1>3. set.pc = "getTemplate"
  BY <1>2 DEF Call
<1>4. EnabledPhase(k).pc \in {"idle", "enTemplate", "enDevice"}
  BY <1>2, EnabledPhaseStarts
<1> DEFINE new == IF want # None THEN set ELSE EnabledPhase(k)
<1>5. new.pc \notin {"getDevice", "getState", "act", "enPersist"} /\ call' = [call EXCEPT ![p] = new]
  BY <1>1, <1>3, <1>4
<1> HIDE DEF new
<1>6. CallFollows(call[p])'
  BY <1>1, <1>5, BetweenFollows
<1>7. \A u \in Target, d \in Cap : Acting(u, d) => Acting(u, d)'
  <2>1. \A q \in Proc : q # p => call'[q] = call[q]
    BY <1>5 DEF Typed
  <2> QED
    BY <1>1, <2>1 DEF Acting
<1>8. RowsFollow'
  BY <1>1, <1>7, RowsFollowStill DEF Following
<1> QED
  BY <1>1, <1>5, <1>6, <1>8, OneCallMoves

LEMMA NextFollows ==
    Typed /\ Following /\ Serial /\ InternalTruth /\ churn.kinds = {"request"} /\ [Next]_vars
        => Following'
<1> SUFFICES ASSUME Typed, Following, Serial, InternalTruth, churn.kinds = {"request"}, [Next]_vars
             PROVE  Following'
  OBVIOUS
<1>1. edit = None /\ SyncIdles(sync) /\ call[Sync].pc = "idle"
  BY DEF Following
<1>2. ASSUME NEW p \in Proc, CallStep(p) \/ ActionWarns(p) \/ CallFails(p) PROVE Following'
  <2>1. call[p].pc # "idle"
    BY <1>2 DEF CallStep, GetTemplate, GetDevice, GetState, ExecuteAction, PersistState, EnabledGetDevice,
                EnabledGetTemplate, EnabledGetState, EnabledPersist, ActionWarns, CallFails
  <2>2. p # Sync
    BY <1>1, <2>1
  <2> QED
    BY <1>2, <2>2, ReadingFollows, ActFollows, PersistFollows, EnabledPersistFollows, FailureFollows
       DEF CallStep
<1>3. CASE SyncStep \/ SyncSkips
  BY <1>1, <1>3, SyncOnlyWalks, FollowingStays
<1>4. ~Outside("template") /\ ~Outside("router") /\ ~Outside("device") /\ ~UpdateWrites
  BY <1>1 DEF Outside, UpdateWrites
<1>5. ASSUME NEW p \in Requests, NEW t \in Target, NEW c \in Cap, NEW want \in Opt(State),
             NEW enable \in Opt(BOOLEAN), Patch(p, t, c, want, enable)
      PROVE  Following'
  BY <1>5, PatchFollows
<1>6. CASE UNCHANGED vars
  BY <1>1, <1>6, FollowingStays DEF vars
<1> QED
  BY <1>2, <1>3, <1>4, <1>5, <1>6
     DEF Next, CreateCapability, UpdateCapability, UpdateReadsSync, DeleteCapability, RouterChanges,
         DeviceComesOrGoes

LEMMA InitFollows == Init => Following
<1> SUFFICES ASSUME Init PROVE Following
  OBVIOUS
<1>1. SyncIdles(sync) /\ edit = None
  BY DEF Init, SyncIdles, NoSync
<1>2. CallsFollow /\ call[Sync].pc = "idle"
  BY DEF Init, CallsFollow, CallFollows, NoCall, Proc
<1>3. RowsFollow
  BY DEF Init, RowsFollow, RowFollows
<1> QED
  BY <1>1, <1>2, <1>3 DEF Following
LEMMA PayloadKept == Typed /\ [Next]_vars => churn'.payload = churn.payload /\ churn'.kinds = churn.kinds
<1> SUFFICES ASSUME Typed, [Next]_vars
             PROVE  churn' = churn \/ \E kind : Outside(kind)
  BY OutsideOK DEF Typed, Tables
<1>1. ASSUME NEW p \in Proc, CallStep(p) \/ ActionWarns(p) \/ CallFails(p) PROVE churn' = churn
  BY <1>1 DEF CallStep, GetTemplate, GetDevice, GetState, ExecuteAction, PersistState, EnabledGetDevice,
              EnabledGetTemplate, EnabledGetState, EnabledPersist, ActionWarns, CallFails
<1>2. CASE SyncStep \/ SyncSkips
  BY <1>2 DEF SyncStep, SyncListTemplates, SyncTemplateDone, SyncReturns, SyncTargets, SyncReadState,
              SyncReadSource, SyncPersist, SyncApplied, SyncSkips
<1>3. ASSUME NEW p \in Requests, NEW t \in Target, NEW c \in Cap, NEW want \in Opt(State),
             NEW enable \in Opt(BOOLEAN), Patch(p, t, c, want, enable)
      PROVE  Outside("request")
  BY <1>3 DEF Patch
<1>4. ASSUME NEW c \in Cap, NEW tm \in churn.payload,
             CreateCapability(c, tm) \/ UpdateCapability(c, tm) \/ UpdateReadsSync(c, tm)
      PROVE  Outside("template")
  BY <1>4 DEF CreateCapability, UpdateCapability, UpdateReadsSync
<1>5. CASE UpdateWrites
  BY <1>5 DEF UpdateWrites
<1>6. ASSUME NEW c \in Cap, DeleteCapability(c) PROVE Outside("template")
  BY <1>6 DEF DeleteCapability
<1>7. ASSUME NEW t \in Target, NEW f \in Fact, RouterChanges(t, f) PROVE Outside("router")
  BY <1>7 DEF RouterChanges
<1>8. ASSUME NEW d \in Device, DeviceComesOrGoes(d) PROVE Outside("device")
  BY <1>8 DEF DeviceComesOrGoes
<1>9. CASE UNCHANGED vars
  BY <1>9 DEF vars
<1> QED
  BY <1>1, <1>2, <1>3, <1>4, <1>5, <1>6, <1>7, <1>8, <1>9 DEF Next

LEMMA KindsKept ==
    Typed /\ [Next]_vars => (churn'.kinds = {"request"} => churn.kinds = {"request"})
BY PayloadKept

\* Where only requests change anything, from any number of clients and with any
\* faults: as long as their calls do not overlap, and no capability takes its
\* state from the router, a transition that ended without a warning leaves the
\* actions of the stored state in effect, until another transition of the same
\* capability on the target begins.
THEOREM RouterFollows == Spec /\ []Serial /\ []InternalTruth => []RouterFollowsState
<1> DEFINE Requested == churn.kinds = {"request"}
           IInv == Requested => Following
<1>1. Init => IInv
  BY InitFollows
<1>2. Typed /\ IInv /\ Serial /\ InternalTruth /\ [Next]_vars => IInv'
  <2> SUFFICES ASSUME Typed, IInv, Serial, InternalTruth, [Next]_vars, Requested' PROVE Following'
    OBVIOUS
  <2>1. Requested
    BY KindsKept
  <2> QED
    BY <2>1, NextFollows
<1>3. Typed /\ IInv => RouterFollowsState
  <2> SUFFICES ASSUME Following, Quiet, NEW t \in Target, NEW c \in Cap, outcome[t][c] = "ok",
                      templates[c] # None, SoleWriter(c)
               PROVE  InEffect(t, templates[c].actions[rows[t][c].state])
    BY DEF RouterFollowsState
  <2>1. ~Acting(t, c)
    BY DEF Quiet, Acting
  <2> QED
    BY <2>1 DEF Following, RowsFollow, RowFollows
<1> HIDE DEF IInv
<1> QED
  BY AlwaysTyped, <1>1, <1>2, <1>3, PTL DEF Spec
=============================================================================
