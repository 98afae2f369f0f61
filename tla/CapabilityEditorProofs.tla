------------------------ MODULE CapabilityEditorProofs ------------------------
(***************************************************************************)
(* Theorems about the capability pages: the draft is well-formed, a page   *)
(* stores nothing but its own template, unsaved edits are given up only    *)
(* for another template, and what is settled in the cache is what the      *)
(* server holds.                                                           *)
(***************************************************************************)
EXTENDS CapabilityEditor, FiniteSetTheorems, TLAPS

-----------------------------------------------------------------------------
(* The inductive invariant.                                                *)

Fields == {"id", "label", "wording", "scope", "type", "options", "states", "default_state", "sync", "ha"}
SyncFields == {"enabled", "type", "params", "when_true", "when_false", "mode", "trigger"}
EntryFields == {"data", "error", "invalid", "fetch", "back"}
PageFields == {"at", "filter", "draft", "dialog", "instance"}
RequestFields == {"kind", "id", "template", "moves", "by", "phase", "waits"}

IsSequence(s) == s \in Seq(ToSet(s))

\* Lists of actions, whose identifiers are numbers.
Numbered(t) ==
    \A v \in DOMAIN t.states :
        IsSequence(t.states[v]) /\ \A a \in ToSet(t.states[v]) : a.id \in 1 .. MaxActions

\* The fields that edits change, and a sequence of two options at least.
Structured(t) ==
    /\ DOMAIN t = Fields /\ t.type \in {"switch", "select"}
    /\ IsSequence(t.options) /\ Len(t.options) >= 2
    /\ Numbered(t)
    /\ t.sync # None => DOMAIN t.sync = SyncFields

\* A list of actions for every option, and the options of a switch.
Consistent(t) ==
    /\ DOMAIN t.states = ToSet(t.options)
    /\ t.type = "switch" => t.options = <<"on", "off">>

\* The synchronisation maps to options.
Mapped(t) == t.sync # None => {t.sync.when_true, t.sync.when_false} \subseteq ToSet(t.options)

\* No two actions of a state share an identifier.
Distinct(t) ==
    \A v \in DOMAIN t.states : \A a, b \in ToSet(t.states[v]) : a.id = b.id => a = b

\* Others store templates that are consistent, and whose actions are told
\* apart by their identifiers, as this editor's are.
ForeignConsistent == \A t \in Foreign : Consistent(t)
ForeignDistinct == \A t \in Foreign : Distinct(t)

Good(t) == IsTemplate(t) /\ (ForeignConsistent => Consistent(t)) /\ (ForeignDistinct => Distinct(t))

ServerOK ==
    DOMAIN server = Id /\ \A i \in Id : server[i] # None => Good(server[i]) /\ server[i].id = i

\* An answer to a query: templates in good order, each under its identifier.
Answer(q, v) ==
    /\ q \in Id => Good(v) /\ v.id = q
    /\ q \in Lists \cup {"global"} => \A t \in v : Good(t) /\ t.id \in Id
    /\ q = "types" => v = "types"
Flagged(e) == e.error \in BOOLEAN /\ e.invalid \in BOOLEAN
EntryOK(q, e) ==
    /\ DOMAIN e = EntryFields /\ Flagged(e)
    /\ Loaded(e) => Answer(q, e.data)
    /\ e.fetch \in {Idle, Sent} \/ \E v : v # None /\ e.fetch = Read(v) /\ Answer(q, v)
CacheOK == DOMAIN cache = Query /\ \A q \in Query : EntryOK(q, cache[q])

Places == Editor \cup {"capabilities", "global", "crashed"}
Dialog == [state : Value \cup {None}, type : TypeId \cup {Blank}, params : Params]
\* The component of a page, wherever the browser is.
Component(p) ==
    /\ DOMAIN p = PageFields /\ p.filter \in Lists /\ p.dialog \in Dialog
    /\ Good(p.draft) /\ Mapped(p.draft)
PageOK == page.at \in Places /\ Component(page)

\* What a request asks to be stored; a creation is for the identifier in it,
\* which there is one of when it has been stored, and so is an update then.
Lands(r, phase) ==
    phase \in {"stored", "waiting"} =>
        (r.kind = "create" => r.id \in Id) /\ (r.kind = "update" => r.template.id = r.id)
Landed(r) == Lands(r, r.phase)
RequestOK(r) ==
    /\ DOMAIN r = RequestFields /\ r.kind \in {"create", "update", "delete"}
    /\ r.moves \in BOOLEAN /\ (r.moves => r.kind # "delete") /\ Landed(r)
    /\ r.kind # "delete" => Good(r.template)
    /\ r.kind = "create" => r.template.id = r.id
    /\ r.kind = "update" => r.id \in Id
RequestsOK == IsSequence(request) /\ \A i \in DOMAIN request : RequestOK(request[i])

\* What has been loaded replaces the draft.
LoadedDraft == page.at \in Id /\ Loaded(cache[page.at]) => page.draft.id = page.at

Templates ==
    /\ ServerOK /\ CacheOK /\ PageOK /\ RequestsOK /\ LoadedDraft
    /\ missed \subseteq Query /\ budget \in Budget

\* The answer to a query is about to be marked as out of date.
Dirty(q) == \E i \in DOMAIN request : request[i].phase = "stored" /\ q \in Invalidated(request[i])
\* Neither the data of an entry nor an answer on its way is older than the
\* server's table unless a mark says so or is about to.
Current(q) ==
    Serve(q) # None =>
        /\ Loaded(cache[q]) /\ ~cache[q].invalid => cache[q].data = Serve(q) \/ Dirty(q)
        /\ cache[q].fetch \notin {Idle, Sent} => cache[q].fetch = Read(Serve(q)) \/ Dirty(q)
Fresh == \A q \in Query \ missed : Current(q)
-----------------------------------------------------------------------------
(* Sequences.                                                              *)

LEMMA SequenceShape ==
    ASSUME NEW s, IsSequence(s)
    PROVE  Len(s) \in Nat /\ DOMAIN s = 1 .. Len(s)
BY DEF IsSequence

LEMMA IsSequenceOver ==
    ASSUME NEW S, NEW s \in Seq(S)
    PROVE  IsSequence(s)
<1>1. s \in [1 .. Len(s) -> ToSet(s)]
    BY DEF ToSet
<1> QED
    BY <1>1 DEF IsSequence

LEMMA FunctionIsSequence ==
    ASSUME NEW S, NEW n \in Nat, NEW f \in [1 .. n -> S]
    PROVE  IsSequence(f) /\ Len(f) = n
<1>1. f \in Seq(S) /\ Len(f) = n
    OBVIOUS
<1> QED
    BY <1>1, IsSequenceOver

LEMMA AppendShape ==
    ASSUME NEW s, NEW e, IsSequence(s)
    PROVE  IsSequence(Append(s, e)) /\ Len(Append(s, e)) = Len(s) + 1
<1>1. s \in Seq(ToSet(s) \cup {e})
    BY DEF IsSequence
<1>2. Append(s, e) \in Seq(ToSet(s) \cup {e}) /\ Len(Append(s, e)) = Len(s) + 1
    BY <1>1
<1> QED
    BY <1>2, IsSequenceOver

LEMMA ExceptShape ==
    ASSUME NEW s, NEW i, NEW e, IsSequence(s)
    PROVE  IsSequence([s EXCEPT ![i] = e]) /\ Len([s EXCEPT ![i] = e]) = Len(s)
<1>1. [s EXCEPT ![i] = e] \in [1 .. Len(s) -> ToSet(s) \cup {e}]
    BY SequenceShape DEF ToSet
<1> QED
    BY <1>1, SequenceShape, FunctionIsSequence

LEMMA RemoveShape ==
    ASSUME NEW s, IsSequence(s), NEW i \in DOMAIN s
    PROVE  /\ IsSequence(RemoveAt(s, i)) /\ Len(RemoveAt(s, i)) = Len(s) - 1
           /\ \A j \in DOMAIN RemoveAt(s, i) : RemoveAt(s, i)[j] = s[IF j < i THEN j ELSE j + 1]
<1> DEFINE n == Len(s)
           a == SubSeq(s, 1, i - 1)
           b == SubSeq(s, i + 1, n)
<1>1. n \in Nat /\ i \in 1 .. n /\ s \in Seq(ToSet(s)) /\ DOMAIN s = 1 .. n
    BY SequenceShape DEF IsSequence
<1>2. a \in Seq(ToSet(s)) /\ Len(a) = i - 1 /\ \A j \in 1 .. i - 1 : a[j] = s[j]
    BY <1>1
<1>3. b \in Seq(ToSet(s)) /\ Len(b) = n - i /\ \A j \in 1 .. n - i : b[j] = s[i + j]
    BY <1>1
<1> HIDE DEF a, b, n
<1>4. a \o b \in Seq(ToSet(s)) /\ Len(a \o b) = n - 1
    <2>1. a \o b \in Seq(ToSet(s)) /\ Len(a \o b) = Len(a) + Len(b)
        BY <1>2, <1>3
    <2> QED
        BY <1>1, <1>2, <1>3, <2>1
<1>5. \A j \in 1 .. n - 1 : (a \o b)[j] = IF j < i THEN a[j] ELSE b[j - (i - 1)]
    <2> SUFFICES ASSUME NEW j \in 1 .. n - 1
                 PROVE  (a \o b)[j] = IF j < i THEN a[j] ELSE b[j - (i - 1)]
        OBVIOUS
    <2>1. j \in 1 .. Len(a) + Len(b)
        BY <1>1, <1>2, <1>3
    <2>2. (a \o b)[j] = IF j <= Len(a) THEN a[j] ELSE b[j - Len(a)]
        BY <1>2, <1>3, <2>1
    <2> QED
        BY <1>1, <1>2, <2>2
<1>6. \A j \in 1 .. n - 1 : (a \o b)[j] = s[IF j < i THEN j ELSE j + 1]
    <2> SUFFICES ASSUME NEW j \in 1 .. n - 1
                 PROVE  (a \o b)[j] = s[IF j < i THEN j ELSE j + 1]
        OBVIOUS
    <2>1. CASE j < i
        BY <1>1, <1>2, <1>5, <2>1
    <2>2. CASE ~(j < i)
        <3>1. j - (i - 1) \in 1 .. n - i /\ i + (j - (i - 1)) = j + 1
            BY <1>1, <2>2
        <3>2. b[j - (i - 1)] = s[i + (j - (i - 1))]
            BY <1>3, <3>1
        <3> QED
            BY <1>5, <2>2, <3>1, <3>2
    <2> QED
        BY <2>1, <2>2
<1>7. RemoveAt(s, i) = a \o b
    BY DEF RemoveAt, a, b, n
<1>8. IsSequence(a \o b) /\ DOMAIN (a \o b) = 1 .. n - 1
    <2>1. IsSequence(a \o b)
        BY <1>4, IsSequenceOver
    <2> QED
        BY <1>4, <2>1, SequenceShape
<1> QED
    BY <1>4, <1>6, <1>7, <1>8 DEF n

LEMMA EmptyShape == IsSequence(<<>>) /\ ToSet(<<>>) = {}
<1>1. <<>> \in Seq({}) /\ DOMAIN <<>> = {}
    OBVIOUS
<1> QED
    BY <1>1, IsSequenceOver DEF ToSet

LEMMA AppendHolds ==
    ASSUME NEW s, NEW e, IsSequence(s)
    PROVE  ToSet(Append(s, e)) = ToSet(s) \cup {e}
<1>1. s \in Seq(ToSet(s) \cup {e})
    BY DEF IsSequence
<1>2. Len(s) \in Nat /\ DOMAIN s = 1 .. Len(s)
    BY SequenceShape
<1>3. DOMAIN Append(s, e) = 1 .. Len(s) + 1
    BY AppendShape, SequenceShape
<1>4. \A i \in 1 .. Len(s) : Append(s, e)[i] = s[i]
    BY <1>1
<1>5. Append(s, e)[Len(s) + 1] = e
    BY <1>1
<1> QED
    BY <1>2, <1>3, <1>4, <1>5 DEF ToSet

\* The rank of a place among some places of a sequence.
Rank(places, i) == Cardinality(places \cap 1 .. i)

LEMMA PlacesFinite ==
    ASSUME NEW n \in Nat, NEW places \in SUBSET (1 .. n)
    PROVE  IsFiniteSet(places) /\ Cardinality(places) \in Nat /\ Cardinality(places) <= n
<1> DEFINE S == 1 .. n
<1>1. IsFiniteSet(S) /\ Cardinality(S) = n
    BY FS_Interval
<1>2. places \in SUBSET S
    OBVIOUS
<1> HIDE DEF S
<1>3. IsFiniteSet(places) /\ Cardinality(places) <= Cardinality(S)
    BY <1>1, <1>2, FS_Subset
<1> QED
    BY <1>1, <1>3, FS_CardinalityType

LEMMA RanksIncrease ==
    ASSUME NEW n \in Nat, NEW places \in SUBSET (1 .. n), NEW i \in places
    PROVE  /\ Rank(places, i) \in 1 .. Cardinality(places)
           /\ \A j \in places : j < i => Rank(places, j) < Rank(places, i)
<1>1. IsFiniteSet(places) /\ Cardinality(places) \in Nat
    BY PlacesFinite
<1>2. \A P \in SUBSET places : /\ IsFiniteSet(P) /\ Cardinality(P) \in Nat
                               /\ Cardinality(P) <= Cardinality(places)
    BY <1>1, FS_Subset, FS_CardinalityType
<1>3. places \cap 1 .. i # {}
    OBVIOUS
<1>4. Rank(places, i) \in 1 .. Cardinality(places)
    <2>1. places \cap 1 .. i \in SUBSET places
        OBVIOUS
    <2>2. Cardinality(places \cap 1 .. i) # 0
        BY <1>2, <1>3, <2>1, FS_EmptySet
    <2> QED
        BY <1>1, <1>2, <2>1, <2>2 DEF Rank
<1>5. ASSUME NEW j \in places, j < i
      PROVE  Rank(places, j) < Rank(places, i)
    <2>1. /\ places \cap 1 .. j \in SUBSET (places \cap 1 .. i)
          /\ places \cap 1 .. j # places \cap 1 .. i
        <3>1. i \in places \cap 1 .. i /\ i \notin places \cap 1 .. j
            BY <1>5
        <3> QED
            BY <1>5, <3>1
    <2>2. /\ IsFiniteSet(places \cap 1 .. i) /\ Cardinality(places \cap 1 .. i) \in Nat
          /\ Cardinality(places \cap 1 .. j) \in Nat
        BY <1>2
    <2>3. /\ Cardinality(places \cap 1 .. j) <= Cardinality(places \cap 1 .. i)
          /\ Cardinality(places \cap 1 .. j) # Cardinality(places \cap 1 .. i)
        BY <2>1, <2>2, FS_Subset
    <2> QED
        BY <2>2, <2>3 DEF Rank
<1> QED
    BY <1>4, <1>5

LEMMA EveryRankTaken ==
    ASSUME NEW n \in Nat, NEW places \in SUBSET (1 .. n), NEW k \in 1 .. Cardinality(places)
    PROVE  \E i \in places : Rank(places, i) = k
<1> DEFINE N == 1 .. Cardinality(places)
           f == [i \in places |-> Rank(places, i)]
<1>1. f \in [places -> N]
    BY RanksIncrease
<1>2. \A i, j \in places : i # j => f[i] # f[j]
    <2> SUFFICES ASSUME NEW i \in places, NEW j \in places, i < j
                 PROVE  f[i] # f[j]
        OBVIOUS
    <2>1. f[i] < f[j]
        BY RanksIncrease
    <2>2. f[i] \in Nat /\ f[j] \in Nat
        BY <1>1
    <2> QED
        BY <2>1, <2>2
<1>3. f \in Injection(places, N)
    <2> HIDE DEF f
    <2> QED
        BY <1>1, <1>2 DEF Injection, IsInjective
<1>4. IsFiniteSet(places) /\ IsFiniteSet(N) /\ Cardinality(N) = Cardinality(places)
    <2>1. IsFiniteSet(places) /\ Cardinality(places) \in Nat
        BY PlacesFinite
    <2> QED
        BY <2>1, FS_Interval
<1>5. f \in Surjection(places, N)
    <2> HIDE DEF f, N
    <2> QED
        BY <1>3, <1>4, FS_Injection
<1> QED
    BY <1>5 DEF Surjection

LEMMA TakenShape ==
    ASSUME NEW s, IsSequence(s), NEW places \in SUBSET DOMAIN s
    PROVE  /\ IsSequence(Taken(s, places)) /\ ToSet(Taken(s, places)) = {s[i] : i \in places}
           /\ Len(Taken(s, places)) \in 0 .. Len(s)
<1> DEFINE n == Cardinality(places)
           Place(m) == CHOOSE i \in places : Rank(places, i) = m
           S == {s[Place(m)] : m \in 1 .. n}
<1>1. Len(s) \in Nat /\ places \in SUBSET (1 .. Len(s))
    BY SequenceShape
<1>2. n \in Nat /\ n <= Len(s)
    BY <1>1, PlacesFinite
<1>3. Taken(s, places) = [m \in 1 .. n |-> s[Place(m)]]
    BY DEF Taken, Rank
<1>4. \A m \in 1 .. n : Place(m) \in places
    BY <1>1, EveryRankTaken
<1>5. ASSUME NEW i \in places
      PROVE  Rank(places, i) \in 1 .. n /\ Place(Rank(places, i)) = i
    <2>1. Rank(places, i) \in 1 .. n
        BY <1>1, RanksIncrease
    <2>2. \A j \in places : Rank(places, j) = Rank(places, i) => j = i
        <3> SUFFICES ASSUME NEW j \in places, Rank(places, j) = Rank(places, i), j # i
                     PROVE  FALSE
            OBVIOUS
        <3>1. i \in Nat /\ j \in Nat
            BY <1>1
        <3>2. j < i => Rank(places, j) < Rank(places, i)
            BY <1>1, RanksIncrease
        <3>3. i < j => Rank(places, i) < Rank(places, j)
            BY <1>1, RanksIncrease
        <3> HIDE DEF n
        <3> QED
            BY <1>2, <2>1, <3>1, <3>2, <3>3
    <2> QED
        BY <2>1, <2>2
<1> HIDE DEF n, Place
<1>6. IsSequence(Taken(s, places)) /\ DOMAIN Taken(s, places) = 1 .. n /\ Len(Taken(s, places)) = n
    <2>1. Taken(s, places) \in [1 .. n -> S]
        BY <1>3
    <2> QED
        BY <1>2, <2>1, FunctionIsSequence
<1>7. \A m \in 1 .. n : Taken(s, places)[m] = s[Place(m)]
    BY <1>3
<1>8. ToSet(Taken(s, places)) = {s[i] : i \in places}
    BY <1>4, <1>5, <1>6, <1>7 DEF ToSet
<1> QED
    BY <1>1, <1>2, <1>6, <1>8

LEMMA SequenceIn ==
    ASSUME NEW s, IsSequence(s), NEW S, ToSet(s) \subseteq S
    PROVE  s \in Seq(S)
<1>1. s \in [1 .. Len(s) -> S] /\ Len(s) \in Nat
    <2>1. s \in [1 .. Len(s) -> ToSet(s)] /\ Len(s) \in Nat
        BY DEF IsSequence
    <2> QED
        BY <2>1
<1> QED
    BY <1>1

LEMMA MembersIn ==
    ASSUME NEW S, NEW s \in Seq(S)
    PROVE  ToSet(s) \subseteq S
BY DEF ToSet

-----------------------------------------------------------------------------
(* Templates and parameters have their types.                              *)

LEMMA TemplateShape ==
    ASSUME NEW t, IsTemplate(t)
    PROVE  Structured(t)
<1>1. DOMAIN t = Fields /\ t.type \in {"switch", "select"}
    BY DEF IsTemplate, Fields
<1>2. IsSequence(t.options)
    BY IsSequenceOver DEF IsTemplate
<1>3. Len(t.options) >= 2
    <2>1. Len(t.options) \in 2 .. MaxOptions
        BY DEF IsTemplate
    <2>2. MaxOptions \in Int
        BY BoundAssumption
    <2> QED
        BY <2>1, <2>2
<1>4. t.sync # None => DOMAIN t.sync = SyncFields
    BY DEF IsTemplate, SyncConfig, SyncFields
<1>5. Numbered(t)
    <2> SUFFICES ASSUME NEW v \in DOMAIN t.states
                 PROVE  IsSequence(t.states[v]) /\ \A a \in ToSet(t.states[v]) : a.id \in 1 .. MaxActions
        BY DEF Numbered
    <2>1. t.states[v] \in Seq(Action)
        BY DEF IsTemplate
    <2>2. ToSet(t.states[v]) \subseteq Action
        BY <2>1, MembersIn
    <2> QED
        BY <2>1, <2>2, IsSequenceOver DEF Action
<1> QED
    BY <1>1, <1>2, <1>3, <1>4, <1>5 DEF Structured

LEMMA GoodShape ==
    ASSUME NEW t, Good(t)
    PROVE  IsTemplate(t) /\ Structured(t)
BY TemplateShape DEF Good

LEMMA ValuesThere ==
    /\ {"on", "off", "allow", "deny"} \subseteq Value
    /\ \A v \in Value : trim(v) \in Value
    /\ \A n \in 1 .. MaxOptions : OptionName[n] \in Value
<1>1. {"on", "off", "allow", "deny"} \subseteq Value /\ \A v \in Value : trim(v) \in Value
    BY DEF Value, trim
<1>2. \A n \in 1 .. MaxOptions : n \in DOMAIN OptionName
    BY BoundAssumption DEF OptionName
<1>3. \A n \in 1 .. MaxOptions : OptionName[n] \in ToSet(OptionName)
    BY <1>2 DEF ToSet
<1> QED
    BY <1>1, <1>3 DEF Value

LEMMA ParamsShape ==
    /\ \A p \in Params : DOMAIN p \subseteq Keys /\ \A k \in DOMAIN p : p[k] \in ParamValue
    /\ \A ks \in SUBSET Keys : [ks -> ParamValue] \subseteq Params
BY DEF Params

LEMMA ParamValuesThere ==
    /\ {Blank, "false", "true"} \cup ParamText \subseteq ParamValue
    /\ \A t \in TypeId : \A i \in DOMAIN Schema[t] :
          Schema[t][i].key \in Keys /\ ToSet(Schema[t][i].options) \subseteq ParamValue
<1> DEFINE Offered(t) == UNION {ToSet(Schema[t][i].options) : i \in DOMAIN Schema[t]}
           offered == UNION {Offered(t) : t \in TypeId}
           KeysOf(t) == {Schema[t][i].key : i \in DOMAIN Schema[t]}
<1>1. ParamValue = offered \cup ParamText \cup {Blank, "false", "true"}
    BY Zenon DEF ParamValue
<1>2. Keys = UNION {KeysOf(t) : t \in TypeId}
    BY DEF Keys
<1>3. \A t \in TypeId : \A i \in DOMAIN Schema[t] :
         Schema[t][i].key \in KeysOf(t) /\ ToSet(Schema[t][i].options) \subseteq Offered(t)
    OBVIOUS
<1> HIDE DEF Offered, KeysOf
<1>4. \A t \in TypeId : KeysOf(t) \subseteq Keys /\ Offered(t) \subseteq offered
    BY <1>2
<1> HIDE DEF offered
<1> QED
    BY <1>1, <1>3, <1>4

\* The fields of a type, with the options a scope offers.
LEMMA FieldsThere ==
    ASSUME NEW type \in TypeId, NEW scope
    PROVE  \A f \in ToSet(scopeParamSchema(Schema[type], scope)) :
              f.key \in Keys /\ IsSequence(f.options) /\ ToSet(f.options) \subseteq ParamValue
<1> DEFINE fields == Schema[type]
           scoped == scopeParamSchema(fields, scope)
<1> SUFFICES ASSUME NEW f \in ToSet(scoped)
             PROVE  f.key \in Keys /\ IsSequence(f.options) /\ ToSet(f.options) \subseteq ParamValue
    OBVIOUS
<1>1. PICK i \in DOMAIN fields : f = scoped[i]
    BY DEF scopeParamSchema, ToSet
<1> DEFINE g == fields[i]
<1>2. /\ DOMAIN g = {"key", "kind", "options", "visible_if"} /\ IsSequence(g.options)
      /\ g.key \in Keys /\ ToSet(g.options) \subseteq ParamValue
    <2>1. g \in ToSet(fields)
        BY DEF ToSet
    <2>2. DOMAIN g = {"key", "kind", "options", "visible_if"} /\ g.options \in Seq(ToSet(g.options))
        BY <2>1, SchemaAssumption
    <2> QED
        BY <2>2, ParamValuesThere DEF IsSequence
<1> DEFINE places == {j \in DOMAIN g.options : g.options[j] \notin DeviceRefs}
<1>3. f = g \/ f = [g EXCEPT !.options = Taken(g.options, places)]
    BY <1>1 DEF scopeParamSchema
<1>4. /\ IsSequence(Taken(g.options, places))
      /\ ToSet(Taken(g.options, places)) \subseteq ToSet(g.options)
    <2>1. places \in SUBSET DOMAIN g.options
        OBVIOUS
    <2> HIDE DEF places, g
    <2>2. /\ IsSequence(Taken(g.options, places))
          /\ ToSet(Taken(g.options, places)) = {g.options[j] : j \in places}
        BY <1>2, <2>1, TakenShape
    <2> QED
        BY <2>1, <2>2 DEF ToSet
<1> HIDE DEF g, places
<1> QED
    BY <1>2, <1>3, <1>4

LEMMA InputsThere ==
    ASSUME NEW f, ToSet(f.options) \subseteq ParamValue
    PROVE  Inputs(f) \subseteq ParamValue
<1>1. {"false", "true"} \cup ParamText \subseteq ParamValue
    BY ParamValuesThere
<1> QED
    BY <1>1 DEF Inputs

LEMMA DefaultsThere ==
    ASSUME NEW fields, \A f \in ToSet(fields) :
               f.key \in Keys /\ IsSequence(f.options) /\ ToSet(f.options) \subseteq ParamValue
    PROVE  defaultSyncParams(fields) \in Params
<1> DEFINE keys == {fields[i].key : i \in DOMAIN fields}
           First(k) == CHOOSE f \in ToSet(fields) : f.key = k
<1>1. \A f \in ToSet(fields) : defaultValueForActionField(f) \in ParamValue
    <2> SUFFICES ASSUME NEW f \in ToSet(fields)
                 PROVE  defaultValueForActionField(f) \in ParamValue
        OBVIOUS
    <2>1. "false" \in ParamValue /\ Blank \in ParamValue
        BY ParamValuesThere
    <2>2. f.options # <<>> => f.options[1] \in ToSet(f.options)
        <3>1. f.options \in Seq(ToSet(f.options))
            BY DEF IsSequence
        <3>2. f.options # <<>> => 1 \in DOMAIN f.options
            BY <3>1
        <3> QED
            BY <3>2 DEF ToSet
    <2> QED
        BY <2>1, <2>2 DEF defaultValueForActionField
<1>2. \A k \in keys : First(k) \in ToSet(fields)
    BY DEF ToSet
<1>3. keys \subseteq Keys
    BY DEF ToSet
<1>4. defaultSyncParams(fields) = [k \in keys |-> defaultValueForActionField(First(k))]
    BY DEF defaultSyncParams
<1> HIDE DEF keys, First
<1>5. defaultSyncParams(fields) \in [keys -> ParamValue]
    BY <1>1, <1>2, <1>4
<1> QED
    BY <1>3, <1>5, ParamsShape

LEMMA NoParamsThere == NoParams \in Params
<1>1. NoParams \in [{} -> ParamValue]
    BY DEF NoParams
<1> QED
    BY <1>1, ParamsShape

LEMMA WithParamThere ==
    ASSUME NEW p \in Params, NEW key \in Keys, NEW v \in ParamValue
    PROVE  WithParam(p, key, v) \in Params
<1>1. WithParam(p, key, v) \in [DOMAIN p \cup {key} -> ParamValue]
    BY ParamsShape DEF WithParam
<1>2. DOMAIN p \cup {key} \in SUBSET Keys
    BY ParamsShape
<1> QED
    BY <1>1, <1>2, ParamsShape

\* A new type's parameters, and what an input of a type makes of them.
LEMMA TypeParamsThere ==
    ASSUME NEW type \in TypeId, NEW scope
    PROVE  defaultSyncParams(scopeParamSchema(Schema[type], scope)) \in Params
BY FieldsThere, DefaultsThere

LEMMA InputParamsThere ==
    ASSUME NEW type \in TypeId, NEW scope, NEW params \in Params,
           NEW f \in resolveVisibleFields(scopeParamSchema(Schema[type], scope), params),
           NEW v \in Inputs(f)
    PROVE  WithParam(params, f.key, v) \in Params
<1>1. f \in ToSet(scopeParamSchema(Schema[type], scope))
    BY DEF resolveVisibleFields
<1>2. f.key \in Keys /\ ToSet(f.options) \subseteq ParamValue
    BY <1>1, FieldsThere
<1>3. v \in ParamValue
    BY <1>2, InputsThere
<1> QED
    BY <1>2, <1>3, WithParamThere

-----------------------------------------------------------------------------
(* Edits keep a template in order.                                         *)

LEMMA UniqueShape ==
    ASSUME NEW S, NEW values \in Seq(S)
    PROVE  Unique(values) \in Seq(S) /\ Len(Unique(values)) \in 0 .. Len(values)
<1> DEFINE firsts == {i \in DOMAIN values : values[i] # Blank /\ \A j \in 1 .. i - 1 : values[j] # values[i]}
<1>1. IsSequence(values) /\ firsts \in SUBSET DOMAIN values
    BY IsSequenceOver
<1>2. Unique(values) = Taken(values, firsts)
    BY DEF Unique
<1> HIDE DEF firsts
<1>3. /\ IsSequence(Unique(values)) /\ Len(Unique(values)) \in 0 .. Len(values)
      /\ ToSet(Unique(values)) = {values[i] : i \in firsts}
    BY <1>1, <1>2, TakenShape
<1>4. ToSet(Unique(values)) \subseteq S
    BY <1>1, <1>3
<1> QED
    BY <1>3, <1>4, SequenceIn

LEMMA BlankIsNoValue == "allow" # Blank /\ "deny" # Blank
BY DEF Blank

LEMMA AddUniqueShape ==
    ASSUME NEW S, NEW s \in Seq(S), NEW v \in S
    PROVE  /\ AddUnique(s, v) \in Seq(S) /\ Len(AddUnique(s, v)) \in Len(s) .. Len(s) + 1
           /\ v # Blank => v \in ToSet(AddUnique(s, v))
           /\ ToSet(s) \subseteq ToSet(AddUnique(s, v))
<1>1. CASE v \in {Blank} \cup ToSet(s)
    <2>1. AddUnique(s, v) = s
        BY <1>1 DEF AddUnique
    <2> QED
        BY <1>1, <2>1
<1>2. CASE v \notin {Blank} \cup ToSet(s)
    <2>1. AddUnique(s, v) = Append(s, v)
        BY <1>2 DEF AddUnique
    <2>2. /\ Append(s, v) \in Seq(S) /\ Len(Append(s, v)) = Len(s) + 1
          /\ Append(s, v)[Len(s) + 1] = v
          /\ \A i \in DOMAIN s : i \in DOMAIN Append(s, v) /\ Append(s, v)[i] = s[i]
        OBVIOUS
    <2>3. Len(s) + 1 \in DOMAIN Append(s, v)
        BY <2>2
    <2>4. v \in ToSet(Append(s, v)) /\ ToSet(s) \subseteq ToSet(Append(s, v))
        BY <2>2, <2>3 DEF ToSet
    <2> QED
        BY <2>1, <2>2, <2>4
<1> QED
    BY <1>1, <1>2

LEMMA FilledShape ==
    ASSUME NEW unique \in Seq(Value), Len(unique) < 2
    PROVE  LET deny == AddUnique(AddUnique(unique, "allow"), "deny") IN
           deny \in Seq(Value) /\ Len(deny) \in 2 .. 3
<1>1. "allow" \in Value /\ "deny" \in Value /\ "allow" # Blank /\ "deny" # Blank
    BY ValuesThere, BlankIsNoValue
<1>2. PICK allow : allow = AddUnique(unique, "allow")
    OBVIOUS
<1>3. PICK deny : deny = AddUnique(allow, "deny")
    OBVIOUS
<1>4. /\ allow \in Seq(Value) /\ Len(allow) \in Len(unique) .. Len(unique) + 1
      /\ "allow" \in ToSet(allow)
    BY <1>1, <1>2, AddUniqueShape
<1>5. /\ deny \in Seq(Value) /\ Len(deny) \in Len(allow) .. Len(allow) + 1
      /\ "deny" \in ToSet(deny) /\ ToSet(allow) \subseteq ToSet(deny)
    BY <1>1, <1>3, <1>4, AddUniqueShape
<1>6. "allow" \in ToSet(deny)
    BY <1>4, <1>5
<1>7. PICK n \in Nat : n = Len(deny) /\ n <= 3
    BY <1>4, <1>5
<1>8. \E i, j \in 1 .. n : i # j
    <2>1. PICK i \in DOMAIN deny, j \in DOMAIN deny : deny[i] = "allow" /\ deny[j] = "deny"
        BY <1>5, <1>6 DEF ToSet
    <2>2. DOMAIN deny = 1 .. n /\ i # j
        BY <1>5, <1>7, <2>1
    <2> QED
        BY <2>1, <2>2
<1>9. n \in 2 .. 3
    BY <1>7, <1>8
<1>10. Len(deny) \in 2 .. 3
    BY <1>7, <1>9
<1> QED
    BY <1>2, <1>3, <1>5, <1>10

LEMMA ControlShape ==
    ASSUME NEW type, NEW options \in Seq(Value), Len(options) \in 2 .. MaxOptions
    PROVE  /\ normalizeControl(type, options) \in Seq(Value)
           /\ Len(normalizeControl(type, options)) \in 2 .. MaxOptions
           /\ type = "switch" => normalizeControl(type, options) = <<"on", "off">>
<1>0. MaxOptions \in Nat /\ MaxOptions >= 3
    BY BoundAssumption DEF OptionName
<1>1. CASE type = "switch"
    <2>1. normalizeControl(type, options) = <<"on", "off">>
        BY <1>1 DEF normalizeControl
    <2>2. <<"on", "off">> \in Seq(Value) /\ Len(<<"on", "off">>) = 2
        BY ValuesThere
    <2> QED
        BY <1>0, <2>1, <2>2
<1>2. CASE type # "switch"
    <2> DEFINE trimmed == [i \in DOMAIN options |-> trim(options[i])]
               unique == Unique(trimmed)
               allow == AddUnique(unique, "allow")
               deny == AddUnique(allow, "deny")
    <2>1. trimmed \in [1 .. Len(options) -> Value]
        BY ValuesThere
    <2>2. trimmed \in Seq(Value) /\ Len(trimmed) = Len(options)
        BY <2>1
    <2> HIDE DEF trimmed
    <2>3. unique \in Seq(Value) /\ Len(unique) \in 0 .. Len(options)
        BY <2>2, UniqueShape
    <2>4. normalizeControl(type, options) = IF Len(unique) < 2 THEN deny ELSE unique
        BY <1>2 DEF normalizeControl, trimmed
    <2>5. CASE Len(unique) >= 2
        <3>1. normalizeControl(type, options) = unique
            BY <2>3, <2>4, <2>5
        <3>2. Len(options) \in Nat /\ Len(options) <= MaxOptions
            BY <1>0
        <3> HIDE DEF unique
        <3>3. Len(unique) \in Nat /\ Len(unique) <= Len(options)
            BY <2>3, <3>2
        <3>4. Len(unique) \in 2 .. MaxOptions
            BY <1>0, <2>5, <3>2, <3>3
        <3> QED
            BY <1>2, <2>3, <3>1, <3>4
    <2>6. CASE Len(unique) < 2
        <3>1. normalizeControl(type, options) = deny
            BY <2>3, <2>4, <2>6
        <3>2. deny \in Seq(Value) /\ Len(deny) \in 2 .. 3
            BY <2>3, <2>6, FilledShape
        <3> HIDE DEF deny
        <3>3. 2 .. 3 \subseteq 2 .. MaxOptions
            BY <1>0
        <3>4. Len(deny) \in 2 .. MaxOptions
            BY <3>2, <3>3
        <3> QED
            BY <1>2, <3>1, <3>2, <3>4
    <2> HIDE DEF unique
    <2> QED
        BY <2>3, <2>5, <2>6
<1> QED
    BY <1>1, <1>2

\* What an edit leaves: a template in good order, under the same identifier.
Kept(t, u) == Good(u) /\ u.id = t.id

\* An edit of anything but the options, the actions and the default state.
Apart(t, u) ==
    /\ Kept(t, u)
    /\ u.options = t.options /\ u.type = t.type /\ u.states = t.states /\ u.default_state = t.default_state

\* The default state is one of the options unless it was not, or was renamed.
Defaulted(t, u) ==
    LET renamed == /\ u.type = "select" /\ Len(u.options) = Len(t.options)
                   /\ \E i \in DOMAIN t.options : t.options[i] = t.default_state /\ u.options[i] # t.options[i]
    IN  t.default_state \in ToSet(t.options) /\ u.default_state \notin ToSet(u.options) => renamed

\* An edit of the options leaves the actions of those that stay.
Local(t, u) ==
    /\ Kept(t, u)
    /\ \A v \in DOMAIN t.states \cap DOMAIN u.states : u.states[v] = t.states[v]
    /\ ForeignConsistent => Defaulted(t, u)

LEMMA SameStatesKeep ==
    ASSUME NEW t, Good(t), NEW u, IsTemplate(u), u.options = t.options, u.type = t.type,
           DOMAIN u.states = DOMAIN t.states, Distinct(t) => Distinct(u)
    PROVE  Good(u)
BY DEF Good, Consistent

LEMMA SameOptionsKeep ==
    ASSUME NEW t, Good(t), NEW u, IsTemplate(u), u.options = t.options, u.type = t.type,
           u.states = t.states
    PROVE  Good(u)
<1>1. Distinct(t) => Distinct(u)
    BY DEF Distinct
<1> QED
    BY <1>1, SameStatesKeep

\* The state of an option keeps its actions; that of a new one has none.
LEMMA NewOptionsKeep ==
    ASSUME NEW t, Good(t), NEW u, DOMAIN u = Fields,
           u.options \in Seq(Value), Len(u.options) \in 2 .. MaxOptions,
           u.states = buildStateMapFromOptions(u.options, t.states), u.type \in {"switch", "select"},
           u.type = "switch" => u.options = <<"on", "off">>,
           u.default_state \in Value, u.ha \in HaExpose, u.id = t.id, u.label = t.label,
           u.wording = t.wording, u.scope = t.scope, u.sync = t.sync
    PROVE  /\ Good(u)
           /\ \A v \in DOMAIN t.states \cap DOMAIN u.states : u.states[v] = t.states[v]
<1>1. DOMAIN u.states = ToSet(u.options)
    BY DEF buildStateMapFromOptions
<1>2. \A v \in DOMAIN u.states : u.states[v] = IF v \in DOMAIN t.states THEN t.states[v] ELSE <<>>
    BY DEF buildStateMapFromOptions
<1>3. IsTemplate(t) /\ (ForeignDistinct => Distinct(t))
    BY DEF Good
<1>4. IsTemplate(u)
    <2>1. DOMAIN u.states \subseteq Value
        BY <1>1, MembersIn
    <2>2. \A v \in DOMAIN u.states : u.states[v] \in Seq(Action)
        <3>1. <<>> \in Seq(Action)
            OBVIOUS
        <3>2. \A v \in DOMAIN t.states : t.states[v] \in Seq(Action)
            BY <1>3 DEF IsTemplate
        <3> QED
            BY <1>2, <3>1, <3>2
    <2> QED
        BY <1>3, <2>1, <2>2 DEF IsTemplate, Fields
<1>5. Distinct(t) => Distinct(u)
    <2> SUFFICES ASSUME Distinct(t), NEW v \in DOMAIN u.states,
                        NEW a \in ToSet(u.states[v]), NEW b \in ToSet(u.states[v]), a.id = b.id
                 PROVE  a = b
        BY DEF Distinct
    <2>1. v \in DOMAIN t.states /\ u.states[v] = t.states[v]
        BY <1>2, EmptyShape
    <2> QED
        BY <2>1 DEF Distinct
<1>6. Good(u)
    BY <1>1, <1>3, <1>4, <1>5 DEF Good, Consistent
<1> QED
    BY <1>2, <1>6

\* The default state falls back to the first option.
LEMMA DefaultInOptions ==
    ASSUME NEW t, t.options \in Seq(Value), Len(t.options) >= 2, DOMAIN t.states = ToSet(t.options)
    PROVE  DefaultIn(t) \in ToSet(t.options)
<1>1. 1 \in DOMAIN t.options
    OBVIOUS
<1>2. t.options[1] \in ToSet(t.options)
    BY <1>1 DEF ToSet
<1> QED
    BY <1>2 DEF DefaultIn

LEMMA ControlTabKeeps ==
    ASSUME NEW t, Good(t), NEW u \in ControlEdits(t)
    PROVE  Local(t, u)
<1>1. /\ DOMAIN t = Fields /\ t.type \in {"switch", "select"} /\ t.options \in Seq(Value)
      /\ Len(t.options) \in 2 .. MaxOptions /\ t.default_state \in Value /\ t.ha \in HaExpose
    BY DEF Good, IsTemplate, Fields
<1>2. /\ Len(t.options) \in Nat /\ DOMAIN t.options = 1 .. Len(t.options) /\ Len(t.options) >= 2
      /\ IsSequence(t.options) /\ MaxOptions \in Nat
    BY <1>1, BoundAssumption, IsSequenceOver
<1>3. ASSUME NEW type \in {"switch", "select"}, u = setControlType(t, type)
      PROVE  Local(t, u)
    <2> DEFINE options == normalizeControl(type, t.options)
               w == WithOptions(t, options)
    <2>1. /\ options \in Seq(Value) /\ Len(options) \in 2 .. MaxOptions
          /\ type = "switch" => options = <<"on", "off">>
        BY <1>1, ControlShape
    <2>2. u = [w EXCEPT !.type = type, !.default_state = DefaultIn(w), !.ha.entity_type = type]
        BY <1>3 DEF setControlType
    <2> HIDE DEF options
    <2>3. w.options = options /\ w.states = buildStateMapFromOptions(options, t.states) /\ DOMAIN w = Fields
        BY <1>1 DEF WithOptions, Fields
    <2>4. /\ DOMAIN u = Fields /\ u.options = options /\ u.sync = t.sync /\ u.id = t.id
          /\ u.states = buildStateMapFromOptions(options, t.states) /\ u.type = type
          /\ u.default_state = DefaultIn(w)
          /\ u.label = t.label /\ u.wording = t.wording /\ u.scope = t.scope
        BY <1>1, <2>2 DEF WithOptions, Fields
    <2>7. u.ha \in HaExpose
        <3>1. u.ha = [t.ha EXCEPT !.entity_type = type]
            BY <1>1, <2>2 DEF WithOptions, Fields
        <3> QED
            BY <1>1, <3>1 DEF HaExpose
    <2>5. DefaultIn(w) \in ToSet(options)
        <3>1. DOMAIN w.states = ToSet(w.options)
            BY <2>3 DEF buildStateMapFromOptions
        <3>2. Len(options) >= 2
            BY <1>2, <2>1
        <3> HIDE DEF w
        <3> QED
            BY <2>1, <2>3, <3>1, <3>2, DefaultInOptions
    <2> HIDE DEF w
    <2>6. Defaulted(t, u)
        BY <2>4, <2>5 DEF Defaulted
    <2>8. u.default_state \in Value
        BY <2>1, <2>4, <2>5, MembersIn
    <2> QED
        <3>2. /\ u.type \in {"switch", "select"}
              /\ u.options \in Seq(Value) /\ Len(u.options) \in 2 .. MaxOptions
              /\ u.states = buildStateMapFromOptions(u.options, t.states)
              /\ u.type = "switch" => u.options = <<"on", "off">>
            BY <2>1, <2>4
        <3>3. Good(u) /\ \A v \in DOMAIN t.states \cap DOMAIN u.states : u.states[v] = t.states[v]
            BY <2>4, <2>7, <2>8, <3>2, NewOptionsKeep
        <3> QED
            BY <2>4, <2>6, <3>3 DEF Local, Kept
<1>4. ASSUME NEW options \in Seq(Value), Len(options) \in 2 .. MaxOptions,
             t.type = "switch" => options = <<"on", "off">>, u = WithOptions(t, options)
      PROVE  /\ u.options = options /\ u.type = t.type /\ u.default_state = t.default_state
             /\ (ForeignConsistent => Defaulted(t, u)) => Local(t, u)
    <2>1. /\ DOMAIN u = Fields /\ u.options = options /\ u.sync = t.sync /\ u.id = t.id
          /\ u.states = buildStateMapFromOptions(options, t.states) /\ u.type = t.type
          /\ u.default_state = t.default_state
          /\ u.label = t.label /\ u.wording = t.wording /\ u.scope = t.scope /\ u.ha = t.ha
        BY <1>1, <1>4 DEF WithOptions, Fields
    <2> QED
        BY <1>1, <1>4, <2>1, NewOptionsKeep DEF Local, Kept
<1>5. ASSUME NEW i \in DOMAIN t.options, NEW value \in Value, u = updateControlOption(t, i, value)
      PROVE  Local(t, u)
    <2>1. CASE t.type = "switch"
        <3> DEFINE options == <<"on", "off">>
        <3>1. options \in Seq(Value) /\ Len(options) \in 2 .. MaxOptions
            <4>1. Len(options) = 2 /\ options \in Seq(Value)
                BY ValuesThere
            <4> QED
                BY <1>1, <1>2, <4>1
        <3>2. u = WithOptions(t, options)
            BY <1>5, <2>1 DEF updateControlOption
        <3>3. options = <<"on", "off">>
            OBVIOUS
        <3> HIDE DEF options
        <3>4. /\ u.options = options /\ u.type = t.type /\ u.default_state = t.default_state
              /\ (ForeignConsistent => Defaulted(t, u)) => Local(t, u)
            BY <1>4, <3>1, <3>2, <3>3
        <3>5. ForeignConsistent => t.options = options
            BY <2>1, <3>3 DEF Good, Consistent
        <3> QED
            BY <3>4, <3>5 DEF Defaulted
    <2>2. CASE t.type # "switch"
        <3> DEFINE options == [t.options EXCEPT ![i] = value]
        <3>1. options \in Seq(Value) /\ Len(options) = Len(t.options)
            <4>1. options \in [1 .. Len(t.options) -> Value]
                BY <1>1, <1>5
            <4> HIDE DEF options
            <4> QED
                BY <1>2, <4>1
        <3>2. u = WithOptions(t, options)
            BY <1>5, <2>2 DEF updateControlOption
        <3> HIDE DEF options
        <3>3. /\ u.options = options /\ u.type = t.type /\ u.default_state = t.default_state
              /\ (ForeignConsistent => Defaulted(t, u)) => Local(t, u)
            BY <1>1, <1>4, <2>2, <3>1, <3>2
        <3>4. Defaulted(t, u)
            <4> SUFFICES ASSUME NEW j \in DOMAIN t.options, t.options[j] = t.default_state,
                                t.default_state \notin ToSet(options)
                         PROVE  options[j] # t.options[j]
                BY <1>1, <2>2, <3>1, <3>3 DEF Defaulted, ToSet
            <4>1. DOMAIN options = DOMAIN t.options
                BY DEF options
            <4> QED
                BY <4>1 DEF ToSet
        <3> QED
            BY <3>3, <3>4
    <2> QED
        BY <2>1, <2>2
<1>6. ASSUME NEW i \in DOMAIN t.options, u = removeSelectOption(t, i)
      PROVE  Local(t, u)
    <2>1. CASE t.type # "select" \/ Len(t.options) <= 2
        BY <1>6, <2>1 DEF removeSelectOption, Local, Kept, Defaulted
    <2>2. CASE ~(t.type # "select" \/ Len(t.options) <= 2)
        <3> DEFINE options == RemoveAt(t.options, i)
                   w == WithOptions(t, options)
        <3>1. options \in Seq(Value) /\ Len(options) \in 2 .. MaxOptions /\ Len(options) >= 2
            <4>1. IsSequence(options) /\ Len(options) = Len(t.options) - 1
                BY <1>2, RemoveShape
            <4>2. options \in Seq(Value)
                <5>1. ToSet(options) \subseteq Value
                    <6>1. \A j \in DOMAIN options : \E k \in DOMAIN t.options : options[j] = t.options[k]
                        <7>1. \A j \in DOMAIN options : options[j] = t.options[IF j < i THEN j ELSE j + 1]
                            BY <1>2, RemoveShape
                        <7>2. DOMAIN options = 1 .. Len(t.options) - 1
                            BY <4>1, SequenceShape
                        <7> HIDE DEF options
                        <7>3. \A j \in DOMAIN options : j \in DOMAIN t.options /\ j + 1 \in DOMAIN t.options
                            BY <1>2, <7>2
                        <7> QED
                            BY <7>1, <7>3
                    <6> HIDE DEF options
                    <6> QED
                        BY <1>1, <6>1 DEF ToSet
                <5> HIDE DEF options
                <5> QED
                    BY <4>1, <5>1, SequenceIn
            <4>3. Len(t.options) > 2
                BY <1>2, <2>2
            <4> HIDE DEF options
            <4> QED
                BY <1>1, <1>2, <4>1, <4>2, <4>3
        <3>2. u = [w EXCEPT !.default_state = DefaultIn(w)]
            BY <1>6, <2>2 DEF removeSelectOption
        <3> HIDE DEF options
        <3>3. w.options = options /\ w.states = buildStateMapFromOptions(options, t.states)
            BY <1>1 DEF WithOptions, Fields
        <3>4. /\ DOMAIN u = Fields /\ u.options = options /\ u.sync = t.sync /\ u.id = t.id
              /\ u.states = buildStateMapFromOptions(options, t.states) /\ u.type = t.type
              /\ u.default_state = DefaultIn(w)
              /\ u.label = t.label /\ u.wording = t.wording /\ u.scope = t.scope /\ u.ha = t.ha
            BY <1>1, <3>2 DEF WithOptions, Fields
        <3>5. DefaultIn(w) \in ToSet(options)
            <4>1. DOMAIN w.states = ToSet(w.options)
                BY <3>3 DEF buildStateMapFromOptions
            <4> HIDE DEF w
            <4> QED
                BY <3>1, <3>3, <4>1, DefaultInOptions
        <3> HIDE DEF w
        <3>6. Defaulted(t, u)
            BY <3>4, <3>5 DEF Defaulted
        <3>7. u.default_state \in Value
            BY <3>1, <3>4, <3>5, MembersIn
        <3> QED
            BY <1>1, <2>2, <3>1, <3>4, <3>6, <3>7, NewOptionsKeep DEF Local, Kept
    <2> QED
        BY <2>1, <2>2
<1>7. ASSUME t.type # "switch", Len(t.options) < MaxOptions, u = addSelectOption(t)
      PROVE  Local(t, u)
    <2> DEFINE options == Append(t.options, OptionName[Len(t.options) + 1])
    <2>1. options \in Seq(Value) /\ Len(options) \in 2 .. MaxOptions
        <3>1. OptionName[Len(t.options) + 1] \in Value
            BY <1>2, <1>7, ValuesThere
        <3>2. options \in Seq(Value) /\ Len(options) = Len(t.options) + 1
            BY <1>1, <3>1
        <3> HIDE DEF options
        <3> QED
            BY <1>2, <1>7, <3>2
    <2>2. ToSet(t.options) \subseteq ToSet(options)
        BY <1>2, AppendHolds
    <2>3. u = WithOptions(t, options)
        BY <1>7 DEF addSelectOption
    <2> HIDE DEF options
    <2>4. /\ u.options = options /\ u.default_state = t.default_state
          /\ (ForeignConsistent => Defaulted(t, u)) => Local(t, u)
        BY <1>4, <1>7, <2>1, <2>3
    <2> QED
        BY <2>2, <2>4 DEF Defaulted
<1>8. ASSUME NEW v \in ToSet(t.options), u = [t EXCEPT !.default_state = v]
      PROVE  Local(t, u)
    <2>1. /\ DOMAIN u = Fields /\ u.options = t.options /\ u.type = t.type /\ u.id = t.id
          /\ u.states = t.states /\ u.sync = t.sync /\ u.default_state = v
          /\ u.label = t.label /\ u.wording = t.wording /\ u.scope = t.scope /\ u.ha = t.ha
        BY <1>1, <1>8 DEF Fields
    <2>2. IsTemplate(u)
        <3>1. v \in Value
            BY <1>1, MembersIn
        <3> QED
            BY <2>1, <3>1 DEF Good, IsTemplate, Fields
    <2>3. Defaulted(t, u)
        BY <2>1 DEF Defaulted
    <2> QED
        BY <2>1, <2>2, <2>3, SameOptionsKeep DEF Local, Kept
<1>9. \A i \in DOMAIN t.options : t.options[i] \in Value
    BY <1>1
<1>10. Typed \subseteq Value
    BY DEF Value
<1> QED
    BY <1>3, <1>5, <1>6, <1>7, <1>8, <1>9, <1>10 DEF ControlEdits

\* An edit of fields that neither the options nor the synchronisation depend on.
LEMMA PlainEditKeeps ==
    ASSUME NEW t, Good(t), NEW u, DOMAIN u = Fields,
           u.options = t.options, u.type = t.type, u.sync = t.sync, u.states = t.states,
           u.default_state = t.default_state, u.id \in Id \cup {Blank}, u.label \in Text \cup {Blank},
           u.wording \in Text \cup {Blank}, u.scope \in {"device", "global"}, u.ha \in HaExpose
    PROVE  Good(u)
<1>1. IsTemplate(u)
    BY DEF Good, IsTemplate, Fields
<1> QED
    BY <1>1, SameOptionsKeep

LEMMA BasicTabKeeps ==
    ASSUME NEW t, Good(t), NEW new \in BOOLEAN, NEW u \in BasicEdits(t, new)
    PROVE  /\ Good(u) /\ (~new => u.id = t.id)
           /\ u.options = t.options /\ u.states = t.states /\ u.default_state = t.default_state
<1>1. /\ DOMAIN t = Fields /\ t.id \in Id \cup {Blank} /\ t.label \in Text \cup {Blank}
      /\ t.wording \in Text \cup {Blank} /\ t.scope \in {"device", "global"} /\ t.ha \in HaExpose
    BY DEF Good, IsTemplate, Fields
<1>2. CASE \E i \in Id \cup {Blank} : new /\ u = [t EXCEPT !.id = i]
    BY <1>1, <1>2, PlainEditKeeps DEF Fields
<1>3. CASE \E l \in Text \cup {Blank} : u = [t EXCEPT !.label = l]
    BY <1>1, <1>3, PlainEditKeeps DEF Fields
<1>4. CASE \E l \in Text : u = [t EXCEPT !.wording = l]
    BY <1>1, <1>4, PlainEditKeeps DEF Fields
<1>5. CASE \E s \in {"device", "global"} : u = [t EXCEPT !.scope = s]
    BY <1>1, <1>5, PlainEditKeeps DEF Fields
<1> QED
    BY <1>2, <1>3, <1>4, <1>5 DEF BasicEdits

\* The actions that a state has lost.
Lost(t, u, v) == ToSet(t.states[v]) \ ToSet(u.states[v])

\* An edit of the actions of states.
LEMMA ActionsEditKeeps ==
    ASSUME NEW t, Good(t), NEW u, DOMAIN u = Fields,
           u.options = t.options, u.type = t.type, u.sync = t.sync, u.default_state = t.default_state,
           u.id = t.id, u.label = t.label, u.wording = t.wording, u.scope = t.scope, u.ha = t.ha,
           DOMAIN u.states = DOMAIN t.states, \A v \in DOMAIN t.states : u.states[v] \in Seq(Action),
           Distinct(t) => Distinct(u)
    PROVE  Good(u)
<1>1. IsTemplate(u)
    BY DEF Good, IsTemplate, Fields
<1> QED
    BY <1>1, SameStatesKeep

\* At most one action less, if identifiers tell them apart.
LEMMA RemovedActionsKeep ==
    ASSUME NEW t, Good(t), NEW state \in DOMAIN t.states, NEW action \in ToSet(t.states[state])
    PROVE  LET u == removeActionFromState(t, state, action.id) IN
           /\ Kept(t, u) /\ DOMAIN u.states = DOMAIN t.states
           /\ u.options = t.options /\ u.default_state = t.default_state
           /\ ForeignDistinct => \A v \in DOMAIN t.states : Lost(t, u, v) \subseteq {action}
<1> DEFINE s == t.states[state]
           places == {i \in DOMAIN s : s[i].id # action.id}
           u == removeActionFromState(t, state, action.id)
<1>1. DOMAIN t = Fields /\ (ForeignDistinct => Distinct(t)) /\ \A v \in DOMAIN t.states : t.states[v] \in Seq(Action)
    BY DEF Good, IsTemplate, Fields
<1>2. IsSequence(s) /\ ToSet(s) \subseteq Action
    BY <1>1, IsSequenceOver, MembersIn
<1>3. IsSequence(Taken(s, places)) /\ ToSet(Taken(s, places)) = {s[i] : i \in places}
    BY <1>2, TakenShape
<1>4. ToSet(Taken(s, places)) = {a \in ToSet(s) : a.id # action.id}
    BY <1>3 DEF ToSet
<1>5. /\ DOMAIN u = Fields /\ u.options = t.options /\ u.type = t.type /\ u.sync = t.sync
      /\ u.id = t.id /\ u.default_state = t.default_state
      /\ u.label = t.label /\ u.wording = t.wording /\ u.scope = t.scope /\ u.ha = t.ha
      /\ u.states = [t.states EXCEPT ![state] = Taken(s, places)]
    BY <1>1 DEF removeActionFromState, Fields
<1> DEFINE kept == Taken(s, places)
<1> HIDE DEF u, kept
<1>6. /\ DOMAIN u.states = DOMAIN t.states /\ u.states[state] = kept
      /\ \A v \in DOMAIN t.states : v # state => u.states[v] = t.states[v]
    BY <1>5 DEF kept
<1>7. IsSequence(kept) /\ ToSet(kept) = {a \in ToSet(s) : a.id # action.id}
    BY <1>3, <1>4 DEF kept
<1> HIDE DEF places
<1>8. \A v \in DOMAIN t.states : u.states[v] \in Seq(Action)
    <2>1. kept \in Seq(Action)
        <3>1. ToSet(kept) \subseteq Action
            BY <1>2, <1>7
        <3> QED
            BY <1>7, <3>1, SequenceIn
    <2> QED
        BY <1>1, <1>6, <2>1
<1>9. \A v \in DOMAIN t.states : ToSet(u.states[v]) \subseteq ToSet(t.states[v])
    BY <1>6, <1>7
<1>10. Distinct(t) => Distinct(u)
    BY <1>6, <1>9 DEF Distinct
<1>11. Good(u)
    BY <1>5, <1>6, <1>8, <1>10, ActionsEditKeeps
<1>12. ASSUME NEW v \in DOMAIN t.states, ForeignDistinct
       PROVE  Lost(t, u, v) \subseteq {action}
    <2>1. CASE v = state
        <3>1. \A a \in ToSet(s) : a.id = action.id => a = action
            BY <1>1, <1>12 DEF Distinct
        <3>2. ToSet(s) \ ToSet(kept) \subseteq {action}
            BY <1>7, <3>1
        <3> QED
            BY <1>6, <2>1, <3>2 DEF Lost
    <2>2. CASE v # state
        BY <1>6, <2>2 DEF Lost
    <2> QED
        BY <2>1, <2>2
<1>13. /\ Kept(t, u) /\ DOMAIN u.states = DOMAIN t.states
       /\ u.options = t.options /\ u.default_state = t.default_state
    BY <1>5, <1>6, <1>11 DEF Kept
<1> QED
    BY <1>12, <1>13 DEF u

LEMMA StatesTabKeeps ==
    ASSUME NEW t, Good(t), NEW state \in DOMAIN t.states, NEW u \in CapabilityStateCard(t, state)
    PROVE  /\ Kept(t, u) /\ u.options = t.options /\ u.default_state = t.default_state
           /\ ForeignDistinct => \A v \in DOMAIN t.states : \E a : Lost(t, u, v) \subseteq {a}
<1>1. /\ DOMAIN t = Fields /\ t.id \in Id \cup {Blank} /\ t.label \in Text \cup {Blank}
      /\ t.wording \in Text \cup {Blank} /\ t.scope \in {"device", "global"} /\ t.ha \in HaExpose
    BY DEF Good, IsTemplate, Fields
<1>2. CASE \E l \in Text : u = [t EXCEPT !.wording = l]
    <2>1. /\ DOMAIN u = Fields /\ u.options = t.options /\ u.type = t.type /\ u.sync = t.sync
          /\ u.id = t.id /\ u.states = t.states /\ u.default_state = t.default_state
          /\ u.label = t.label /\ u.wording \in Text /\ u.scope = t.scope /\ u.ha = t.ha
        BY <1>1, <1>2 DEF Fields
    <2>2. Kept(t, u)
        BY <1>1, <2>1, PlainEditKeeps DEF Kept
    <2>3. \A v \in DOMAIN t.states : Lost(t, u, v) \subseteq {v}
        BY <2>1 DEF Lost
    <2>4. \A v \in DOMAIN t.states : \E a : Lost(t, u, v) \subseteq {a}
        BY <2>3, Zenon
    <2> QED
        BY <2>1, <2>2, <2>4
<1>3. CASE \E a \in ToSet(t.states[state]) : u = removeActionFromState(t, state, a.id)
    <2>1. PICK a \in ToSet(t.states[state]) : u = removeActionFromState(t, state, a.id)
        BY <1>3
    <2>2. /\ Kept(t, u) /\ u.options = t.options /\ u.default_state = t.default_state
          /\ ForeignDistinct => \A v \in DOMAIN t.states : Lost(t, u, v) \subseteq {a}
        BY <2>1, RemovedActionsKeep
    <2> QED
        BY <2>2
<1> QED
    BY <1>2, <1>3 DEF CapabilityStateCard, updateStateLabel

LEMMA HaTabKeeps ==
    ASSUME NEW t, Good(t), NEW u \in HaEdits(t)
    PROVE  Apart(t, u)
<1>1. /\ DOMAIN t = Fields /\ t.id \in Id \cup {Blank} /\ t.label \in Text \cup {Blank}
      /\ t.wording \in Text \cup {Blank} /\ t.scope \in {"device", "global"} /\ t.ha \in HaExpose
    BY DEF Good, IsTemplate, Fields
<1>2. ASSUME NEW ha \in HaExpose, u = [t EXCEPT !.ha = ha]
      PROVE  Apart(t, u)
    BY <1>1, <1>2, PlainEditKeeps DEF Fields, Apart, Kept
<1>3. CASE \E b \in BOOLEAN : u = [t EXCEPT !.ha.enabled = b]
    <2>1. PICK b \in BOOLEAN : u = [t EXCEPT !.ha = [@ EXCEPT !.enabled = b]]
        BY <1>1, <1>3 DEF Fields
    <2>2. [t.ha EXCEPT !.enabled = b] \in HaExpose
        BY <1>1 DEF HaExpose
    <2> QED
        BY <1>1, <1>2, <2>1, <2>2 DEF Fields
<1>4. CASE \E e \in {"switch", "select"} : u = [t EXCEPT !.ha.entity_type = e]
    <2>1. PICK e \in {"switch", "select"} : u = [t EXCEPT !.ha = [@ EXCEPT !.entity_type = e]]
        BY <1>1, <1>4 DEF Fields
    <2>2. [t.ha EXCEPT !.entity_type = e] \in HaExpose
        BY <1>1 DEF HaExpose
    <2> QED
        BY <1>1, <1>2, <2>1, <2>2 DEF Fields
<1>5. CASE \E s \in Text \cup {Blank} : u = [t EXCEPT !.ha.suffix = s]
    <2>1. PICK s \in Text \cup {Blank} : u = [t EXCEPT !.ha = [@ EXCEPT !.suffix = s]]
        BY <1>1, <1>5 DEF Fields
    <2>2. [t.ha EXCEPT !.suffix = s] \in HaExpose
        BY <1>1 DEF HaExpose
    <2> QED
        BY <1>1, <1>2, <2>1, <2>2 DEF Fields
<1>6. CASE \E l \in Text : u = [t EXCEPT !.wording = l]
    BY <1>1, <1>6, PlainEditKeeps DEF Fields, Apart, Kept
<1> QED
    BY <1>3, <1>4, <1>5, <1>6 DEF HaEdits

\* Another synchronisation, whatever it is mapped to.
LEMMA SyncEditKeeps ==
    ASSUME NEW t, Good(t), NEW sync \in SyncConfig, NEW u, u = [t EXCEPT !.sync = sync]
    PROVE  Apart(t, u)
<1>1. DOMAIN t = Fields
    BY GoodShape DEF Structured
<1>2. /\ DOMAIN u = Fields /\ u.options = t.options /\ u.type = t.type /\ u.sync = sync
      /\ u.id = t.id /\ u.states = t.states /\ u.default_state = t.default_state
      /\ u.label = t.label /\ u.wording = t.wording /\ u.scope = t.scope /\ u.ha = t.ha
    BY <1>1 DEF Fields
<1>3. IsTemplate(u)
    BY <1>2 DEF Good, IsTemplate, Fields
<1> QED
    BY <1>2, <1>3, SameOptionsKeep DEF Apart, Kept

LEMMA SyncTabKeeps ==
    ASSUME NEW t, Good(t), NEW sources \in BOOLEAN, NEW u \in SyncEdits(t, sources)
    PROVE  Apart(t, u)
<1>1. /\ DOMAIN t = Fields /\ t.sync \in SyncConfig \cup {None} /\ t.options \in Seq(Value)
      /\ \A v \in ToSet(t.options) : v \in Value
    BY MembersIn DEF Good, IsTemplate, Fields
<1>2. FirstParams(t, sources) \in Params /\ FirstSource \in TypeId
    BY SourceAssumption, TypeParamsThere, NoParamsThere DEF FirstParams
<1>3. ASSUME NEW b \in BOOLEAN, u = setSyncEnabled(t, b, sources)
      PROVE  Apart(t, u)
    <2>1. CASE ~b /\ t.sync = None
        BY <1>3, <2>1 DEF setSyncEnabled, Apart, Kept
    <2>2. CASE ~b /\ t.sync # None
        <3> DEFINE sync == [t.sync EXCEPT !.enabled = FALSE]
        <3>1. u = [t EXCEPT !.sync = sync]
            BY <1>1, <1>3, <2>2 DEF setSyncEnabled, Fields
        <3>2. sync \in SyncConfig
            BY <1>1, <2>2 DEF SyncConfig
        <3> HIDE DEF sync
        <3> QED
            BY <3>1, <3>2, SyncEditKeeps
    <2>3. CASE b /\ t.sync = None
        <3>1. u = [t EXCEPT !.sync = defaultSyncConfig(t, sources)]
            BY <1>3, <2>3 DEF setSyncEnabled
        <3>2. defaultSyncConfig(t, sources) \in SyncConfig
            <4>1. t.options[1] \in Value /\ t.options[2] \in Value
                <5>1. Len(t.options) >= 2
                    BY GoodShape DEF Structured
                <5> QED
                    BY <1>1, <5>1
            <4> QED
                BY <1>2, <4>1 DEF defaultSyncConfig, SyncConfig
        <3> QED
            BY <3>1, <3>2, SyncEditKeeps
    <2>4. CASE b /\ t.sync # None /\ t.sync.type = Blank /\ sources
        <3> DEFINE sync == [t.sync EXCEPT !.enabled = TRUE, !.type = FirstSource, !.params = FirstParams(t, sources)]
        <3>1. u = [t EXCEPT !.sync = sync]
            BY <1>1, <1>3, <2>4 DEF setSyncEnabled, Fields
        <3>2. sync \in SyncConfig
            BY <1>1, <1>2, <2>4 DEF SyncConfig
        <3> HIDE DEF sync
        <3> QED
            BY <3>1, <3>2, SyncEditKeeps
    <2>5. CASE b /\ t.sync # None /\ ~(t.sync.type = Blank /\ sources)
        <3> DEFINE sync == [t.sync EXCEPT !.enabled = TRUE]
        <3>1. u = [t EXCEPT !.sync = sync]
            BY <1>1, <1>3, <2>5 DEF setSyncEnabled, Fields
        <3>2. sync \in SyncConfig
            BY <1>1, <2>5 DEF SyncConfig
        <3> HIDE DEF sync
        <3> QED
            BY <3>1, <3>2, SyncEditKeeps
    <2> QED
        BY <2>1, <2>2, <2>3, <2>4, <2>5
<1>4. ASSUME t.sync # None, NEW type \in TypeId, u = setSyncSourceType(t, type)
      PROVE  Apart(t, u)
    <2> DEFINE params == defaultSyncParams(scopeParamSchema(Schema[type], t.scope))
               sync == [t.sync EXCEPT !.type = type, !.params = params]
    <2>1. params \in Params
        BY TypeParamsThere
    <2>2. u = [t EXCEPT !.sync = sync]
        BY <1>1, <1>4 DEF setSyncSourceType, Fields
    <2> HIDE DEF params
    <2>3. sync \in SyncConfig
        BY <1>1, <1>4, <2>1 DEF SyncConfig
    <2> HIDE DEF sync
    <2> QED
        BY <2>2, <2>3, SyncEditKeeps
<1>5. ASSUME t.sync # None, u \in SyncParamEdits(t, sources)
      PROVE  Apart(t, u)
    <2>1. t.sync.params \in Params /\ t.sync.type \in TypeId \cup {Blank} /\ t.sync \in SyncConfig
        BY <1>1, <1>5 DEF SyncConfig
    <2>6. PICK f \in visibleSyncFields(t, sources) : \E v \in Inputs(f) : u = setSyncParam(t, f.key, v)
        BY <1>5 DEF SyncParamEdits
    <2>2. PICK v \in Inputs(f) : u = setSyncParam(t, f.key, v)
        BY <2>6
    <2> DEFINE params == WithParam(t.sync.params, f.key, v)
               sync == [t.sync EXCEPT !.params = params]
    <2>3. params \in Params
        <3>1. /\ t.sync.type # Blank
              /\ f \in resolveVisibleFields(scopeParamSchema(Schema[t.sync.type], t.scope), t.sync.params)
            BY <2>6 DEF visibleSyncFields
        <3> QED
            BY <2>1, <2>2, <3>1, InputParamsThere
    <2>4. u = [t EXCEPT !.sync = sync]
        BY <1>1, <1>5, <2>2 DEF setSyncParam, Fields
    <2> HIDE DEF params
    <2>5. sync \in SyncConfig
        BY <2>1, <2>3 DEF SyncConfig
    <2> HIDE DEF sync
    <2> QED
        BY <2>4, <2>5, SyncEditKeeps
<1>6. ASSUME t.sync # None, NEW v,
             \/ v \in Value /\ u = [t EXCEPT !.sync.when_true = v]
             \/ v \in Value /\ u = [t EXCEPT !.sync.when_false = v]
             \/ v \in {"external_truth", "internal_truth"} /\ u = [t EXCEPT !.sync.mode = v]
             \/ v \in BOOLEAN /\ u = [t EXCEPT !.sync.trigger = v]
      PROVE  Apart(t, u)
    <2>1. PICK sync : /\ u = [t EXCEPT !.sync = sync]
                      /\ \/ v \in Value /\ sync = [t.sync EXCEPT !.when_true = v]
                         \/ v \in Value /\ sync = [t.sync EXCEPT !.when_false = v]
                         \/ v \in {"external_truth", "internal_truth"} /\ sync = [t.sync EXCEPT !.mode = v]
                         \/ v \in BOOLEAN /\ sync = [t.sync EXCEPT !.trigger = v]
        BY <1>1, <1>6 DEF Fields
    <2>2. sync \in SyncConfig
        BY <1>1, <1>6, <2>1 DEF SyncConfig
    <2> QED
        BY <2>1, <2>2, SyncEditKeeps
<1>7. CASE t.sync = None \/ ~t.sync.enabled
    BY <1>3, <1>7 DEF SyncEdits
<1>8. CASE t.sync # None /\ t.sync.enabled
    <2>1. CASE \E b \in BOOLEAN : u = setSyncEnabled(t, b, sources)
        BY <1>3, <2>1
    <2>2. CASE \E type \in TypeId : u = setSyncSourceType(t, type)
        BY <1>4, <1>8, <2>2
    <2>3. CASE u \in SyncParamEdits(t, sources)
        BY <1>5, <1>8, <2>3
    <2>4. CASE u \in MappingEdits(t) \cup ModeEdits(t) \cup TriggerEdits(t)
        BY <1>1, <1>6, <1>8, <2>4 DEF MappingEdits, ModeEdits, TriggerEdits
    <2> QED
        BY <1>8, <2>1, <2>2, <2>3, <2>4 DEF SyncEdits
<1> QED
    BY <1>7, <1>8

\* An action more in a state, with an identifier that no action has.
LEMMA SaveActionKeeps ==
    ASSUME NEW t, Good(t), NEW state \in DOMAIN t.states, NEW action \in Action,
           action.id \notin UsedIds(t)
    PROVE  LET u == handleSaveAction(t, state, action) IN
           /\ Kept(t, u) /\ DOMAIN u.states = DOMAIN t.states /\ u.sync = t.sync
           /\ u.options = t.options /\ u.default_state = t.default_state
           /\ \A v \in DOMAIN t.states : ToSet(t.states[v]) \subseteq ToSet(u.states[v])
<1> DEFINE u == handleSaveAction(t, state, action)
           s == t.states[state]
<1>1. DOMAIN t = Fields /\ \A v \in DOMAIN t.states : t.states[v] \in Seq(Action)
    BY DEF Good, IsTemplate, Fields
<1>2. /\ DOMAIN u = Fields /\ u.options = t.options /\ u.type = t.type /\ u.sync = t.sync
      /\ u.id = t.id /\ u.default_state = t.default_state
      /\ u.label = t.label /\ u.wording = t.wording /\ u.scope = t.scope /\ u.ha = t.ha
      /\ u.states = [t.states EXCEPT ![state] = Append(s, action)]
    BY <1>1 DEF handleSaveAction, Fields
<1> HIDE DEF u
<1>3. /\ DOMAIN u.states = DOMAIN t.states /\ u.states[state] = Append(s, action)
      /\ \A v \in DOMAIN t.states : v # state => u.states[v] = t.states[v]
    BY <1>2
<1>4. Append(s, action) \in Seq(Action) /\ ToSet(Append(s, action)) = ToSet(s) \cup {action}
    <2>1. s \in Seq(Action) /\ IsSequence(s)
        BY <1>1, IsSequenceOver
    <2> HIDE DEF s
    <2> QED
        BY <2>1, AppendHolds
<1>5. \A a \in ToSet(s) : a.id # action.id
    BY DEF UsedIds, ActionsOf
<1>6. \A v \in DOMAIN t.states : u.states[v] \in Seq(Action)
    BY <1>1, <1>3, <1>4
<1>7. Distinct(t) => Distinct(u)
    <2> SUFFICES ASSUME Distinct(t), NEW v \in DOMAIN u.states,
                        NEW a \in ToSet(u.states[v]), NEW b \in ToSet(u.states[v]), a.id = b.id
                 PROVE  a = b
        BY DEF Distinct
    <2>1. CASE v = state
        <3>1. a \in ToSet(s) \cup {action} /\ b \in ToSet(s) \cup {action}
            BY <1>3, <1>4, <2>1
        <3>2. a \in ToSet(s) /\ b \in ToSet(s) => a = b
            BY DEF Distinct
        <3> QED
            BY <1>5, <3>1, <3>2
    <2>2. CASE v # state
        BY <1>3, <2>2 DEF Distinct
    <2> QED
        BY <2>1, <2>2
<1>8. Kept(t, u)
    BY <1>2, <1>3, <1>6, <1>7, ActionsEditKeeps DEF Kept
<1>9. \A v \in DOMAIN t.states : ToSet(t.states[v]) \subseteq ToSet(u.states[v])
    BY <1>3, <1>4
<1> QED
    BY <1>2, <1>3, <1>8, <1>9 DEF u

\* Repaired makes any template in good order a draft.
LEMMA RepairedKeeps ==
    ASSUME NEW t, Good(t)
    PROVE  Apart(t, Repaired(t)) /\ Mapped(Repaired(t))
<1>1. /\ DOMAIN t = Fields /\ t.sync \in SyncConfig \cup {None} /\ t.options \in Seq(Value)
      /\ \A v \in ToSet(t.options) : v \in Value
    BY MembersIn DEF Good, IsTemplate, Fields
<1>2. t.options[1] \in ToSet(t.options) /\ t.options[2] \in ToSet(t.options)
    <2>1. Len(t.options) \in Nat /\ DOMAIN t.options = 1 .. Len(t.options) /\ Len(t.options) >= 2
        BY GoodShape, SequenceShape DEF Structured
    <2>2. 1 \in DOMAIN t.options /\ 2 \in DOMAIN t.options
        BY <2>1
    <2> QED
        BY <2>2 DEF ToSet
<1>3. CASE t.sync = None
    BY <1>3 DEF Repaired, Apart, Kept, Mapped
<1>4. CASE t.sync # None
    <2> DEFINE Fallback(v, w) == IF v \in ToSet(t.options) THEN v ELSE w
               yes == Fallback(t.sync.when_true, t.options[1])
               no == Fallback(t.sync.when_false, t.options[2])
               sync == [t.sync EXCEPT !.when_true = yes, !.when_false = no]
    <2>1. yes \in ToSet(t.options) /\ no \in ToSet(t.options)
        BY <1>2
    <2>2. Repaired(t) = [t EXCEPT !.sync.when_true = yes, !.sync.when_false = no]
        BY <1>1, <1>4 DEF Repaired, Fields, SyncConfig
    <2> HIDE DEF yes, no
    <2>3. Repaired(t) = [t EXCEPT !.sync = sync]
        BY <1>1, <2>2 DEF Fields
    <2>4. sync \in SyncConfig /\ sync.when_true = yes /\ sync.when_false = no
        <3>1. t.sync \in SyncConfig /\ yes \in Value /\ no \in Value
            BY <1>1, <1>4, <2>1
        <3> QED
            BY <3>1 DEF SyncConfig
    <2> HIDE DEF sync
    <2>5. Apart(t, Repaired(t))
        BY <2>3, <2>4, SyncEditKeeps
    <2>6. Repaired(t).sync = sync /\ Repaired(t).options = t.options
        BY <1>1, <2>3 DEF Fields
    <2> QED
        BY <2>1, <2>4, <2>5, <2>6 DEF Mapped
<1> QED
    BY <1>3, <1>4
-----------------------------------------------------------------------------
(* The cache and the page.                                                 *)

LEMMA StartKeeps ==
    ASSUME NEW e, DOMAIN e = EntryFields
    PROVE  /\ DOMAIN Start(e) = EntryFields /\ Start(e).data = e.data /\ Start(e).invalid = e.invalid
           /\ Start(e).fetch \in {e.fetch, Sent} /\ (Flagged(e) => Flagged(Start(e)))
BY DEF Start, Begin, Fetching, EntryFields, Flagged

LEMMA FailedKeeps ==
    ASSUME NEW e, DOMAIN e = EntryFields
    PROVE  /\ DOMAIN Failed(e) = EntryFields /\ Failed(e).data = e.data /\ Failed(e).invalid = TRUE
           /\ Failed(e).fetch = Idle /\ Flagged(Failed(e))
BY DEF Failed, StopFetch, EntryFields, Flagged

LEMMA AnsweredHolds ==
    ASSUME NEW e, DOMAIN e = EntryFields, NEW v, v # None
    PROVE  /\ DOMAIN Answered(e, v) = EntryFields /\ Answered(e, v).data = v /\ Answered(e, v).invalid = FALSE
           /\ Answered(e, v).fetch = Idle /\ Flagged(Answered(e, v))
BY DEF Answered, SetData, StopFetch, EntryFields, Flagged

LEMMA InvalidateMarks ==
    ASSUME NEW e, DOMAIN e = EntryFields, NEW active \in BOOLEAN
    PROVE  LET f == Invalidate(e, active) IN
           /\ DOMAIN f = EntryFields /\ f.data = e.data /\ f.invalid = TRUE /\ (Flagged(e) => Flagged(f))
           /\ f.fetch = Sent \/ (f.fetch = e.fetch /\ (active = FALSE \/ (Fetching(e) /\ ~Loaded(e))))
<1> DEFINE g == [e EXCEPT !.invalid = TRUE]
<1>1. /\ DOMAIN g = EntryFields /\ g.data = e.data /\ g.invalid = TRUE /\ g.fetch = e.fetch
      /\ Flagged(e) => Flagged(g)
    BY DEF EntryFields, Flagged
<1> HIDE DEF g
<1>2. /\ DOMAIN Begin(g) = EntryFields /\ Begin(g).data = g.data /\ Begin(g).invalid = g.invalid
      /\ Begin(g).fetch = Sent /\ (Flagged(g) => Flagged(Begin(g)))
    BY <1>1 DEF Begin, EntryFields, Flagged
<1>3. Invalidate(e, active) = IF active THEN Restart(g) ELSE g
    BY DEF Invalidate, g
<1>4. Restart(g) = IF Fetching(g) /\ ~Loaded(g) THEN g ELSE Begin(g)
    BY DEF Restart
<1>5. Fetching(g) = Fetching(e) /\ Loaded(g) = Loaded(e)
    BY <1>1 DEF Fetching, Loaded
<1> QED
    BY <1>1, <1>2, <1>3, <1>4, <1>5

LEMMA ReadIsNoMark ==
    \A v : Read(v) \notin {Idle, Sent} /\ Read(v)[2] = v /\ Idle # Sent
BY DEF Read, Idle, Sent

\* The same data, and no other answer.
LEMMA EntryKeeps ==
    ASSUME NEW q, NEW e, EntryOK(q, e), NEW f,
           DOMAIN f = EntryFields, Flagged(f), f.data = e.data, f.fetch \in {e.fetch, Idle, Sent}
    PROVE  EntryOK(q, f)
BY DEF EntryOK, Loaded

\* The page after a move or an answer.
LEMMA ShownKeeps ==
    ASSUME NEW p, NEW was, NEW is, Component(p), p.at \in Id /\ Loaded(is) => Good(is.data)
    PROVE  LET s == Shown(p, was, is) IN
           /\ Component(s) /\ s.at = p.at /\ s.instance = p.instance
           /\ s.draft = IF p.at \in Id /\ is.data \notin {None, was.data} THEN Repaired(is.data) ELSE p.draft
<1>1. CASE p.at \in Id /\ is.data \notin {None, was.data}
    <2>1. Good(Repaired(is.data)) /\ Mapped(Repaired(is.data))
        BY <1>1, RepairedKeeps DEF Loaded, Apart, Kept
    <2>2. Shown(p, was, is) = [p EXCEPT !.draft = Repaired(is.data)]
        BY <1>1 DEF Shown
    <2> QED
        BY <1>1, <2>1, <2>2 DEF Component, PageFields
<1>2. CASE ~(p.at \in Id /\ is.data \notin {None, was.data})
    BY <1>2 DEF Shown
<1> QED
    BY <1>1, <1>2

LEMMA EmptyIsGood == Good(createEmptyCapabilityTemplate) /\ Mapped(createEmptyCapabilityTemplate)
<1> DEFINE t == createEmptyCapabilityTemplate
<1>1. <<"on", "off">> \in Seq(Value) /\ Len(<<"on", "off">>) = 2 /\ {"on", "off"} \subseteq Value
    BY ValuesThere
<1>2. <<>> \in Seq(Action)
    OBVIOUS
<1>3. /\ DOMAIN t = Fields /\ t.options = <<"on", "off">> /\ t.states = [v \in {"on", "off"} |-> <<>>]
      /\ t.type = "switch" /\ t.sync = None /\ t.default_state = "off" /\ t.ha \in HaExpose
      /\ t.id = Blank /\ t.label = Blank /\ t.wording = Blank /\ t.scope = "device"
    BY DEF createEmptyCapabilityTemplate, Fields, HaExpose
<1>4. ToSet(<<"on", "off">>) = {"on", "off"}
    <2>1. DOMAIN <<"on", "off">> = {1, 2}
        OBVIOUS
    <2> QED
        BY <2>1 DEF ToSet
<1> HIDE DEF t
<1>5. Distinct(t)
    BY <1>3, EmptyShape DEF Distinct
<1>6. IsTemplate(t)
    <2>1. Len(t.options) \in 2 .. MaxOptions
        BY <1>1, <1>3, BoundAssumption
    <2>2. DOMAIN t.states \subseteq Value /\ \A v \in DOMAIN t.states : t.states[v] \in Seq(Action)
        BY <1>1, <1>2, <1>3
    <2> QED
        BY <1>1, <1>3, <2>1, <2>2 DEF IsTemplate, Fields
<1> QED
    BY <1>3, <1>4, <1>5, <1>6 DEF Good, Consistent, Mapped, t

LEMMA ClosedIsDialog == Closed \in Dialog
BY NoParamsThere DEF Closed, Dialog

LEMMA MovedKeeps ==
    ASSUME PageOK, NEW at
    PROVE  Component(Moved(page, at)) /\ Moved(page, at).at = at
<1>1. CASE page.at \in Editor /\ at \in Editor
    BY <1>1 DEF Moved, PageOK, Component, PageFields
<1>2. CASE ~(page.at \in Editor /\ at \in Editor)
    BY <1>2, EmptyIsGood, ClosedIsDialog DEF Moved, Component, PageFields, Lists
<1> QED
    BY <1>1, <1>2

LEMMA GotoKeeps ==
    ASSUME CacheOK, PageOK, LoadedDraft, NEW at \in Places, NEW refetch, Goto(at, refetch)
    PROVE  /\ CacheOK' /\ PageOK' /\ LoadedDraft'
           /\ \A q \in Query : /\ cache'[q].data = cache[q].data /\ cache'[q].invalid = cache[q].invalid
                               /\ cache'[q].fetch \in {cache[q].fetch, Sent}
           /\ page'.at = at /\ (at = page.at => page' = page)
<1>1. CASE at = page.at
    <2>1. UNCHANGED <<cache, page>>
        BY <1>1 DEF Goto
    <2> QED
        BY <1>1, <2>1 DEF CacheOK, PageOK, Component, LoadedDraft
<1>2. CASE at # page.at
    <2> DEFINE p == Moved(page, at)
    <2>1. /\ page' = IF at \in Id THEN Shown(p, Empty, cache[at]) ELSE p
          /\ cache' = Mounted(p, refetch)
        BY <1>2 DEF Goto
    <2>2. Component(p) /\ p.at = at
        BY MovedKeeps
    <2> HIDE DEF p
    <2>3. DOMAIN cache' = Query /\ \A q \in Query : cache'[q] \in {cache[q], Start(cache[q])}
        BY <2>1 DEF Mounted
    <2>4. \A q \in Query : DOMAIN cache[q] = EntryFields /\ Flagged(cache[q])
        BY DEF CacheOK, EntryOK
    <2>5. \A q \in Query :
             /\ DOMAIN cache'[q] = EntryFields /\ cache'[q].data = cache[q].data
             /\ cache'[q].invalid = cache[q].invalid /\ cache'[q].fetch \in {cache[q].fetch, Sent}
             /\ Flagged(cache'[q])
        BY <2>3, <2>4, StartKeeps
    <2>6. CacheOK'
        <3> SUFFICES ASSUME NEW q \in Query
                     PROVE  EntryOK(q, cache'[q])
            BY <2>3 DEF CacheOK
        <3>1. EntryOK(q, cache[q])
            BY DEF CacheOK
        <3> QED
            BY <2>5, <3>1, EntryKeeps
    <2>7. CASE at \in Id
        <3>1. at \in Query
            BY <2>7 DEF Query
        <3>2. Loaded(cache[at]) => Good(cache[at].data) /\ cache[at].data.id = at
            BY <2>7, <3>1 DEF CacheOK, EntryOK, Answer
        <3>3. /\ Component(page') /\ page'.at = at
              /\ page'.draft = IF cache[at].data \notin {None, Empty.data} THEN Repaired(cache[at].data) ELSE p.draft
            BY <2>1, <2>2, <2>7, <3>2, ShownKeeps
        <3>4. Loaded(cache'[at]) => page'.draft.id = at
            <4> SUFFICES ASSUME Loaded(cache'[at])
                         PROVE  page'.draft.id = at
                OBVIOUS
            <4>1. cache[at].data # None /\ Empty.data = None
                BY <2>5, <3>1 DEF Loaded, Empty
            <4>2. Apart(cache[at].data, Repaired(cache[at].data)) /\ cache[at].data.id = at
                BY <3>2, <4>1, RepairedKeeps DEF Loaded
            <4> QED
                BY <3>3, <4>1, <4>2 DEF Kept, Apart
        <3> QED
            BY <1>2, <2>5, <2>6, <3>3, <3>4 DEF PageOK, LoadedDraft
    <2>8. CASE at \notin Id
        <3>1. page' = p
            BY <2>1, <2>8
        <3> QED
            BY <1>2, <2>2, <2>5, <2>6, <2>8, <3>1 DEF PageOK, LoadedDraft
    <2> QED
        BY <2>7, <2>8
<1> QED
    BY <1>1, <1>2

LEMMA SpendKeeps ==
    ASSUME budget \in Budget, NEW what \in {"edits", "ops", "moves", "faults", "outside"}, Spend(what)
    PROVE  budget' \in Budget /\ budget'[what] < budget[what]
<1>1. CASE what = "edits"
    BY <1>1 DEF Budget, Spend
<1>2. CASE what = "ops"
    BY <1>2 DEF Budget, Spend
<1>3. CASE what = "moves"
    BY <1>3 DEF Budget, Spend
<1>4. CASE what = "faults"
    BY <1>4 DEF Budget, Spend
<1>5. CASE what = "outside"
    BY <1>5 DEF Budget, Spend
<1> QED
    BY <1>1, <1>2, <1>3, <1>4, <1>5

\* Any template others may store is in good order.
LEMMA ForeignIsGood ==
    ASSUME NEW t \in Foreign
    PROVE  Good(t) /\ t.id \in Id
BY ForeignAssumption DEF Good, ForeignConsistent, ForeignDistinct
-----------------------------------------------------------------------------
(* Every step keeps the templates in order.                                *)

LEMMA EditKeeps ==
    ASSUME Templates, NEW tab, NEW edits, Edit(tab, edits),
           \A t \in edits : Good(t) /\ (isNew \/ t.id = page.draft.id)
    PROVE  Templates' /\ budget'.edits < budget.edits
<1>1. /\ FormShown /\ Spend("edits") /\ UNCHANGED <<server, cache, request, missed>>
      /\ \E t \in edits : page' = [page EXCEPT !.draft = Repaired(t)]
    BY DEF Edit, Unsent
<1>2. PICK t \in edits : page' = [page EXCEPT !.draft = Repaired(t)]
    BY <1>1
<1>3. Kept(t, Repaired(t)) /\ Mapped(Repaired(t))
    BY RepairedKeeps DEF Apart
<1>4. /\ DOMAIN page' = PageFields /\ page'.filter = page.filter /\ page'.at = page.at
      /\ page'.draft = Repaired(t) /\ page'.dialog = page.dialog
    BY <1>2 DEF Templates, PageOK, Component, PageFields
<1>5. PageOK'
    BY <1>3, <1>4 DEF Templates, PageOK, Component, Kept
<1>6. page.at \in Id => ~isNew
    BY IdAssumption DEF isNew
<1>7. LoadedDraft'
    BY <1>1, <1>3, <1>4, <1>6 DEF Templates, LoadedDraft, Kept
<1>8. budget' \in Budget /\ budget'.edits < budget.edits
    BY <1>1, SpendKeeps DEF Templates
<1> QED
    BY <1>1, <1>5, <1>7, <1>8 DEF Templates, ServerOK, CacheOK, RequestsOK

LEMMA TabsKeep ==
    ASSUME Templates, BasicTab \/ ControlTab \/ StatesTab \/ SyncTab \/ HaTab
    PROVE  Templates' /\ budget'.edits < budget.edits
<1>1. Good(page.draft)
    BY DEF Templates, PageOK, Component
<1>2. CASE BasicTab
    <2>1. isNew \in BOOLEAN
        BY DEF isNew
    <2>2. \A t \in BasicEdits(page.draft, isNew) : Good(t) /\ (isNew \/ t.id = page.draft.id)
        BY <1>1, <2>1, BasicTabKeeps
    <2> QED
        BY <1>2, <2>2, EditKeeps DEF BasicTab
<1>3. CASE ControlTab
    <2>1. \A t \in ControlEdits(page.draft) : Good(t) /\ t.id = page.draft.id
        BY <1>1, ControlTabKeeps DEF Local, Kept
    <2> QED
        BY <1>3, <2>1, EditKeeps DEF ControlTab
<1>4. CASE StatesTab
    <2> DEFINE edits == UNION {CapabilityStateCard(page.draft, v) : v \in DOMAIN page.draft.states}
    <2>1. \A t \in edits : Good(t) /\ t.id = page.draft.id
        BY <1>1, StatesTabKeeps DEF Kept
    <2>2. Edit("states", edits)
        BY <1>4 DEF StatesTab
    <2> HIDE DEF edits
    <2> QED
        BY <2>1, <2>2, EditKeeps
<1>5. CASE SyncTab
    <2>0. typesLoaded \in BOOLEAN
        BY DEF typesLoaded, Loaded
    <2>1. \A t \in SyncEdits(page.draft, typesLoaded) : Good(t) /\ t.id = page.draft.id
        BY <1>1, <2>0, SyncTabKeeps DEF Apart, Kept
    <2> QED
        BY <1>5, <2>1, EditKeeps DEF SyncTab
<1>6. CASE HaTab
    <2>1. \A t \in HaEdits(page.draft) : Good(t) /\ t.id = page.draft.id
        BY <1>1, HaTabKeeps DEF Apart, Kept
    <2> QED
        BY <1>6, <2>1, EditKeeps DEF HaTab
<1> QED
    BY <1>2, <1>3, <1>4, <1>5, <1>6

\* The dialog stands beside the draft.
LEMMA DialogKeeps ==
    ASSUME Templates, NEW d \in Dialog, page' = [page EXCEPT !.dialog = d], Unsent, budget' \in Budget
    PROVE  Templates' /\ page'.draft = page.draft
<1>1. /\ DOMAIN page' = PageFields /\ page'.filter = page.filter /\ page'.at = page.at
      /\ page'.draft = page.draft /\ page'.dialog = d
    BY DEF Templates, PageOK, Component, PageFields
<1>2. PageOK' /\ LoadedDraft'
    BY <1>1 DEF Templates, PageOK, Component, LoadedDraft, Unsent
<1> QED
    BY <1>1, <1>2 DEF Templates, ServerOK, CacheOK, RequestsOK, Unsent

LEMMA DialogsKeep ==
    ASSUME Templates, addActionToState \/ handleTypeChange \/ setParams \/ CancelAction \/ DismissAction
    PROVE  Templates' /\ page'.draft = page.draft
<1> DEFINE dialog == page.dialog
<1>1. DOMAIN page = PageFields /\ dialog \in Dialog /\ IsTemplate(page.draft)
    BY DEF Templates, PageOK, Component, Good
<1>2. budget' \in Budget
    BY SpendKeeps DEF Templates, addActionToState, handleTypeChange, setParams, CancelAction, DismissAction
<1>3. CASE addActionToState
    <2>1. PICK v \in ToSet(page.draft.options) : page' = [page EXCEPT !.dialog.state = v]
        BY <1>3 DEF addActionToState
    <2>2. page' = [page EXCEPT !.dialog = [dialog EXCEPT !.state = v]]
        BY <1>1, <2>1 DEF PageFields
    <2>3. Unsent
        BY <1>3 DEF addActionToState
    <2>4. v \in Value
        BY <1>1, <2>1, MembersIn DEF IsTemplate
    <2>5. [dialog EXCEPT !.state = v] \in Dialog
        BY <1>1, <2>4 DEF Dialog
    <2> QED
        BY <1>2, <2>2, <2>3, <2>5, DialogKeeps
<1>4. CASE \E d \in Dialog : InDialog(d)
    BY <1>2, <1>4, DialogKeeps DEF InDialog
<1>5. CASE handleTypeChange
    <2>1. PICK type \in TypeId :
             InDialog([dialog EXCEPT !.type = type,
                !.params = defaultSyncParams(scopeParamSchema(Schema[type], page.draft.scope))])
        BY <1>5 DEF handleTypeChange
    <2> DEFINE params == defaultSyncParams(scopeParamSchema(Schema[type], page.draft.scope))
    <2>2. params \in Params
        BY TypeParamsThere
    <2>3. InDialog([dialog EXCEPT !.type = type, !.params = params])
        BY <2>1
    <2> HIDE DEF params
    <2>4. [dialog EXCEPT !.type = type, !.params = params] \in Dialog
        BY <1>1, <2>2 DEF Dialog
    <2> QED
        BY <1>4, <2>3, <2>4
<1>6. CASE setParams
    <2> DEFINE fields == scopeParamSchema(Schema[dialog.type], page.draft.scope)
    <2>1. /\ dialog.type # Blank
          /\ \E f \in resolveVisibleFields(fields, dialog.params) :
                \E v \in Inputs(f) : InDialog([dialog EXCEPT !.params = WithParam(@, f.key, v)])
        BY <1>6 DEF setParams
    <2>2. dialog.type \in TypeId /\ dialog.params \in Params
        BY <1>1, <2>1 DEF Dialog
    <2>3. PICK f \in resolveVisibleFields(fields, dialog.params) :
             \E v \in Inputs(f) : InDialog([dialog EXCEPT !.params = WithParam(@, f.key, v)])
        BY <2>1
    <2>4. PICK v \in Inputs(f) : InDialog([dialog EXCEPT !.params = WithParam(@, f.key, v)])
        BY <2>3
    <2> DEFINE params == WithParam(dialog.params, f.key, v)
    <2>5. params \in Params
        BY <2>2, InputParamsThere
    <2>6. InDialog([dialog EXCEPT !.params = params])
        BY <1>1, <2>4 DEF Dialog
    <2> HIDE DEF params
    <2>7. [dialog EXCEPT !.params = params] \in Dialog
        BY <1>1, <2>5 DEF Dialog
    <2> QED
        BY <1>4, <2>6, <2>7
<1>7. CASE CancelAction \/ DismissAction
    <2>1. [dialog EXCEPT !.state = None] \in Dialog
        BY <1>1 DEF Dialog
    <2> QED
        BY <1>4, <1>7, <2>1, ClosedIsDialog DEF CancelAction, DismissAction
<1> QED
    BY <1>3, <1>5, <1>6, <1>7

LEMMA FreeIdentifier ==
    ASSUME NEW t, Good(t), UsedIds(t) # 1 .. MaxActions
    PROVE  (CHOOSE n \in 1 .. MaxActions : n \notin UsedIds(t)) \in (1 .. MaxActions) \ UsedIds(t)
<1>1. UsedIds(t) \subseteq 1 .. MaxActions
    BY GoodShape DEF Structured, Numbered, UsedIds, ActionsOf
<1>2. \E n \in 1 .. MaxActions : n \notin UsedIds(t)
    BY <1>1
<1> QED
    BY <1>2

\* What the dialog adds is an action with an identifier of its own.
LEMMA AddedIsAction ==
    ASSUME Templates, SaveAction
    PROVE  LET added == [id |-> CHOOSE n \in 1 .. MaxActions : n \notin UsedIds(page.draft),
                         type |-> page.dialog.type, params |-> page.dialog.params]
           IN  added \in Action /\ added.id \notin UsedIds(page.draft)
<1>1. Good(page.draft) /\ page.dialog \in Dialog /\ page.dialog.type # Blank
    BY DEF Templates, PageOK, Component, SaveAction
<1>2. PICK n : /\ n = CHOOSE k \in 1 .. MaxActions : k \notin UsedIds(page.draft)
               /\ n \in (1 .. MaxActions) \ UsedIds(page.draft)
    BY <1>1, FreeIdentifier DEF SaveAction
<1> QED
    BY <1>1, <1>2 DEF Dialog, Action

LEMMA SaveActionStepKeeps ==
    ASSUME Templates, SaveAction
    PROVE  Templates' /\ budget'.edits < budget.edits
<1> DEFINE state == page.dialog.state
           added == [id |-> CHOOSE n \in 1 .. MaxActions : n \notin UsedIds(page.draft),
                     type |-> page.dialog.type, params |-> page.dialog.params]
           w == handleSaveAction(page.draft, state, added)
<1>1. Unsent /\ budget' \in Budget /\ budget'.edits < budget.edits
    BY SpendKeeps DEF SaveAction, Templates
<1>2. DOMAIN page = PageFields /\ Good(page.draft) /\ Mapped(page.draft) /\ PageOK
    BY DEF Templates, PageOK, Component
<1>3. \/ page' = [page EXCEPT !.dialog = Closed]
      \/ page' = Moved(page, "crashed")
      \/ state \in DOMAIN page.draft.states /\ page' = [page EXCEPT !.dialog = Closed, !.draft = w]
    BY <1>2 DEF SaveAction, PageFields
<1>4. CASE page' = [page EXCEPT !.dialog = Closed]
    BY <1>1, <1>4, ClosedIsDialog, DialogKeeps
<1>5. CASE page' = Moved(page, "crashed")
    <2>1. PageOK' /\ page'.at = "crashed"
        BY <1>2, <1>5, MovedKeeps DEF PageOK, Places
    <2>2. "crashed" \notin Id
        BY IdAssumption
    <2> QED
        BY <1>1, <2>1, <2>2 DEF Templates, ServerOK, CacheOK, RequestsOK, Unsent, LoadedDraft
<1>6. CASE state \in DOMAIN page.draft.states /\ page' = [page EXCEPT !.dialog = Closed, !.draft = w]
    <2>1. added \in Action /\ added.id \notin UsedIds(page.draft)
        BY AddedIsAction
    <2> HIDE DEF added
    <2>2. Kept(page.draft, w) /\ w.sync = page.draft.sync /\ w.options = page.draft.options
        BY <1>2, <1>6, <2>1, SaveActionKeeps
    <2> HIDE DEF w
    <2>3. /\ DOMAIN page' = PageFields /\ page'.filter = page.filter /\ page'.at = page.at
          /\ page'.draft = w /\ page'.dialog = Closed
        BY <1>2, <1>6 DEF PageFields
    <2>4. PageOK' /\ LoadedDraft'
        BY <1>1, <1>2, <2>2, <2>3, ClosedIsDialog DEF Templates, PageOK, Component, Mapped, Kept, LoadedDraft, Unsent
    <2> QED
        BY <1>1, <2>4 DEF Templates, ServerOK, CacheOK, RequestsOK, Unsent
<1> QED
    BY <1>1, <1>3, <1>4, <1>5, <1>6

-----------------------------------------------------------------------------
(* Requests.                                                               *)

LEMMA SendKeeps ==
    ASSUME Templates, NEW kind \in {"create", "update", "delete"}, NEW id, NEW template, NEW moves \in BOOLEAN,
           moves => kind # "delete", kind # "delete" => Good(template), kind = "create" => template.id = id,
           kind = "update" => id \in Id, Send(kind, id, template, moves)
    PROVE  Templates'
<1> DEFINE r == [kind |-> kind, id |-> id, template |-> template, moves |-> moves,
                 by |-> page.instance, phase |-> "sent", waits |-> {}]
<1>1. Spend("ops") /\ request' = Append(request, r) /\ UNCHANGED <<server, cache, page, missed>>
    BY DEF Send
<1>2. RequestOK(r)
    BY DEF RequestOK, Lands, Landed, RequestFields
<1> HIDE DEF r
<1>3. IsSequence(request) /\ \A i \in DOMAIN request : RequestOK(request[i])
    BY DEF Templates, RequestsOK
<1>4. IsSequence(request') /\ Len(request') = Len(request) + 1
    BY <1>1, <1>3, AppendShape
<1>5. \A i \in DOMAIN request' : request'[i] = r \/ (i \in DOMAIN request /\ request'[i] = request[i])
    <2>1. request \in Seq(ToSet(request) \cup {r})
        BY <1>3 DEF IsSequence
    <2>2. DOMAIN request' = 1 .. Len(request) + 1 /\ DOMAIN request = 1 .. Len(request) /\ Len(request) \in Nat
        BY <1>3, <1>4, SequenceShape
    <2> QED
        BY <1>1, <2>1, <2>2
<1>6. RequestsOK'
    BY <1>2, <1>3, <1>4, <1>5 DEF RequestsOK
<1>7. budget' \in Budget
    BY <1>1, SpendKeeps DEF Templates
<1> QED
    BY <1>1, <1>6, <1>7 DEF Templates, ServerOK, CacheOK, PageOK, Component, LoadedDraft

\* The rows of the list are templates of the server.
LEMMA RowsAreGood ==
    ASSUME Templates
    PROVE  \A t \in Rows : Good(t) /\ t.id \in Id
<1>1. page.filter \in Query /\ page.filter \in Lists
    BY DEF Templates, PageOK, Component, Query
<1>2. EntryOK(page.filter, cache[page.filter])
    BY <1>1 DEF Templates, CacheOK
<1> QED
    BY <1>1, <1>2 DEF Rows, EntryOK, Answer

LEMMA SendsKeep ==
    ASSUME Templates, handleSave \/ handleDuplicate \/ handleDelete
    PROVE  Templates' /\ page' = page
<1>1. page' = page
    BY DEF handleSave, handleDuplicate, handleDelete, Send
<1>2. Good(page.draft)
    BY DEF Templates, PageOK, Component
<1>3. CASE handleSave
    <2>1. CASE isNew
        <3>1. Send("create", page.draft.id, page.draft, TRUE)
            BY <1>3, <2>1 DEF handleSave
        <3> QED
            BY <1>1, <1>2, <3>1, SendKeeps
    <2>2. CASE ~isNew
        <3>1. Send("update", page.at, page.draft, TRUE) /\ page.at \in Id
            BY <1>3, <2>2 DEF handleSave, FormShown, Editor, isNew
        <3> QED
            BY <1>1, <1>2, <3>1, SendKeeps
    <2> QED
        BY <2>1, <2>2
<1>4. \A t \in Rows : Good(t)
    BY RowsAreGood
<1>5. CASE handleDuplicate
    <2>1. PICK t \in Rows, copy \in Copies : Send("create", copy, duplicateTemplate(t, copy), TRUE)
        BY <1>5 DEF handleDuplicate
    <2>2. Good(t) /\ DOMAIN t = Fields
        BY <1>4, GoodShape DEF Structured
    <2> DEFINE u == duplicateTemplate(t, copy)
    <2>3. /\ DOMAIN u = Fields /\ u.options = t.options /\ u.type = t.type /\ u.sync = t.sync
          /\ u.states = t.states /\ u.id = copy /\ u.default_state = t.default_state
          /\ u.label = t.label /\ u.wording = t.wording /\ u.scope = t.scope /\ u.ha = t.ha
        BY <2>2 DEF duplicateTemplate, Fields
    <2> HIDE DEF u
    <2>4. IsTemplate(u)
        BY <2>2, <2>3, CopiesAssumption DEF Good, IsTemplate, Fields
    <2>5. Good(u)
        BY <2>2, <2>3, <2>4, SameOptionsKeep
    <2> QED
        BY <1>1, <2>1, <2>3, <2>5, SendKeeps DEF u
<1>6. CASE handleDelete
    BY <1>1, <1>6, SendKeeps DEF handleDelete
<1> QED
    BY <1>1, <1>3, <1>5, <1>6

\* A request that is over, and the phase of one that is not.
LEMMA WithoutKeeps ==
    ASSUME RequestsOK, NEW i \in DOMAIN request, request' = Without(i)
    PROVE  /\ RequestsOK'
           /\ \A j \in DOMAIN request : j # i => \E k \in DOMAIN request' : request'[k] = request[j]
           /\ \A k \in DOMAIN request' : \E j \in DOMAIN request : request'[k] = request[j]
<1>1. IsSequence(request) /\ Len(request) \in Nat /\ DOMAIN request = 1 .. Len(request)
    BY SequenceShape DEF RequestsOK
<1>2. /\ IsSequence(request') /\ Len(request') = Len(request) - 1
      /\ \A j \in DOMAIN request' : request'[j] = request[IF j < i THEN j ELSE j + 1]
    BY <1>1, RemoveShape DEF Without
<1>3. DOMAIN request' = 1 .. Len(request) - 1
    BY <1>2, SequenceShape
<1>4. \A k \in DOMAIN request' : \E j \in DOMAIN request : request'[k] = request[j]
    <2> SUFFICES ASSUME NEW k \in DOMAIN request'
                 PROVE  \E j \in DOMAIN request : request'[k] = request[j]
        OBVIOUS
    <2>1. (IF k < i THEN k ELSE k + 1) \in DOMAIN request
        BY <1>1, <1>3
    <2> QED
        BY <1>2, <2>1
<1>5. \A j \in DOMAIN request : j # i => \E k \in DOMAIN request' : request'[k] = request[j]
    <2> SUFFICES ASSUME NEW j \in DOMAIN request, j # i
                 PROVE  \E k \in DOMAIN request' : request'[k] = request[j]
        OBVIOUS
    <2> DEFINE k == IF j < i THEN j ELSE j - 1
    <2>1. k \in DOMAIN request' /\ (IF k < i THEN k ELSE k + 1) = j
        BY <1>1, <1>3
    <2> QED
        BY <1>2, <2>1
<1>6. RequestsOK'
    BY <1>2, <1>4 DEF RequestsOK
<1> QED
    BY <1>4, <1>5, <1>6

LEMMA RequestsChangeKeeps ==
    ASSUME RequestsOK, DOMAIN request' = DOMAIN request, IsSequence(request'),
           \A i \in DOMAIN request :
              /\ DOMAIN request'[i] = RequestFields
              /\ request'[i].kind = request[i].kind /\ request'[i].template = request[i].template
              /\ request'[i].id = request[i].id /\ request'[i].moves = request[i].moves
              /\ Landed(request'[i])
    PROVE  RequestsOK'
BY DEF RequestsOK, RequestOK

\* The requests after a change of one of them, and of what each waits for.
LEMMA RequestExcept ==
    ASSUME RequestsOK, NEW i \in DOMAIN request, NEW phase, NEW waits,
           request' = [request EXCEPT ![i] = [@ EXCEPT !.phase = phase, !.waits = waits]]
    PROVE  /\ Lands(request[i], phase) => RequestsOK'
           /\ DOMAIN request' = DOMAIN request
           /\ request'[i].phase = phase /\ request'[i].kind = request[i].kind /\ request'[i].id = request[i].id
           /\ \A j \in DOMAIN request : j # i => request'[j] = request[j]
<1>1. IsSequence(request) /\ \A j \in DOMAIN request : DOMAIN request[j] = RequestFields
    BY DEF RequestsOK, RequestOK
<1>2. IsSequence(request')
    BY <1>1, ExceptShape
<1>3. /\ DOMAIN request' = DOMAIN request /\ request'[i] = [request[i] EXCEPT !.phase = phase, !.waits = waits]
      /\ \A j \in DOMAIN request : j # i => request'[j] = request[j]
    OBVIOUS
<1>4. /\ DOMAIN request'[i] = RequestFields /\ request'[i].phase = phase
      /\ request'[i].kind = request[i].kind /\ request'[i].template = request[i].template
      /\ request'[i].id = request[i].id /\ request'[i].moves = request[i].moves
    BY <1>1, <1>3 DEF RequestFields
<1>5. ASSUME Lands(request[i], phase)
      PROVE  RequestsOK'
    <2>1. Landed(request'[i]) /\ \A j \in DOMAIN request : Landed(request[j])
        BY <1>4, <1>5 DEF Lands, Landed, RequestsOK, RequestOK
    <2> QED
        BY <1>1, <1>2, <1>3, <1>4, <2>1, RequestsChangeKeeps
<1> QED
    BY <1>3, <1>4, <1>5

-----------------------------------------------------------------------------
(* The user moves, and answers arrive.                                     *)

LEMMA NavigateKeeps ==
    ASSUME Templates, Navigate
    PROVE  /\ Templates' /\ page'.at # page.at
           /\ \A q \in Query : /\ cache'[q].data = cache[q].data /\ cache'[q].invalid = cache[q].invalid
                               /\ cache'[q].fetch \in {cache[q].fetch, Sent}
<1>1. /\ Spend("moves") /\ UNCHANGED <<server, request, missed>>
      /\ \E at \in {"capabilities", "global", "new"} \cup {t.id : t \in Rows}, refetch \in BOOLEAN :
            at # page.at /\ Goto(at, refetch)
    BY DEF Navigate, Move
<1>2. budget' \in Budget
    BY <1>1, SpendKeeps DEF Templates
<1>5. {"capabilities", "global", "new"} \cup {t.id : t \in Rows} \subseteq Places
    BY RowsAreGood DEF Places, Editor
<1>3. PICK at \in Places, refetch \in BOOLEAN : at # page.at /\ Goto(at, refetch)
    BY <1>1, <1>5
<1>4. /\ CacheOK' /\ PageOK' /\ LoadedDraft' /\ page'.at = at
      /\ \A q \in Query : /\ cache'[q].data = cache[q].data /\ cache'[q].invalid = cache[q].invalid
                          /\ cache'[q].fetch \in {cache[q].fetch, Sent}
    BY <1>3, GotoKeeps DEF Templates
<1> QED
    BY <1>1, <1>2, <1>3, <1>4 DEF Templates, ServerOK, RequestsOK, Query

\* Entries that are fetched again, at most.
LEMMA RestartKeeps ==
    ASSUME Templates, DOMAIN cache' = Query, \A q \in Query : cache'[q] \in {cache[q], Start(cache[q])}
    PROVE  /\ CacheOK'
           /\ \A q \in Query : /\ cache'[q].data = cache[q].data /\ cache'[q].invalid = cache[q].invalid
                               /\ cache'[q].fetch \in {cache[q].fetch, Sent}
<1>1. \A q \in Query : EntryOK(q, cache[q]) /\ DOMAIN cache[q] = EntryFields /\ Flagged(cache[q])
    BY DEF Templates, CacheOK, EntryOK
<1>2. \A q \in Query :
         /\ DOMAIN cache'[q] = EntryFields /\ cache'[q].data = cache[q].data
         /\ cache'[q].invalid = cache[q].invalid /\ cache'[q].fetch \in {cache[q].fetch, Sent}
         /\ Flagged(cache'[q])
    BY <1>1, StartKeeps
<1>3. \A q \in Query : EntryOK(q, cache'[q])
    BY <1>1, <1>2, EntryKeeps
<1> QED
    BY <1>2, <1>3 DEF CacheOK

LEMMA LooksKeep ==
    ASSUME Templates, SetFilter \/ Refetch
    PROVE  /\ Templates' /\ page'.draft = page.draft
           /\ \A q \in Query : /\ cache'[q].data = cache[q].data /\ cache'[q].invalid = cache[q].invalid
                               /\ cache'[q].fetch \in {cache[q].fetch, Sent}
<1>1. DOMAIN cache = Query /\ DOMAIN page = PageFields
    BY DEF Templates, CacheOK, PageOK, Component
<1>2. /\ Spend("moves") /\ UNCHANGED <<server, request, missed>>
      /\ DOMAIN cache' = Query /\ \A q \in Query : cache'[q] \in {cache[q], Start(cache[q])}
    BY <1>1 DEF SetFilter, Refetch, Move
<1>3. /\ CacheOK'
      /\ \A q \in Query : /\ cache'[q].data = cache[q].data /\ cache'[q].invalid = cache[q].invalid
                          /\ cache'[q].fetch \in {cache[q].fetch, Sent}
    BY <1>2, RestartKeeps
<1>4. /\ DOMAIN page' = PageFields /\ page'.filter \in Lists
      /\ page'.draft = page.draft /\ page'.at = page.at /\ page'.dialog = page.dialog
    BY <1>1 DEF SetFilter, Refetch, PageFields, Templates, PageOK, Component
<1>5. PageOK' /\ LoadedDraft'
    BY <1>3, <1>4 DEF Templates, PageOK, Component, LoadedDraft, Loaded, Query
<1>6. budget' \in Budget
    BY <1>2, SpendKeeps DEF Templates
<1> QED
    BY <1>2, <1>3, <1>4, <1>5, <1>6 DEF Templates, ServerOK, RequestsOK

LEMMA ServeHolds ==
    ASSUME Templates, NEW q \in Query, Serve(q) # None
    PROVE  Answer(q, Serve(q))
<1>1. \A t \in Table : Good(t) /\ t.id \in Id
    BY DEF Templates, ServerOK, Table
<1>2. CASE q \in Id
    <2>1. q \notin {"list", "found", "global", "types"}
        BY <1>2, IdAssumption
    <2> QED
        BY <1>2, <2>1 DEF Serve, Answer, Lists, Templates, ServerOK
<1>3. CASE q \in Lists \cup {"global"}
    <2>1. q \notin Id /\ q # "types"
        BY <1>3, IdAssumption DEF Lists
    <2> QED
        BY <1>1, <1>3, <2>1 DEF Serve, Answer, Lists
<1>4. CASE q = "types"
    <2>1. q \notin Id
        BY <1>4, IdAssumption
    <2> QED
        BY <1>4, <2>1 DEF Serve, Answer, Lists
<1> QED
    BY <1>2, <1>3, <1>4 DEF Query

LEMMA ServerReadsKeeps ==
    ASSUME Templates, NEW q \in Query, ServerReads(q)
    PROVE  /\ Templates' /\ Serve(q) # None
           /\ cache'[q].data = cache[q].data /\ cache'[q].invalid = cache[q].invalid
           /\ cache'[q].fetch = Read(Serve(q))
           /\ \A p \in Query : p # q => cache'[p] = cache[p]
<1>1. /\ Serve(q) # None /\ cache' = [cache EXCEPT ![q].fetch = Read(Serve(q))]
      /\ UNCHANGED <<server, page, request, missed, budget>>
    BY DEF ServerReads
<1>2. DOMAIN cache = Query /\ EntryOK(q, cache[q])
    BY DEF Templates, CacheOK
<1>3. /\ DOMAIN cache' = Query /\ cache'[q] = [cache[q] EXCEPT !.fetch = Read(Serve(q))]
      /\ \A p \in Query : p # q => cache'[p] = cache[p]
    BY <1>1, <1>2
<1>4. /\ DOMAIN cache'[q] = EntryFields /\ cache'[q].data = cache[q].data
      /\ cache'[q].invalid = cache[q].invalid /\ cache'[q].fetch = Read(Serve(q))
      /\ Flagged(cache'[q])
    BY <1>2, <1>3 DEF EntryOK, EntryFields, Flagged
<1>5. EntryOK(q, cache'[q])
    BY <1>1, <1>2, <1>4, ServeHolds DEF EntryOK, Loaded
<1>6. CacheOK'
    BY <1>3, <1>5 DEF CacheOK, Templates
<1>7. LoadedDraft'
    BY <1>1, <1>3, <1>4 DEF Templates, LoadedDraft, Loaded, Query
<1> QED
    BY <1>1, <1>3, <1>4, <1>6, <1>7 DEF Templates, ServerOK, PageOK, Component, RequestsOK

\* A fetch is over: the entry, the page that shows it, the requests that wait for it.
LEMMA FetchOverKeeps ==
    ASSUME Templates, NEW q \in Query, NEW entry, EntryOK(q, entry),
           FetchOver(q, entry), budget' \in Budget, Loaded(cache[q]) => Loaded(entry)
    PROVE  /\ Templates' /\ cache'[q] = entry /\ \A p \in Query : p # q => cache'[p] = cache[p]
           /\ DOMAIN request' = DOMAIN request
           /\ \A i \in DOMAIN request : /\ request'[i].phase = request[i].phase
                                        /\ request'[i].kind = request[i].kind /\ request'[i].id = request[i].id
           /\ page'.at = page.at /\ (Loads \/ page'.draft = page.draft)
<1>1. /\ cache' = [cache EXCEPT ![q] = entry]
      /\ page' = IF q = page.at THEN Shown(page, cache[q], entry) ELSE page
      /\ request' = [i \in DOMAIN request |-> [request[i] EXCEPT !.waits = @ \ {q}]]
      /\ UNCHANGED <<server, missed>>
    BY DEF FetchOver
<1>2. DOMAIN cache = Query /\ PageOK /\ RequestsOK
    BY DEF Templates, CacheOK
<1>3. DOMAIN cache' = Query /\ cache'[q] = entry /\ \A p \in Query : p # q => cache'[p] = cache[p]
    BY <1>1, <1>2
<1>4. CacheOK'
    BY <1>3 DEF Templates, CacheOK
<1>5. \A i \in DOMAIN request : DOMAIN request[i] = RequestFields
    BY <1>2 DEF RequestsOK, RequestOK
<1>6. /\ DOMAIN request' = DOMAIN request
      /\ \A i \in DOMAIN request :
            /\ DOMAIN request'[i] = RequestFields /\ request'[i].phase = request[i].phase
            /\ request'[i].kind = request[i].kind /\ request'[i].id = request[i].id
            /\ request'[i].template = request[i].template /\ request'[i].moves = request[i].moves
    BY <1>1, <1>5 DEF RequestFields
<1>7. RequestsOK'
    <2>1. Len(request) \in Nat /\ DOMAIN request = 1 .. Len(request)
        BY <1>2, SequenceShape DEF RequestsOK
    <2>2. request' \in [1 .. Len(request) -> {[request[i] EXCEPT !.waits = @ \ {q}] : i \in DOMAIN request}]
        BY <1>1, <2>1
    <2>3. IsSequence(request')
        BY <2>1, <2>2, FunctionIsSequence
    <2>4. \A i \in DOMAIN request : Landed(request'[i])
        BY <1>2, <1>6 DEF Lands, Landed, RequestsOK, RequestOK
    <2> QED
        BY <1>2, <1>6, <2>3, <2>4, RequestsChangeKeeps
<1>8. CASE q = page.at /\ q \in Id
    <2>1. Loaded(entry) => Good(entry.data) /\ entry.data.id = q
        BY <1>8 DEF EntryOK, Answer
    <2>2. /\ PageOK' /\ page'.at = page.at
          /\ page'.draft = IF entry.data \notin {None, cache[q].data} THEN Repaired(entry.data) ELSE page.draft
        BY <1>1, <1>2, <1>8, <2>1, ShownKeeps DEF PageOK, Places, Editor
    <2>3. LoadedDraft'
        <3> SUFFICES ASSUME Loaded(entry)
                     PROVE  page'.draft.id = q
            BY <1>3, <1>8, <2>2 DEF LoadedDraft
        <3>1. CASE entry.data \notin {None, cache[q].data}
            BY <2>1, <2>2, <3>1, RepairedKeeps DEF Apart, Kept
        <3>2. CASE entry.data \in {None, cache[q].data}
            BY <1>8, <2>2, <3>2 DEF Templates, LoadedDraft, Loaded
        <3> QED
            BY <3>1, <3>2
    <2>4. Loads \/ page'.draft = page.draft
        BY <1>3, <1>8, <2>2 DEF Loads
    <2> QED
        BY <1>1, <1>3, <1>4, <1>6, <1>7, <2>2, <2>3, <2>4 DEF Templates, ServerOK
<1>9. CASE ~(q = page.at /\ q \in Id)
    <2>1. page' = page
        BY <1>1, <1>9 DEF Shown
    <2>2. LoadedDraft'
        BY <1>3, <1>9, <2>1 DEF Templates, LoadedDraft, Query
    <2> QED
        BY <1>1, <1>3, <1>4, <1>6, <1>7, <2>1, <2>2 DEF Templates, ServerOK, PageOK, Component
<1> QED
    BY <1>8, <1>9

LEMMA AnswersKeep ==
    ASSUME Templates, NEW q \in Query, FetchSucceeds(q) \/ FetchFails(q) \/ NotFound(q)
    PROVE  \E entry :
           /\ Templates' /\ cache'[q] = entry /\ \A p \in Query : p # q => cache'[p] = cache[p]
           /\ DOMAIN request' = DOMAIN request
           /\ \A i \in DOMAIN request : /\ request'[i].phase = request[i].phase
                                        /\ request'[i].kind = request[i].kind /\ request'[i].id = request[i].id
           /\ UNCHANGED <<server, missed>>
           /\ page'.at = page.at /\ (Loads \/ page'.draft = page.draft)
           /\ entry.fetch = Idle
           /\ entry.invalid \/ (cache[q].fetch \notin {Idle, Sent} /\ cache[q].fetch = Read(entry.data))
<1>1. EntryOK(q, cache[q]) /\ DOMAIN cache[q] = EntryFields
    BY DEF Templates, CacheOK, EntryOK
<1>2. CASE FetchSucceeds(q)
    <2> DEFINE entry == Answered(cache[q], cache[q].fetch[2])
    <2>1. cache[q].fetch \notin {Idle, Sent} /\ FetchOver(q, entry) /\ budget' = budget
        BY <1>2 DEF FetchSucceeds
    <2>2. PICK v : v # None /\ cache[q].fetch = Read(v) /\ Answer(q, v)
        BY <1>1, <2>1 DEF EntryOK
    <2>3. cache[q].fetch[2] = v
        BY <2>2, ReadIsNoMark
    <2>4. /\ DOMAIN entry = EntryFields /\ entry.data = v /\ entry.invalid = FALSE /\ entry.fetch = Idle
          /\ Flagged(entry)
        <3>1. entry = Answered(cache[q], v) /\ DOMAIN cache[q] = EntryFields /\ v # None
            BY <1>1, <2>2, <2>3
        <3> HIDE DEF entry
        <3> QED
            BY <3>1, AnsweredHolds
    <2> HIDE DEF entry
    <2>5. EntryOK(q, entry) /\ Loaded(entry)
        BY <2>2, <2>4 DEF EntryOK, Loaded
    <2>6. budget' \in Budget
        BY <2>1 DEF Templates
    <2>7. UNCHANGED <<server, missed>>
        BY <2>1 DEF FetchOver
    <2>8. cache[q].fetch = Read(entry.data)
        BY <2>2, <2>4
    <2>9. /\ Templates' /\ cache'[q] = entry /\ \A p \in Query : p # q => cache'[p] = cache[p]
          /\ DOMAIN request' = DOMAIN request
          /\ \A i \in DOMAIN request : /\ request'[i].phase = request[i].phase
                                       /\ request'[i].kind = request[i].kind /\ request'[i].id = request[i].id
          /\ page'.at = page.at /\ (Loads \/ page'.draft = page.draft)
        BY <2>1, <2>5, <2>6, FetchOverKeeps
    <2> QED
        BY <2>1, <2>4, <2>7, <2>8, <2>9
<1>3. CASE FetchFails(q) \/ NotFound(q)
    <2> DEFINE entry == Failed(cache[q])
    <2>1. FetchOver(q, entry)
        BY <1>3 DEF FetchFails, NotFound
    <2>2. budget' \in Budget
        BY <1>3, SpendKeeps DEF FetchFails, NotFound, Templates
    <2>3. /\ DOMAIN entry = EntryFields /\ entry.data = cache[q].data /\ entry.invalid = TRUE
          /\ entry.fetch = Idle /\ Flagged(entry)
        BY <1>1, FailedKeeps
    <2> HIDE DEF entry
    <2>4. EntryOK(q, entry) /\ (Loaded(cache[q]) => Loaded(entry))
        BY <1>1, <2>3, EntryKeeps DEF Loaded
    <2>5. UNCHANGED <<server, missed>>
        BY <2>1 DEF FetchOver
    <2>6. /\ Templates' /\ cache'[q] = entry /\ \A p \in Query : p # q => cache'[p] = cache[p]
          /\ DOMAIN request' = DOMAIN request
          /\ \A i \in DOMAIN request : /\ request'[i].phase = request[i].phase
                                       /\ request'[i].kind = request[i].kind /\ request'[i].id = request[i].id
          /\ page'.at = page.at /\ (Loads \/ page'.draft = page.draft)
        BY <2>1, <2>2, <2>4, FetchOverKeeps
    <2> QED
        BY <2>3, <2>5, <2>6
<1> QED
    BY <1>2, <1>3
-----------------------------------------------------------------------------
(* The server, and what the browser does when a request is over.           *)

\* A template that is stored is in good order and has its identifier.
LEMMA StoredIsGood ==
    ASSUME ServerOK, NEW r, RequestOK(r), r.kind \in {"create", "update"},
           NEW t \in (IF r.kind = "create" THEN CreateCapability(r) ELSE UpdateCapability(r))
    PROVE  Good(t) /\ t.id = r.id /\ t.id \in Id
<1>1. ASSUME NEW u, Good(u)
      PROVE  Kept(u, normalizeTemplate(u))
    <2> DEFINE w == normalizeTemplate(u)
    <2>1. DOMAIN u = Fields
        BY <1>1, GoodShape DEF Structured
    <2>2. /\ DOMAIN w = Fields /\ w.options = u.options /\ w.type = u.type /\ w.sync = u.sync
          /\ w.states = u.states /\ w.id = u.id /\ w.default_state = trim(u.default_state)
          /\ w.label = u.label /\ w.wording = u.wording /\ w.scope = u.scope /\ w.ha = u.ha
        BY <2>1 DEF normalizeTemplate, Fields
    <2> HIDE DEF w
    <2>3. IsTemplate(w)
        BY <1>1, <2>2, ValuesThere DEF Good, IsTemplate, Fields
    <2> QED
        BY <1>1, <2>2, <2>3, SameOptionsKeep DEF Kept, w
<1>2. Good(r.template)
    BY DEF RequestOK
<1>5. validateTemplate(t) => t.id # Blank
    BY DEF validateTemplate
<1>6. Good(t) /\ t.id # Blank => t.id \in Id
    BY DEF Good, IsTemplate
<1>3. CASE r.kind = "create"
    BY <1>1, <1>2, <1>3, <1>5, <1>6 DEF CreateCapability, RequestOK, Kept
<1>4. CASE r.kind = "update"
    <2> DEFINE kept == IF r.template.sync = None /\ server[r.id] # None
                       THEN [r.template EXCEPT !.sync = server[r.id].sync] ELSE r.template
    <2>1. t = normalizeTemplate(kept) /\ r.template.id = r.id /\ server[r.id] # None /\ validateTemplate(t)
        BY <1>4 DEF UpdateCapability
    <2>2. Kept(r.template, kept)
        <3>1. CASE r.template.sync = None
            <4> DEFINE sync == server[r.id].sync
            <4>1. Good(server[r.id])
                BY <1>4, <2>1 DEF ServerOK, RequestOK
            <4>2. sync \in SyncConfig \cup {None}
                BY <4>1 DEF Good, IsTemplate
            <4>3. kept = [r.template EXCEPT !.sync = sync]
                BY <2>1, <3>1
            <4>4. DOMAIN r.template = Fields
                BY <1>2, GoodShape DEF Structured
            <4>6. IsTemplate(r.template)
                BY <1>2 DEF Good
            <4> HIDE DEF sync, kept
            <4>5. /\ DOMAIN kept = Fields /\ kept.options = r.template.options /\ kept.type = r.template.type
                  /\ kept.sync = sync /\ kept.states = r.template.states /\ kept.id = r.template.id
                  /\ kept.label = r.template.label /\ kept.wording = r.template.wording
                  /\ kept.scope = r.template.scope /\ kept.ha = r.template.ha
                  /\ kept.default_state = r.template.default_state
                BY <4>3, <4>4 DEF Fields
            <4>7. IsTemplate(kept)
                BY <4>2, <4>5, <4>6 DEF IsTemplate, Fields
            <4> QED
                BY <1>2, <4>5, <4>7, SameOptionsKeep DEF Kept
        <3>2. CASE r.template.sync # None
            BY <1>2, <3>2 DEF Kept
        <3> QED
            BY <3>1, <3>2
    <2> HIDE DEF kept
    <2>3. Kept(kept, normalizeTemplate(kept))
        BY <1>1, <2>2 DEF Kept
    <2> QED
        BY <1>5, <1>6, <2>1, <2>2, <2>3 DEF Kept
<1> QED
    BY <1>3, <1>4

LEMMA ServerProcessesKeeps ==
    ASSUME Templates, NEW i \in DOMAIN request, ServerProcesses(i)
    PROVE  Templates'
<1> DEFINE r == request[i]
           left == CASE r.kind = "create" -> CreateCapability(r)
                     [] r.kind = "update" -> UpdateCapability(r)
                     [] OTHER -> DeleteCapability(r)
<1>1. /\ request' = [request EXCEPT ![i].phase = IF left = {} THEN "refused" ELSE "stored"]
      /\ server' = IF left = {} THEN server ELSE [server EXCEPT ![r.id] = CHOOSE t \in left : TRUE]
      /\ UNCHANGED <<cache, page, missed, budget>>
    BY DEF ServerProcesses
<1>2. RequestsOK /\ ServerOK /\ RequestOK(r) /\ DOMAIN r = RequestFields
    BY DEF Templates, RequestsOK, RequestOK
<1>3. /\ \A t \in left : t # None => Good(t) /\ t.id = r.id
      /\ left # {} /\ r.kind # "delete" => r.id \in Id /\ r.template.id = r.id
    <2>1. CASE r.kind = "delete"
        BY <2>1 DEF DeleteCapability
    <2>2. CASE r.kind \in {"create", "update"}
        <3>1. \A t \in left : Good(t) /\ t.id = r.id /\ t.id \in Id
            BY <1>2, <2>2, StoredIsGood
        <3>2. left # {} => r.template.id = r.id
            BY <1>2, <2>2 DEF UpdateCapability, RequestOK
        <3> HIDE DEF left
        <3> QED
            BY <3>1, <3>2
    <2> QED
        BY <1>2, <2>1, <2>2 DEF RequestOK
<1> HIDE DEF left
<1>4. ServerOK'
    <2>1. CASE left = {}
        BY <1>1, <1>2, <2>1 DEF ServerOK
    <2>2. CASE left # {}
        <3>1. PICK t \in left : server' = [server EXCEPT ![r.id] = t]
            BY <1>1, <2>2
        <3> QED
            BY <1>2, <1>3, <3>1 DEF ServerOK
    <2> QED
        BY <2>1, <2>2
<1>5. RequestsOK'
    <2> DEFINE phase == IF left = {} THEN "refused" ELSE "stored"
    <2>1. request' = [request EXCEPT ![i].phase = phase]
        BY <1>1
    <2>3. Lands(r, phase)
        BY <1>3 DEF Lands
    <2> HIDE DEF phase
    <2>2. request' = [request EXCEPT ![i] = [@ EXCEPT !.phase = phase, !.waits = r.waits]]
        BY <1>2, <2>1 DEF RequestFields
    <2> QED
        BY <1>2, <2>2, <2>3, RequestExcept
<1> QED
    BY <1>1, <1>4, <1>5 DEF Templates, CacheOK, PageOK, Component, LoadedDraft

LEMMA RequestSucceedsKeeps ==
    ASSUME Templates, NEW i \in DOMAIN request, RequestSucceeds(i)
    PROVE  /\ Templates' /\ DOMAIN request' = DOMAIN request
           /\ request'[i].phase = "waiting"
           /\ \A j \in DOMAIN request : j # i => request'[j] = request[j]
           /\ \A q \in Query \ Invalidated(request[i]) : cache'[q] = cache[q]
           /\ \A q \in Query \cap Invalidated(request[i]) :
                cache[q] # Empty => cache'[q] = Invalidate(cache[q], q \in Active)
<1> DEFINE keys == Invalidated(request[i])
<1>1. /\ cache' = [q \in Query |-> IF q \in keys /\ cache[q] # Empty THEN Invalidate(cache[q], q \in Active)
                                   ELSE cache[q]]
      /\ request' = [request EXCEPT ![i].phase = "waiting", ![i].waits = Awaited(keys)]
      /\ UNCHANGED <<server, page, budget>> /\ missed' = missed \cup {q \in keys : Unstoppable(q)}
      /\ request[i].phase = "stored"
    BY DEF RequestSucceeds
<1>2. RequestsOK /\ RequestOK(request[i]) /\ DOMAIN request[i] = RequestFields
    BY DEF Templates, RequestsOK, RequestOK
<1>9. (request[i].kind # "delete" => request[i].id \in Id) /\ Lands(request[i], "waiting")
    BY <1>1, <1>2 DEF RequestOK, Lands, Landed
<1>10. keys \subseteq Query
    BY <1>9 DEF Invalidated, Query
<1> HIDE DEF keys
<1>3. request' = [request EXCEPT ![i] = [@ EXCEPT !.phase = "waiting", !.waits = Awaited(keys)]]
    BY <1>1, <1>2 DEF RequestFields
<1>4. /\ RequestsOK' /\ DOMAIN request' = DOMAIN request /\ request'[i].phase = "waiting"
      /\ \A j \in DOMAIN request : j # i => request'[j] = request[j]
    BY <1>2, <1>3, <1>9, RequestExcept
<1>5. \A q \in Query : EntryOK(q, cache'[q]) /\ cache'[q].data = cache[q].data
    <2> SUFFICES ASSUME NEW q \in Query
                 PROVE  EntryOK(q, cache'[q]) /\ cache'[q].data = cache[q].data
        OBVIOUS
    <2>1. EntryOK(q, cache[q]) /\ DOMAIN cache[q] = EntryFields
        BY DEF Templates, CacheOK, EntryOK
    <2>2. CASE q \in keys /\ cache[q] # Empty
        <3> DEFINE active == q \in Active
        <3>1. cache'[q] = Invalidate(cache[q], active) /\ active \in BOOLEAN
            BY <1>1, <2>2
        <3> HIDE DEF active
        <3> DEFINE f == Invalidate(cache[q], active)
        <3>2. DOMAIN f = EntryFields /\ f.data = cache[q].data /\ f.fetch \in {cache[q].fetch, Sent} /\ Flagged(f)
            <4>1. /\ DOMAIN f = EntryFields /\ f.data = cache[q].data /\ (f.fetch = Sent \/ f.fetch = cache[q].fetch)
                  /\ Flagged(f)
                BY <2>1, <3>1, InvalidateMarks DEF EntryOK
            <4> QED
                BY <4>1
        <3>3. cache'[q] = f
            BY <3>1
        <3> HIDE DEF f
        <3> QED
            BY <2>1, <3>2, <3>3, EntryKeeps
    <2>3. CASE ~(q \in keys /\ cache[q] # Empty)
        BY <1>1, <2>1, <2>3
    <2> QED
        BY <2>2, <2>3
<1>6. CacheOK'
    BY <1>1, <1>5 DEF CacheOK
<1>7. LoadedDraft'
    BY <1>1, <1>5 DEF Templates, LoadedDraft, Loaded, Query
<1>8. Templates'
    BY <1>1, <1>4, <1>6, <1>7, <1>10 DEF Templates, ServerOK, PageOK, Component
<1> QED
    BY <1>1, <1>4, <1>8 DEF keys

LEMMA ReturnKeeps ==
    ASSUME Templates, NEW i \in DOMAIN request, Return(i)
    PROVE  /\ Templates' /\ (page'.at # page.at \/ page' = page)
           /\ \A q \in Query : /\ cache'[q].data = cache[q].data /\ cache'[q].invalid = cache[q].invalid
                               /\ cache'[q].fetch \in {cache[q].fetch, Sent}
<1>1. /\ request' = Without(i) /\ UNCHANGED <<server, missed, budget>>
      /\ \/ request[i].moves /\ \E refetch : Goto(request[i].id, refetch)
         \/ UNCHANGED <<cache, page>>
    BY DEF Return
<1>4. request[i].moves => request[i].id \in Places
    <2>1. RequestOK(request[i]) /\ request[i].phase = "waiting"
        BY DEF Templates, RequestsOK, Return, CanReturn
    <2> QED
        BY <2>1 DEF RequestOK, Lands, Landed, Places, Editor
<1>2. RequestsOK'
    BY <1>1, WithoutKeeps DEF Templates
<1>3. /\ CacheOK' /\ PageOK' /\ LoadedDraft' /\ (page'.at # page.at \/ page' = page)
      /\ \A q \in Query : /\ cache'[q].data = cache[q].data /\ cache'[q].invalid = cache[q].invalid
                          /\ cache'[q].fetch \in {cache[q].fetch, Sent}
    <2>1. CASE request[i].moves /\ \E refetch : Goto(request[i].id, refetch)
        BY <1>4, <2>1, GotoKeeps DEF Templates
    <2>2. CASE UNCHANGED <<cache, page>>
        BY <2>2 DEF Templates, CacheOK, PageOK, Component, LoadedDraft
    <2> QED
        BY <1>1, <2>1, <2>2
<1> QED
    BY <1>1, <1>2, <1>3 DEF Templates, ServerOK

LEMMA EndsKeep ==
    ASSUME Templates, NEW i \in DOMAIN request, RequestRefused(i) \/ RequestLost(i)
    PROVE  Templates'
<1>1. request' = Without(i) /\ UNCHANGED <<server, cache, page>>
    BY DEF RequestRefused, RequestLost
<1>2. RequestsOK'
    BY <1>1, WithoutKeeps DEF Templates
<1>3. budget' \in Budget /\ missed' \subseteq Query
    BY SpendKeeps DEF RequestRefused, RequestLost, Templates
<1> QED
    BY <1>1, <1>2, <1>3 DEF Templates, ServerOK, CacheOK, PageOK, Component, LoadedDraft

LEMMA OutsideKeeps ==
    ASSUME Templates, Outside
    PROVE  Templates'
<1>1. UNCHANGED <<cache, page, request>> /\ budget' \in Budget /\ missed' = Query
    BY SpendKeeps DEF Outside, Templates
<1>2. CASE \E t \in Foreign : server' = [server EXCEPT ![t.id] = t]
    <2>1. ServerOK'
        BY <1>2, ForeignIsGood DEF Templates, ServerOK
    <2> QED
        BY <1>1, <2>1 DEF Templates, CacheOK, PageOK, Component, RequestsOK, LoadedDraft
<1>3. CASE \E i \in Id : server' = [server EXCEPT ![i] = None]
    <2>1. ServerOK'
        BY <1>3 DEF Templates, ServerOK
    <2> QED
        BY <1>1, <2>1 DEF Templates, CacheOK, PageOK, Component, RequestsOK, LoadedDraft
<1> QED
    BY <1>2, <1>3 DEF Outside

LEMMA InitTemplates ==
    ASSUME Init
    PROVE  Templates
<1>1. PICK s \in Scenario :
        /\ server = [i \in Id |-> IF \E t \in s.stored : t.id = i THEN CHOOSE t \in s.stored : t.id = i ELSE None]
        /\ cache = [q \in Query |-> IF q \in {"list", "global"} THEN [Empty EXCEPT !.data = Serve(q)] ELSE Empty]
        /\ page = Moved([at |-> None, instance |-> 0], "capabilities")
        /\ request = <<>> /\ missed = {} /\ budget = s.budget
    BY DEF Init
<1>2. s.budget \in Budget /\ s.stored \subseteq Foreign
    BY ScenarioAssumption
<1>3. ServerOK
    <2> SUFFICES ASSUME NEW i \in Id, server[i] # None
                 PROVE  Good(server[i]) /\ server[i].id = i
        BY <1>1 DEF ServerOK
    <2>1. server[i] \in s.stored /\ server[i].id = i
        BY <1>1
    <2> QED
        BY <1>2, <2>1, ForeignIsGood
<1>4. \A t \in Table : Good(t) /\ t.id \in Id
    BY <1>3 DEF Table, ServerOK
<1>5. \A q \in Query : /\ DOMAIN cache[q] = EntryFields /\ cache[q].fetch = Idle /\ Flagged(cache[q])
                       /\ cache[q].data = IF q \in {"list", "global"} THEN Serve(q) ELSE None
    BY <1>1 DEF Empty, EntryFields, Flagged
<1>6. CacheOK
    <2> SUFFICES ASSUME NEW q \in Query
                 PROVE  EntryOK(q, cache[q])
        BY <1>1 DEF CacheOK
    <2>1. CASE q \in {"list", "global"}
        <3>1. cache[q].data \subseteq Table /\ q \notin Id /\ q # "types"
            BY <1>5, <2>1, IdAssumption DEF Serve
        <3> QED
            BY <1>4, <1>5, <3>1 DEF EntryOK, Answer
    <2>3. CASE q \notin {"list", "global"}
        BY <1>5, <2>3 DEF EntryOK, Loaded
    <2> QED
        BY <2>1, <2>3
<1>7. page = [at |-> "capabilities", filter |-> "list", draft |-> createEmptyCapabilityTemplate,
              dialog |-> Closed, instance |-> page.instance]
    BY <1>1, IdAssumption DEF Moved, Editor
<1>8. PageOK /\ page.at = "capabilities"
    BY <1>7, EmptyIsGood, ClosedIsDialog DEF PageOK, Component, Places, PageFields, Lists
<1>9. LoadedDraft
    BY <1>8, IdAssumption DEF LoadedDraft
<1>10. RequestsOK
    <2>1. request \in Seq({}) /\ DOMAIN request = {}
        BY <1>1
    <2> QED
        BY <2>1, IsSequenceOver DEF RequestsOK
<1> QED
    BY <1>1, <1>2, <1>3, <1>6, <1>8, <1>9, <1>10 DEF Templates

LEMMA NextKeepsTemplates ==
    ASSUME Templates, [Next]_vars
    PROVE  Templates'
<1>1. CASE \E i \in DOMAIN request : Return(i)
    BY <1>1, ReturnKeeps
<1>2. CASE Users
    BY <1>2, TabsKeep, DialogsKeep, SaveActionStepKeeps, SendsKeep, NavigateKeeps, LooksKeep DEF Users
<1>3. CASE Answers
    <2>1. CASE \E q \in Query : ServerReads(q)
        BY <2>1, ServerReadsKeeps
    <2>2. CASE \E q \in Query : FetchSucceeds(q) \/ NotFound(q)
        BY <2>2, AnswersKeep
    <2>3. CASE \E i \in DOMAIN request : ServerProcesses(i) \/ RequestSucceeds(i) \/ RequestRefused(i)
        BY <2>3, ServerProcessesKeeps, RequestSucceedsKeeps, EndsKeep
    <2> QED
        BY <1>3, <2>1, <2>2, <2>3 DEF Answers
<1>4. CASE Faults
    BY <1>4, AnswersKeep, EndsKeep, OutsideKeeps DEF Faults
<1>5. CASE UNCHANGED vars
    BY <1>5 DEF vars, Templates, ServerOK, CacheOK, PageOK, Component, RequestsOK, LoadedDraft
<1> QED
    BY <1>1, <1>2, <1>3, <1>4, <1>5 DEF Next

LEMMA TemplatesInvariant == Spec => []Templates
BY InitTemplates, NextKeepsTemplates, PTL DEF Spec

-----------------------------------------------------------------------------
\* Whatever is edited, saved, refetched or stored by others, in whichever order:
\* every template there is, on the server, in an answer and in the draft, has
\* the form of one, with two options at least and no more than allowed, actions
\* and a synchronisation of types the server knows, and parameters of their
\* fields; the dialog likewise (lib/automation.ts, CapabilityEditorPage).
THEOREM TypeCorrect == Spec => []TypeOK
<1>1. ASSUME NEW q \in Query, NEW v, Answer(q, v)
      PROVE  IsData(q, v)
    <2>1. CASE q = "types"
        BY <1>1, <2>1, IdAssumption DEF Answer, IsData
    <2>2. CASE q \in Id
        BY <1>1, <2>2, IdAssumption DEF Answer, IsData, Good
    <2>3. CASE q \in Lists \cup {"global"}
        <3>1. q \notin Id /\ q # "types"
            BY <2>3, IdAssumption DEF Lists
        <3> QED
            BY <1>1, <2>3, <3>1 DEF Answer, IsData, Good
    <2> QED
        BY <2>1, <2>2, <2>3 DEF Query
<1>2. Templates => TypeOK
    <2> SUFFICES ASSUME Templates
                 PROVE  TypeOK
        OBVIOUS
    <2>1. \A i \in Id : server[i] # None => IsData(i, server[i])
        BY IdAssumption DEF Templates, ServerOK, IsData, Good
    <2>2. ASSUME NEW q \in Query
          PROVE  IsEntry(q, cache[q])
        <3>1. EntryOK(q, cache[q])
            BY DEF Templates, CacheOK
        <3>2. cache[q].data # None => IsData(q, cache[q].data)
            BY <1>1, <3>1 DEF EntryOK, Loaded
        <3>3. cache[q].fetch \notin {Idle, Sent} => IsData(q, cache[q].fetch[2])
            BY <1>1, <3>1, ReadIsNoMark DEF EntryOK
        <3> QED
            BY <3>1, <3>2, <3>3 DEF IsEntry, EntryOK, Flagged
    <2>3. /\ page.at \in Editor \cup {"capabilities", "global", "crashed"} /\ page.filter \in Lists
          /\ IsTemplate(page.draft)
          /\ page.dialog \in [state : Value \cup {None}, type : TypeId \cup {Blank}, params : Params]
        BY DEF Templates, PageOK, Places, Component, Dialog, Good
    <2>4. \A i \in DOMAIN request : request[i].kind # "delete" => IsTemplate(request[i].template)
        BY DEF Templates, RequestsOK, RequestOK, Good
    <2> QED
        BY <2>1, <2>2, <2>3, <2>4 DEF TypeOK, Templates
<1> QED
    BY <1>2, TemplatesInvariant, PTL

\* Whichever save moves the browser between templates, whenever it ends, and
\* whatever fails to load: the form shows another template's draft only while
\* its own could not be loaded at all, for what is loaded has the identifier of
\* its query and replaces the draft; and an update that has been stored was sent
\* from the page of the template in it (CapabilityEditorPage, service.go 103).
THEOREM StoresItsOwn == Spec => []OwnTemplate
<1>1. Templates => OwnTemplate
    <2> SUFFICES ASSUME Templates
                 PROVE  OwnTemplate
        OBVIOUS
    <2>1. page.at \in Id /\ FormShown =>
              page.draft.id = page.at \/ (cache[page.at].error /\ ~Loaded(cache[page.at]))
        BY IdAssumption DEF Templates, LoadedDraft, FormShown, isNew
    <2>2. \A i \in DOMAIN request :
              request[i].kind = "update" /\ request[i].phase \in {"stored", "waiting"} =>
                  request[i].template.id = request[i].id
        BY DEF Templates, RequestsOK, RequestOK, Lands, Landed
    <2> QED
        BY <2>1, <2>2 DEF OwnTemplate
<1> QED
    BY <1>1, TemplatesInvariant, PTL

\* If the templates that others store have one list of actions for every option,
\* so has every draft, after any edits on any tabs and whatever is loaded: a
\* switch keeps its two options and a synchronisation maps to options there are
\* (buildStateMapFromOptions, setControlType, the mapping effect).
THEOREM DraftsAreConsistent ==
    ASSUME ForeignConsistent
    PROVE  Spec => []DraftConsistent
<1>1. Templates => DraftConsistent
    BY GoodShape DEF Templates, PageOK, Component, Good, Structured, Consistent, Mapped, DraftConsistent
<1> QED
    BY <1>1, TemplatesInvariant, PTL

\* Unsaved edits are given up only for a template that really is another one,
\* or by another edit: no request, answer, refusal, refetch or poll takes them
\* (the query's effect of CapabilityEditorPage).
THEOREM UnsavedEditsAreKept == Spec => EditsKept
<1> DEFINE EditorKept == SameEditor /\ ~Loads /\ page'.draft # page.draft => budget'.edits < budget.edits
<1>1. ASSUME Templates, [Next]_vars
      PROVE  EditorKept
    <2>1. CASE \E i \in DOMAIN request : Return(i)
        BY <1>1, <2>1, ReturnKeeps DEF SameEditor
    <2>2. CASE Users
        <3>1. CASE BasicTab \/ ControlTab \/ StatesTab \/ SyncTab \/ HaTab
            BY <1>1, <3>1, TabsKeep
        <3>2. CASE addActionToState \/ handleTypeChange \/ setParams \/ CancelAction \/ DismissAction
            BY <1>1, <3>2, DialogsKeep
        <3>3. CASE SaveAction
            BY <1>1, <3>3, SaveActionStepKeeps
        <3>4. CASE handleSave \/ handleDuplicate \/ handleDelete
            BY <1>1, <3>4, SendsKeep
        <3>5. CASE Navigate
            BY <1>1, <3>5, NavigateKeeps DEF SameEditor
        <3>6. CASE SetFilter \/ Refetch
            BY <1>1, <3>6, LooksKeep
        <3> QED
            BY <2>2, <3>1, <3>2, <3>3, <3>4, <3>5, <3>6 DEF Users
    <2>3. CASE \E q \in Query : FetchSucceeds(q) \/ FetchFails(q) \/ NotFound(q)
        BY <1>1, <2>3, AnswersKeep
    <2>4. CASE \/ \E q \in Query : ServerReads(q)
               \/ \E i \in DOMAIN request :
                     ServerProcesses(i) \/ RequestSucceeds(i) \/ RequestRefused(i) \/ RequestLost(i)
               \/ Outside \/ UNCHANGED vars
        <3>1. page' = page
            BY <2>4 DEF ServerReads, ServerProcesses, RequestSucceeds, RequestRefused, RequestLost, Outside, vars
        <3> QED
            BY <3>1
    <2> QED
        BY <1>1, <2>1, <2>2, <2>3, <2>4 DEF Next, Answers, Faults
<1> QED
    BY <1>1, TemplatesInvariant, PTL DEF Spec, EditsKept

-----------------------------------------------------------------------------
(* Edits are local.                                                        *)

LEMMA SmallLoss ==
    /\ Cardinality({}) <= 0 /\ Cardinality({}) <= 1
    /\ \A S, a : S \subseteq {a} => Cardinality(S) <= 1
<1>1. Cardinality({}) = 0
    BY FS_EmptySet
<1>2. ASSUME NEW S, NEW a, S \subseteq {a}
      PROVE  Cardinality(S) <= 1
    <2>1. S = {} \/ S = {a}
        BY <1>2
    <2>2. Cardinality({a}) = 1
        BY FS_Singleton
    <2> QED
        BY <1>1, <2>1, <2>2
<1> QED
    BY <1>1, <1>2

LEMMA NothingLost ==
    ASSUME \A v \in DOMAIN page.draft.states \cap DOMAIN page'.draft.states :
              ToSet(page.draft.states[v]) \subseteq ToSet(page'.draft.states[v])
    PROVE  ActionsKept
<1>1. \A v \in DOMAIN page.draft.states \cap DOMAIN page'.draft.states :
         ToSet(page.draft.states[v]) \ ToSet(page'.draft.states[v]) = {}
    OBVIOUS
<1> QED
    BY <1>1, SmallLoss DEF ActionsKept

LEMMA DraftStays ==
    ASSUME page'.draft = page.draft
    PROVE  ActionsKept /\ DefaultKept
<1>1. ActionsKept
    BY NothingLost
<1> QED
    BY <1>1 DEF DefaultKept

\* The default state is renamed by an edit or not at all.
LEMMA DefaultedIsKept ==
    ASSUME Defaulted(page.draft, page'.draft)
    PROVE  DefaultKept
BY DEF Defaulted, DefaultKept

\* The tabs of the editor: an edit, then the effect that repairs the mapping.
LEMMA EditedDraft ==
    ASSUME Templates, NEW tab, NEW edits, Edit(tab, edits), \A t \in edits : Good(t)
    PROVE  \E t \in edits : Apart(t, page'.draft) /\ tab \in budget.tabs
<1>1. PICK t \in edits : page' = [page EXCEPT !.draft = Repaired(t)]
    BY DEF Edit
<1>2. page'.draft = Repaired(t)
    BY <1>1 DEF Templates, PageOK, PageFields
<1> QED
    BY <1>2, RepairedKeeps DEF Edit

LEMMA TabsAreLocal ==
    ASSUME Templates, ForeignConsistent, ForeignDistinct,
           BasicTab \/ ControlTab \/ StatesTab \/ SyncTab \/ HaTab
    PROVE  ActionsKept /\ DefaultKept
<1> DEFINE d == page.draft
           e == page'.draft
<1>1. Good(d)
    BY DEF Templates, PageOK, Component
<1>2. ASSUME NEW u, u.options = d.options, u.states = d.states, u.default_state = d.default_state, Apart(u, e)
      PROVE  ActionsKept /\ DefaultKept
    <2>1. e.options = d.options /\ e.states = d.states /\ e.default_state = d.default_state
        BY <1>2 DEF Apart
    <2> QED
        BY <2>1, NothingLost DEF DefaultKept
<1>3. CASE BasicTab
    <2>1. isNew \in BOOLEAN
        BY DEF isNew
    <2>2. \A u \in BasicEdits(d, isNew) : /\ Good(u) /\ u.options = d.options /\ u.states = d.states
                                         /\ u.default_state = d.default_state
        BY <1>1, <2>1, BasicTabKeeps
    <2>3. \E u \in BasicEdits(d, isNew) : Apart(u, e)
        BY <1>3, <2>2, EditedDraft DEF BasicTab
    <2> QED
        BY <1>2, <2>2, <2>3
<1>4. CASE ControlTab
    <2>1. \A u \in ControlEdits(d) : Good(u) /\ Local(d, u)
        BY <1>1, ControlTabKeeps DEF Local, Kept
    <2>2. PICK u \in ControlEdits(d) : Apart(u, e)
        BY <1>4, <2>1, EditedDraft DEF ControlTab
    <2>3. \A v \in DOMAIN d.states \cap DOMAIN e.states : e.states[v] = d.states[v]
        BY <2>1, <2>2 DEF Local, Apart
    <2>4. ActionsKept
        BY <2>3, NothingLost
    <2>5. Defaulted(d, e)
        BY <2>1, <2>2 DEF Local, Apart, Defaulted
    <2> QED
        BY <2>4, <2>5, DefaultedIsKept
<1>5. CASE StatesTab
    <2> DEFINE edits == UNION {CapabilityStateCard(d, v) : v \in DOMAIN d.states}
    <2>1. \A u \in edits : /\ Good(u) /\ u.options = d.options /\ u.default_state = d.default_state
                           /\ \A v \in DOMAIN d.states : \E a : Lost(d, u, v) \subseteq {a}
        BY <1>1, StatesTabKeeps DEF Kept
    <2>2. Edit("states", edits)
        BY <1>5 DEF StatesTab
    <2> HIDE DEF edits
    <2>3. PICK u \in edits : Apart(u, e) /\ "states" \in budget.tabs
        BY <2>1, <2>2, EditedDraft
    <2>4. e.states = u.states /\ e.options = d.options /\ e.default_state = d.default_state
        BY <2>1, <2>3 DEF Apart
    <2>5. \A v \in DOMAIN d.states : Cardinality(Lost(d, e, v)) <= 1
        <3> SUFFICES ASSUME NEW v \in DOMAIN d.states
                     PROVE  Cardinality(Lost(d, e, v)) <= 1
            OBVIOUS
        <3>1. PICK a : Lost(d, u, v) \subseteq {a}
            BY <2>1
        <3>2. Lost(d, e, v) = Lost(d, u, v)
            BY <2>4 DEF Lost
        <3> QED
            BY <3>1, <3>2, SmallLoss
    <2>6. ActionsKept
        BY <2>3, <2>5 DEF ActionsKept, Lost
    <2> QED
        BY <2>4, <2>6 DEF DefaultKept
<1>6. CASE SyncTab
    <2>0. typesLoaded \in BOOLEAN
        BY DEF typesLoaded, Loaded
    <2>1. \A u \in SyncEdits(d, typesLoaded) : Good(u) /\ Apart(d, u)
        BY <1>1, <2>0, SyncTabKeeps DEF Apart, Kept
    <2>2. PICK u \in SyncEdits(d, typesLoaded) : Apart(u, e)
        BY <1>6, <2>1, EditedDraft DEF SyncTab
    <2> QED
        BY <1>2, <2>1, <2>2 DEF Apart
<1>7. CASE HaTab
    <2>1. \A u \in HaEdits(d) : Good(u) /\ Apart(d, u)
        BY <1>1, HaTabKeeps DEF Apart, Kept
    <2>2. PICK u \in HaEdits(d) : Apart(u, e)
        BY <1>7, <2>1, EditedDraft DEF HaTab
    <2> QED
        BY <1>2, <2>1, <2>2 DEF Apart
<1> QED
    BY <1>3, <1>4, <1>5, <1>6, <1>7

LEMMA SaveActionIsLocal ==
    ASSUME Templates, SaveAction, SameEditor
    PROVE  ActionsKept /\ DefaultKept
<1> DEFINE d == page.draft
           state == page.dialog.state
           added == [id |-> CHOOSE n \in 1 .. MaxActions : n \notin UsedIds(d),
                     type |-> page.dialog.type, params |-> page.dialog.params]
           w == handleSaveAction(d, state, added)
<1>1. DOMAIN page = PageFields /\ Good(d)
    BY DEF Templates, PageOK, Component
<1>2. \/ page' = [page EXCEPT !.dialog = Closed]
      \/ page' = Moved(page, "crashed")
      \/ state \in DOMAIN d.states /\ page' = [page EXCEPT !.dialog = Closed, !.draft = w]
    BY <1>1 DEF SaveAction, PageFields
<1>3. CASE page' = [page EXCEPT !.dialog = Closed]
    <2>1. page'.draft = d
        BY <1>1, <1>3 DEF PageFields
    <2> QED
        BY <2>1, DraftStays
<1>4. CASE page' = Moved(page, "crashed")
    <2>1. page'.at = "crashed"
        BY <1>4, MovedKeeps DEF Templates
    <2>2. "crashed" \notin Editor
        BY IdAssumption DEF Editor
    <2> QED
        BY <2>1, <2>2 DEF SameEditor
<1>5. CASE state \in DOMAIN d.states /\ page' = [page EXCEPT !.dialog = Closed, !.draft = w]
    <2>1. added \in Action /\ added.id \notin UsedIds(d)
        BY AddedIsAction
    <2> HIDE DEF added
    <2>2. /\ Kept(d, w) /\ DOMAIN w.states = DOMAIN d.states /\ w.sync = d.sync
          /\ w.options = d.options /\ w.default_state = d.default_state
          /\ \A v \in DOMAIN d.states : ToSet(d.states[v]) \subseteq ToSet(w.states[v])
        <3> HIDE DEF d, state
        <3> QED
            BY <1>1, <1>5, <2>1, SaveActionKeeps
    <2> HIDE DEF w
    <2>3. page'.draft = w
        BY <1>1, <1>5 DEF PageFields
    <2>4. ActionsKept
        BY <2>2, <2>3, NothingLost
    <2> QED
        BY <2>2, <2>3, <2>4 DEF DefaultKept
<1> QED
    BY <1>2, <1>3, <1>4, <1>5

\* If the templates that others store have one list of actions for every option,
\* those of a list told apart by their identifiers, an edit loses nothing that
\* it is not about: the actions of a state go one by one or with its option, and
\* the default state stays one of the options unless its own is renamed
\* (buildStateMapFromOptions, removeSelectOption, removeActionFromState).
THEOREM EditsLoseNothingElse ==
    ASSUME ForeignConsistent, ForeignDistinct
    PROVE  Spec => EditsAreLocal
<1>1. ASSUME Templates, [Next]_vars
      PROVE  SameEditor /\ ~Loads => ActionsKept /\ DefaultKept
    <2>1. CASE \E i \in DOMAIN request : Return(i)
        BY <1>1, <2>1, ReturnKeeps, DraftStays DEF SameEditor
    <2>2. CASE Users
        <3>1. CASE BasicTab \/ ControlTab \/ StatesTab \/ SyncTab \/ HaTab
            BY <1>1, <3>1, TabsAreLocal
        <3>2. CASE addActionToState \/ handleTypeChange \/ setParams \/ CancelAction \/ DismissAction
            BY <1>1, <3>2, DialogsKeep, DraftStays
        <3>3. CASE SaveAction
            BY <1>1, <3>3, SaveActionIsLocal
        <3>4. CASE handleSave \/ handleDuplicate \/ handleDelete
            BY <1>1, <3>4, SendsKeep, DraftStays
        <3>5. CASE Navigate
            BY <1>1, <3>5, NavigateKeeps DEF SameEditor
        <3>6. CASE SetFilter \/ Refetch
            BY <1>1, <3>6, LooksKeep, DraftStays
        <3> QED
            BY <2>2, <3>1, <3>2, <3>3, <3>4, <3>5, <3>6 DEF Users
    <2>3. CASE \E q \in Query : FetchSucceeds(q) \/ FetchFails(q) \/ NotFound(q)
        BY <1>1, <2>3, AnswersKeep, DraftStays
    <2>4. CASE \/ \E q \in Query : ServerReads(q)
               \/ \E i \in DOMAIN request :
                     ServerProcesses(i) \/ RequestSucceeds(i) \/ RequestRefused(i) \/ RequestLost(i)
               \/ Outside \/ UNCHANGED vars
        <3>1. page' = page
            BY <2>4 DEF ServerReads, ServerProcesses, RequestSucceeds, RequestRefused, RequestLost, Outside, vars
        <3> QED
            BY <3>1, DraftStays
    <2> QED
        BY <1>1, <2>1, <2>2, <2>3, <2>4 DEF Next, Answers, Faults
<1> QED
    BY <1>1, TemplatesInvariant, PTL DEF Spec, EditsAreLocal

-----------------------------------------------------------------------------
(* What is settled is true.                                                *)

LEMMA ServeStays == ASSUME server' = server PROVE \A q : Serve(q)' = Serve(q)
BY DEF Serve, Table

\* What makes an answer out of date depends on the requests' kinds alone.
LEMMA DirtyStays ==
    ASSUME NEW i \in DOMAIN request, NEW k \in DOMAIN request',
           request'[k].phase = request[i].phase, request'[k].kind = request[i].kind,
           request'[k].id = request[i].id
    PROVE  \A q : request[i].phase = "stored" /\ q \in Invalidated(request[i]) => Dirty(q)'
BY DEF Dirty, Invalidated

\* Steps that leave the server, the requests' effects and the answers alone.
LEMMA QuietKeepsFresh ==
    ASSUME Fresh, server' = server, missed' = missed, \A q \in Query : Dirty(q) => Dirty(q)',
           \A q \in Query : /\ cache'[q].data = cache[q].data /\ cache'[q].invalid = cache[q].invalid
                            /\ cache'[q].fetch \in {cache[q].fetch, Sent}
    PROVE  Fresh'
<1> SUFFICES ASSUME NEW q \in Query, q \notin missed
             PROVE  Current(q)'
    BY DEF Fresh
<1>1. Serve(q)' = Serve(q)
    BY ServeStays
<1>2. Current(q)
    BY DEF Fresh
<1> QED
    BY <1>1, <1>2 DEF Current, Loaded

\* A request that is over was not about to mark anything.
LEMMA WithoutStaysDirty ==
    ASSUME Templates, NEW i \in DOMAIN request, request[i].phase # "stored", request' = Without(i)
    PROVE  \A q \in Query : Dirty(q) => Dirty(q)'
<1> SUFFICES ASSUME NEW q \in Query, Dirty(q)
             PROVE  Dirty(q)'
    OBVIOUS
<1>1. PICK j \in DOMAIN request : request[j].phase = "stored" /\ q \in Invalidated(request[j])
    BY DEF Dirty
<1>2. PICK k \in DOMAIN request' : request'[k] = request[j]
    BY <1>1, WithoutKeeps DEF Templates
<1> QED
    BY <1>1, <1>2 DEF Dirty, Invalidated

LEMMA SendStaysDirty ==
    ASSUME Templates, NEW r, request' = Append(request, r)
    PROVE  \A q \in Query : Dirty(q) => Dirty(q)'
<1> SUFFICES ASSUME NEW q \in Query, Dirty(q)
             PROVE  Dirty(q)'
    OBVIOUS
<1>1. PICK j \in DOMAIN request : request[j].phase = "stored" /\ q \in Invalidated(request[j])
    BY DEF Dirty
<1>2. request \in Seq(ToSet(request) \cup {r})
    BY DEF Templates, RequestsOK, IsSequence
<1>3. j \in DOMAIN request' /\ request'[j] = request[j]
    BY <1>2
<1> QED
    BY <1>1, <1>3 DEF Dirty, Invalidated

LEMMA ServerReadsFresh ==
    ASSUME Templates, Fresh, NEW q \in Query, ServerReads(q)
    PROVE  Fresh'
<1>1. UNCHANGED <<server, page, request, missed, budget>>
    BY DEF ServerReads
<1>2. /\ cache'[q].data = cache[q].data /\ cache'[q].invalid = cache[q].invalid
      /\ cache'[q].fetch = Read(Serve(q)) /\ \A p \in Query : p # q => cache'[p] = cache[p]
    BY ServerReadsKeeps
<1>3. \A p : Serve(p)' = Serve(p) /\ (Dirty(p) => Dirty(p)')
    BY <1>1, ServeStays DEF Dirty, Invalidated
<1> SUFFICES ASSUME NEW p \in Query, p \notin missed
             PROVE  Current(p)'
    BY <1>1 DEF Fresh
<1>4. Current(p)
    BY DEF Fresh
<1>5. CASE p = q
    BY <1>2, <1>3, <1>4, <1>5 DEF Current, Loaded
<1>6. CASE p # q
    BY <1>2, <1>3, <1>4, <1>6 DEF Current, Loaded
<1> QED
    BY <1>5, <1>6

LEMMA AnswersFresh ==
    ASSUME Templates, Fresh, NEW q \in Query, FetchSucceeds(q) \/ FetchFails(q) \/ NotFound(q)
    PROVE  Fresh'
<1>1. PICK entry :
        /\ cache'[q] = entry /\ \A p \in Query : p # q => cache'[p] = cache[p]
        /\ DOMAIN request' = DOMAIN request
        /\ \A i \in DOMAIN request : /\ request'[i].phase = request[i].phase
                                     /\ request'[i].kind = request[i].kind /\ request'[i].id = request[i].id
        /\ UNCHANGED <<server, missed>> /\ entry.fetch = Idle
        /\ entry.invalid \/ (cache[q].fetch \notin {Idle, Sent} /\ cache[q].fetch = Read(entry.data))
    BY AnswersKeep
<1>2. \A p : Serve(p)' = Serve(p)
    BY <1>1, ServeStays
<1>3. \A p : Dirty(p) => Dirty(p)'
    <2> SUFFICES ASSUME NEW p, Dirty(p)
                 PROVE  Dirty(p)'
        OBVIOUS
    <2>1. PICK i \in DOMAIN request : request[i].phase = "stored" /\ p \in Invalidated(request[i])
        BY DEF Dirty
    <2> QED
        BY <1>1, <2>1, DirtyStays
<1> SUFFICES ASSUME NEW p \in Query, p \notin missed
             PROVE  Current(p)'
    BY <1>1 DEF Fresh
<1>4. Current(p)
    BY DEF Fresh
<1>5. CASE p = q
    <2>1. cache'[p].fetch = Idle
        BY <1>1, <1>5
    <2>2. ASSUME Serve(p) # None, ~entry.invalid
          PROVE  entry.data = Serve(p) \/ Dirty(p)
        <3>1. cache[p].fetch \notin {Idle, Sent} /\ cache[p].fetch = Read(entry.data)
            BY <1>1, <1>5, <2>2
        <3>2. Read(entry.data) = Read(Serve(p)) \/ Dirty(p)
            BY <1>4, <2>2, <3>1 DEF Current
        <3> QED
            BY <3>2, ReadIsNoMark
    <2> QED
        BY <1>1, <1>2, <1>3, <1>5, <2>1, <2>2 DEF Current
<1>6. CASE p # q
    BY <1>1, <1>2, <1>3, <1>4, <1>6 DEF Current, Loaded
<1> QED
    BY <1>5, <1>6

\* The server's table changes: the queries whose answer is another one now are
\* those that the request invalidates when its answer arrives.
LEMMA ServerProcessesFresh ==
    ASSUME Templates, Fresh, NEW i \in DOMAIN request, ServerProcesses(i)
    PROVE  Fresh'
<1> DEFINE r == request[i]
           left == CASE r.kind = "create" -> CreateCapability(r)
                     [] r.kind = "update" -> UpdateCapability(r)
                     [] OTHER -> DeleteCapability(r)
           phase == IF left = {} THEN "refused" ELSE "stored"
<1>1. /\ r.phase = "sent" /\ request' = [request EXCEPT ![i].phase = phase]
      /\ server' = IF left = {} THEN server ELSE [server EXCEPT ![r.id] = CHOOSE t \in left : TRUE]
      /\ UNCHANGED <<cache, page, missed, budget>>
    BY DEF ServerProcesses
<1>2. r.kind = "delete" => left \subseteq {None}
    BY DEF DeleteCapability
<1>3. RequestsOK /\ DOMAIN r = RequestFields /\ DOMAIN server = Id
    BY DEF Templates, RequestsOK, RequestOK, ServerOK
<1> HIDE DEF left
<1>4. phase = IF left = {} THEN "refused" ELSE "stored"
    OBVIOUS
<1> HIDE DEF phase
<1>5. request' = [request EXCEPT ![i] = [@ EXCEPT !.phase = phase, !.waits = r.waits]]
    BY <1>1, <1>3 DEF RequestFields
<1>6. /\ DOMAIN request' = DOMAIN request /\ request'[i].phase = phase
      /\ request'[i].kind = r.kind /\ request'[i].id = r.id
      /\ \A j \in DOMAIN request : j # i => request'[j] = request[j]
    BY <1>3, <1>5, RequestExcept
<1>7. \A p : Dirty(p) => Dirty(p)'
    <2> SUFFICES ASSUME NEW p, Dirty(p)
                 PROVE  Dirty(p)'
        OBVIOUS
    <2>1. PICK j \in DOMAIN request : request[j].phase = "stored" /\ p \in Invalidated(request[j])
        BY DEF Dirty
    <2>2. j # i
        BY <1>1, <2>1
    <2>3. request'[j] = request[j]
        BY <1>6, <2>2
    <2> QED
        BY <1>6, <2>1, <2>3, DirtyStays
<1> SUFFICES ASSUME NEW p \in Query, p \notin missed
             PROVE  Current(p)'
    BY <1>1 DEF Fresh
<1>8. Current(p)
    BY DEF Fresh
<1>9. CASE left = {}
    <2>1. Serve(p)' = Serve(p)
        BY <1>1, <1>9, ServeStays
    <2> QED
        BY <1>1, <1>7, <1>8, <2>1 DEF Current, Loaded
<1>10. CASE left # {}
    <2>1. request'[i].phase = "stored"
        BY <1>4, <1>6, <1>10
    <2>2. p \in Invalidated(r) => Dirty(p)'
        BY <1>6, <2>1 DEF Dirty, Invalidated
    <2>3. CASE p \in Invalidated(r)
        BY <2>2, <2>3 DEF Current
    <2>4. CASE p \notin Invalidated(r)
        <3>1. p \notin Lists \cup {"global"} /\ (r.kind # "delete" => p # r.id)
            BY <2>4 DEF Invalidated
        <3>2. CASE p = "types"
            <4>1. Serve(p)' = Serve(p)
                BY <3>2 DEF Serve
            <4> QED
                BY <1>1, <1>7, <1>8, <4>1 DEF Current, Loaded
        <3>3. CASE p \in Id
            <4>1. p \notin {"list", "found", "global", "types"}
                BY <3>3, IdAssumption
            <4>2. Serve(p) = server[p] /\ Serve(p)' = server'[p]
                BY <4>1 DEF Serve
            <4>3. PICK t \in left : server' = [server EXCEPT ![r.id] = t]
                BY <1>1, <1>10
            <4>4. CASE p # r.id
                <5>1. Serve(p)' = Serve(p)
                    BY <1>3, <3>3, <4>2, <4>3, <4>4
                <5> QED
                    BY <1>1, <1>7, <1>8, <5>1 DEF Current, Loaded
            <4>5. CASE p = r.id
                <5>1. t = None
                    BY <1>2, <3>1, <4>3, <4>5
                <5>2. Serve(p)' = None
                    BY <1>3, <3>3, <4>2, <4>3, <4>5, <5>1
                <5> QED
                    BY <5>2 DEF Current
            <4> QED
                BY <4>4, <4>5
        <3> QED
            BY <3>1, <3>2, <3>3 DEF Query
    <2> QED
        BY <2>3, <2>4
<1> QED
    BY <1>9, <1>10

\* What the request made out of date is marked, fetched again, or counted as missed.
LEMMA RequestSucceedsFresh ==
    ASSUME Templates, Fresh, NEW i \in DOMAIN request, RequestSucceeds(i)
    PROVE  Fresh'
<1> DEFINE keys == Invalidated(request[i])
<1>1. server' = server /\ missed' = missed \cup {q \in keys : Unstoppable(q)}
    BY DEF RequestSucceeds
<1>2. /\ DOMAIN request' = DOMAIN request /\ request'[i].phase = "waiting"
      /\ \A j \in DOMAIN request : j # i => request'[j] = request[j]
      /\ \A q \in Query \ keys : cache'[q] = cache[q]
      /\ \A q \in Query \cap keys : cache[q] # Empty => cache'[q] = Invalidate(cache[q], q \in Active)
      /\ \A q \in Query \cap keys : cache[q] = Empty => cache'[q] = cache[q]
    <2>1. \A q \in Query : cache[q] = Empty => cache'[q] = cache[q]
        BY DEF RequestSucceeds
    <2> QED
        BY <2>1, RequestSucceedsKeeps
<1>3. \A q : q \notin keys /\ Dirty(q) => Dirty(q)'
    <2> SUFFICES ASSUME NEW q, q \notin keys, Dirty(q)
                 PROVE  Dirty(q)'
        OBVIOUS
    <2>1. PICK j \in DOMAIN request : request[j].phase = "stored" /\ q \in Invalidated(request[j])
        BY DEF Dirty
    <2>2. j # i
        BY <2>1
    <2> QED
        BY <1>2, <2>1, <2>2, DirtyStays
<1> HIDE DEF keys
<1> SUFFICES ASSUME NEW q \in Query, q \notin missed'
             PROVE  Current(q)'
    BY DEF Fresh
<1>4. Serve(q)' = Serve(q) /\ Current(q)
    BY <1>1, ServeStays DEF Fresh
<1>5. CASE q \notin keys
    <2>1. cache'[q] = cache[q] /\ (Dirty(q) => Dirty(q)')
        BY <1>2, <1>3, <1>5
    <2> QED
        BY <1>4, <2>1 DEF Current, Loaded
<1>6. CASE q \in keys /\ cache[q] = Empty
    <2>1. cache'[q] = Empty
        BY <1>2, <1>6, Zenon
    <2>2. cache'[q].data = None /\ cache'[q].fetch = Idle
        BY <2>1 DEF Empty
    <2> QED
        BY <2>2 DEF Current, Loaded
<1>7. CASE q \in keys /\ cache[q] # Empty
    <2> DEFINE active == q \in Active
    <2>1. cache'[q] = Invalidate(cache[q], active) /\ active \in BOOLEAN
        BY <1>2, <1>7
    <2>2. DOMAIN cache[q] = EntryFields
        BY DEF Templates, CacheOK, EntryOK
    <2>3. ~(Fetching(cache[q]) /\ (active = TRUE => ~Loaded(cache[q])))
        BY <1>1, <1>7 DEF Unstoppable
    <2> HIDE DEF active
    <2> DEFINE f == Invalidate(cache[q], active)
    <2>4. /\ f.invalid = TRUE
          /\ f.fetch = Sent \/ (f.fetch = cache[q].fetch /\ (active = FALSE \/ (Fetching(cache[q]) /\ ~Loaded(cache[q]))))
        BY <2>1, <2>2, InvalidateMarks
    <2> HIDE DEF f
    <2>5. cache'[q].invalid = TRUE /\ cache'[q].fetch \in {Idle, Sent}
        BY <2>1, <2>3, <2>4 DEF f, Fetching
    <2> QED
        BY <2>5 DEF Current
<1> QED
    BY <1>5, <1>6, <1>7

LEMMA InitFresh ==
    ASSUME Init
    PROVE  Fresh
<1>1. \A q \in Query : cache[q].fetch = Idle /\ (Loaded(cache[q]) => cache[q].data = Serve(q))
    BY DEF Init, Empty, Loaded
<1> QED
    BY <1>1 DEF Fresh, Current

LEMMA NextKeepsFresh ==
    ASSUME Templates, Fresh, [Next]_vars
    PROVE  Fresh'
<1>1. CASE \E i \in DOMAIN request : Return(i)
    <2>1. PICK i \in DOMAIN request : Return(i)
        BY <1>1
    <2>2. request' = Without(i) /\ request[i].phase # "stored" /\ UNCHANGED <<server, missed>>
        BY <2>1 DEF Return, CanReturn
    <2> QED
        BY <2>1, <2>2, ReturnKeeps, WithoutStaysDirty, QuietKeepsFresh
<1>2. CASE handleSave \/ handleDuplicate \/ handleDelete
    <2>1. (\E r : request' = Append(request, r)) /\ UNCHANGED <<server, cache, missed>>
        BY <1>2 DEF handleSave, handleDuplicate, handleDelete, Send
    <2>2. \A q \in Query : Dirty(q) => Dirty(q)'
        BY <2>1, SendStaysDirty
    <2> QED
        BY <2>1, <2>2, QuietKeepsFresh
<1>3. CASE Navigate \/ SetFilter \/ Refetch
    <2>1. UNCHANGED <<server, request, missed>>
        BY <1>3 DEF Navigate, SetFilter, Refetch
    <2>2. \A q \in Query : Dirty(q) => Dirty(q)'
        BY <2>1 DEF Dirty, Invalidated
    <2>3. \A q \in Query : /\ cache'[q].data = cache[q].data /\ cache'[q].invalid = cache[q].invalid
                           /\ cache'[q].fetch \in {cache[q].fetch, Sent}
        BY <1>3, NavigateKeeps, LooksKeep
    <2> QED
        BY <2>1, <2>2, <2>3, QuietKeepsFresh
<1>4. CASE \/ BasicTab \/ ControlTab \/ StatesTab \/ SyncTab \/ HaTab
           \/ addActionToState \/ handleTypeChange \/ setParams \/ SaveAction \/ CancelAction \/ DismissAction
           \/ UNCHANGED vars
    <2>1. UNCHANGED <<server, cache, request, missed>>
        BY <1>4 DEF BasicTab, ControlTab, StatesTab, SyncTab, HaTab, Edit, addActionToState, handleTypeChange,
                    setParams, SaveAction, CancelAction, DismissAction, InDialog, Unsent, vars
    <2>2. \A q \in Query : Dirty(q) => Dirty(q)'
        BY <2>1 DEF Dirty, Invalidated
    <2> QED
        BY <2>1, <2>2, QuietKeepsFresh
<1>5. CASE \E q \in Query : ServerReads(q) \/ FetchSucceeds(q) \/ FetchFails(q) \/ NotFound(q)
    BY <1>5, ServerReadsFresh, AnswersFresh
<1>6. CASE \E i \in DOMAIN request : ServerProcesses(i) \/ RequestSucceeds(i)
    BY <1>6, ServerProcessesFresh, RequestSucceedsFresh
<1>7. ASSUME NEW i \in DOMAIN request, RequestRefused(i) \/ RequestLost(i)
      PROVE  Fresh'
    <2>1. request' = Without(i) /\ UNCHANGED <<server, cache>>
        BY <1>7 DEF RequestRefused, RequestLost
    <2>2. CASE request[i].phase = "stored"
        <3>1. missed' = Query
            BY <1>7, <2>2 DEF RequestRefused, RequestLost
        <3> QED
            BY <3>1 DEF Fresh, Query, Lists
    <2>3. CASE request[i].phase # "stored"
        <3>1. missed' = missed
            BY <1>7, <2>3 DEF RequestRefused, RequestLost
        <3>2. \A q \in Query : Dirty(q) => Dirty(q)'
            BY <2>1, <2>3, WithoutStaysDirty
        <3> QED
            BY <2>1, <3>1, <3>2, QuietKeepsFresh
    <2> QED
        BY <2>2, <2>3
<1>8. CASE Outside
    <2>1. missed' = Query
        BY <1>8 DEF Outside
    <2> QED
        BY <2>1 DEF Fresh, Query, Lists
<1> QED
    BY <1>1, <1>2, <1>3, <1>4, <1>5, <1>6, <1>7, <1>8 DEF Next, Users, Answers, Faults

\* Once every request is over, data that nothing marks as out of date is what
\* the server holds, or a change was missed: one of another browser, one whose
\* answer was lost, or one during a first load (the onSuccess handlers of
\* useCapabilityEditor, which invalidate what their request changes).
THEOREM SettledAnswersAreTrue == Spec => []SettledIsTrue
<1>1. Init => Templates /\ Fresh
    BY InitTemplates, InitFresh
<1>2. Templates /\ Fresh /\ [Next]_vars => (Templates /\ Fresh)'
    BY NextKeepsTemplates, NextKeepsFresh
<1>3. Fresh => SettledIsTrue
    <2> SUFFICES ASSUME Fresh, request = <<>>, NEW q \in Query \ missed, Settled(cache[q]), Serve(q) # None
                 PROVE  cache[q].data = Serve(q)
        BY DEF SettledIsTrue
    <2>1. ~Dirty(q)
        BY DEF Dirty
    <2> QED
        BY <2>1 DEF Fresh, Current, Settled
<1> QED
    BY <1>1, <1>2, <1>3, PTL DEF Spec
=============================================================================
