------------------------ MODULE DeviceEditingProofs ------------------------
(***************************************************************************)
(* Theorems about the drawer and the capability controls: what is shown    *)
(* after saves and updates is what the server holds, an optimistic row     *)
(* does not outlive its save, and a refused PATCH has an explanation.      *)
(***************************************************************************)
EXTENDS DeviceEditing, TLAPS

-----------------------------------------------------------------------------
(* The inductive invariant.                                                *)

IsSequence(s) == s \in Seq({s[i] : i \in DOMAIN s})

Waiting == {"sent", "stored", "refused"}
Waking == {"settle", "detail"}
Input == [name : Name, icon : Icon \cup {None}]
Change == [field : {"state"}, value : {"on", "off"}] \cup [field : {"enabled"}, value : BOOLEAN]
RequestFields == {"kind", "device", "input", "undoes", "snapshot", "phase", "waits", "stored", "ok", "watched"}
RequestOK(r) ==
    /\ DOMAIN r = RequestFields
    /\ r.kind \in Saves \cup {"row", "byDevice", "assign", "global"}
    /\ r.kind \in Saves => /\ r.device \in Device /\ r.input \in Input
                           /\ \A q \in DeviceKeys : r.snapshot[q] \in Value(q) \cup {None}
    /\ r.kind \notin Saves => r.input \in Change
    /\ r.phase \in Waiting \cup Waking \cup {"done"}
    /\ r.waits \subseteq Query
    /\ (r.ok => r.stored) /\ (r.phase \in Waiting => ~r.ok) /\ (r.phase = "stored" => r.stored)

Typed ==
    /\ TypeOK
    /\ DOMAIN cache = Query
    /\ IsSequence(request) /\ \A i \in DOMAIN request : RequestOK(request[i])
    /\ budget \in Budget /\ Len(request) + budget.ops <= MaxOps

\* The data of an entry, unless it is marked, and an answer on its way are
\* among those in S.
DataIn(e, S) == Loaded(e) /\ ~e.invalid => e.data \in S
FetchIn(e, S) == e.fetch \notin {Idle, Sent} => \E v \in S : e.fetch = Read(v)

\* What is shown may be optimistic only while a save is in flight.
Pending == \E i \in DOMAIN request : request[i].kind \in Saves /\ request[i].phase \in Waiting
Held(l) == {s \in SUBSET server.past : l = "new" => \A d \in s : d.status = "new"}
PhantomsExplained ==
    /\ server.device \in server.past
    /\ \A l \in Lists : FetchIn(cache[l], Held(l)) /\ (DataIn(cache[l], Held(l)) \/ Pending)

\* The devices in an answer, all of them new.
In(q, v) == IF v = None THEN {} ELSE IF q = "detail" THEN {v} ELSE v
AllNew(q, v) == \A d \in In(q, v) : d.status = "new"
RegisterMade == \E i \in DOMAIN request : request[i].kind = "register"
\* Before the first registration reaches the server, nothing but the
\* optimistic row of one shows the device as registered.
BeforeRegistration ==
    /\ undo = {}
    /\ \A i \in DOMAIN request : request[i].kind \in Saves =>
          /\ ~request[i].stored /\ ~request[i].undoes /\ request[i].phase # "stored"
          /\ request[i].kind = "patch" => \E j \in 1 .. i - 1 : request[j].kind = "register"
    /\ RegisterMade \/ \A q \in Lists \cup {"detail"} :
          /\ AllNew(q, cache[q].data) /\ AllNew(q, cache[q].back.data)
          /\ \A v : cache[q].fetch = Read(v) => AllNew(q, v)
RefusalsAhead == server.device.status = "new" => BeforeRegistration

\* A request of the kind is stored, and its answer, which will have the query
\* fetched again, is on its way; no answer of such a request was lost.
Dirty(kind) == \E i \in DOMAIN request : request[i].kind = kind /\ request[i].phase = "stored"
NoneLost(kind) ==
    \A i \in DOMAIN request :
        request[i].kind = kind /\ request[i].stored => request[i].ok \/ request[i].phase = "stored"
ToggleOK(q, kind, page) ==
    /\ (\E i \in DOMAIN request : request[i].kind = kind) => Loaded(cache[q])
    /\ \A i \in DOMAIN request :
          request[i].kind = kind /\ request[i].phase # "done" /\ request[i].watched => view.page = page
    /\ Alone /\ Watched({kind}) /\ NoneLost(kind) =>
          (DataIn(cache[q], {Serve(q)}) /\ FetchIn(cache[q], {Serve(q)})) \/ Dirty(kind)
OnlyTable == \A i \in DOMAIN request : request[i].kind \notin {"row", "byDevice"}
TogglesOK ==
    /\ ToggleOK("global", "global", "global")
    /\ OnlyTable => ToggleOK("assign", "assign", "assignments")

\* The answer of a save that somebody watches finds the detail on screen, or
\* no fetch of it in flight, so that it starts a new one or leaves a mark.
Busy == \E i \in DOMAIN request :
            request[i].kind \in Saves /\ request[i].phase \in Waiting /\ request[i].watched
SavesOK ==
    /\ (\E i \in DOMAIN request : request[i].kind \in Saves) => Loaded(cache["detail"])
    /\ Busy => IF view.page = "devices" THEN view.tab # None ELSE cache["detail"].fetch = Idle
    /\ Alone /\ Watched(Saves) =>
         (DataIn(cache["detail"], {server.device}) /\ FetchIn(cache["detail"], {server.device})) \/ Pending

IInv == Typed /\ PhantomsExplained /\ RefusalsAhead /\ TogglesOK /\ SavesOK
-----------------------------------------------------------------------------
(* Entries of the cache.                                                   *)

LEMMA ReadIsNoMark ==
    ASSUME NEW v
    PROVE  Read(v) \notin {Idle, Sent} /\ Read(v)[2] = v /\ \A w : Read(v) = Read(w) => v = w
<1>1. Read(v)[1] = "read" /\ Read(v)[2] = v
    BY DEF Read
<1>2. Idle[1] = "idle" /\ Sent[1] = "sent"
    BY DEF Idle, Sent
<1>3. \A w : Read(v) = Read(w) => v = w
    BY DEF Read
<1> QED
    BY <1>1, <1>2, <1>3

LEMMA IdleIsNotSent == Idle # Sent
BY DEF Idle, Sent

LEMMA EntryRead ==
    ASSUME NEW V, NEW e \in Entry(V), e.fetch \notin {Idle, Sent}
    PROVE  \E v \in V : e.fetch = Read(v) /\ e.fetch[2] = v
<1>1. PICK v \in V : e.fetch = Read(v)
    BY DEF Entry
<1> QED
    BY <1>1, ReadIsNoMark

LEMMA EntryShape ==
    ASSUME NEW V, NEW e \in Entry(V)
    PROVE  e.data \in V \cup {None} /\ e.invalid \in BOOLEAN /\ e.back.data \in V \cup {None}
BY DEF Entry, Past

\* What f shows, returns to or has on its way, e has shown, gone back to or
\* had on its way, and a mark goes only when an answer comes.
From(e, x) == x \in {e.data, e.back.data, None} \/ e.fetch = Read(x)
Draws(e, f) ==
    /\ f.fetch \in {e.fetch, Idle, Sent}
    /\ (f.data = e.data /\ (e.invalid => f.invalid)) \/ e.fetch = Read(f.data)
    /\ Loaded(e) => Loaded(f)
    /\ From(e, f.back.data)

LEMMA DrawsSelf == ASSUME NEW e PROVE Draws(e, e)
BY DEF Draws, From

LEMMA DrawsOn ==
    ASSUME NEW e, NEW f, NEW g, Draws(e, f), Draws(f, g)
    PROVE  Draws(e, g)
<1>1. g.fetch \in {e.fetch, Idle, Sent} /\ (Loaded(e) => Loaded(g))
    BY DEF Draws
<1>2. \A x : f.fetch = Read(x) => e.fetch = Read(x)
    BY ReadIsNoMark DEF Draws
<1>3. (g.data = e.data /\ (e.invalid => g.invalid)) \/ e.fetch = Read(g.data)
    BY <1>2 DEF Draws
<1>4. From(e, g.back.data)
    BY <1>2 DEF Draws, From
<1> QED
    BY <1>1, <1>3, <1>4 DEF Draws

LEMMA BeginEffect ==
    ASSUME NEW V, NEW e \in Entry(V)
    PROVE  /\ Begin(e) \in Entry(V) /\ Begin(e).data = e.data /\ Begin(e).invalid = e.invalid
           /\ Begin(e).fetch = Sent /\ Begin(e).back.data = e.data
<1>1. Begin(e) \in Entry(V)
    BY DEF Begin, Entry, Past, PastOf, Loaded
<1> QED
    BY <1>1 DEF Begin, Entry, Past, PastOf

LEMMA BeginDraws ==
    ASSUME NEW V, NEW e \in Entry(V)
    PROVE  Draws(e, Begin(e)) /\ Draws(e, Start(e)) /\ Draws(e, Restart(e))
           /\ Start(e) \in Entry(V) /\ Restart(e) \in Entry(V)
<1>1. Draws(e, Begin(e))
    BY BeginEffect DEF Draws, From, Loaded
<1> QED
    BY <1>1, BeginEffect, DrawsSelf DEF Start, Restart

\* An entry that is invalidated is marked, and if it is used and was loaded no
\* answer to an earlier fetch can come any more.
LEMMA InvalidateEffect ==
    ASSUME NEW V, NEW e \in Entry(V), NEW active \in BOOLEAN
    PROVE  LET f == Invalidate(e, active) IN
           /\ f \in Entry(V) /\ Draws(e, f) /\ f.invalid /\ f.data = e.data
           /\ f.fetch = e.fetch \/ (active /\ f.fetch = Sent)
           /\ active /\ Loaded(e) => f.fetch = Sent
<1> DEFINE m == [e EXCEPT !.invalid = TRUE]
<1>1. m.data = e.data /\ m.invalid /\ m.fetch = e.fetch /\ m.back = e.back
    BY DEF Entry
<1>2. m \in Entry(V)
    BY DEF Entry
<1>3. Draws(e, m)
    BY <1>1 DEF Draws, From, Loaded
<1>5. Invalidate(e, active) = IF active THEN Restart(m) ELSE m
    BY DEF Invalidate
<1> HIDE DEF m
<1>6. CASE ~active
    BY <1>2, <1>3, <1>1, <1>5, <1>6
<1>7. CASE active /\ Fetching(m) /\ ~Loaded(m)
    BY <1>2, <1>3, <1>1, <1>5, <1>7 DEF Restart, Loaded
<1>8. CASE active /\ ~(Fetching(m) /\ ~Loaded(m))
    <2>1. Invalidate(e, active) = Begin(m)
        BY <1>5, <1>8 DEF Restart
    <2>2. Draws(e, Begin(m))
        BY <1>2, <1>3, BeginDraws, DrawsOn
    <2>3. Begin(m) \in Entry(V) /\ Begin(m).data = m.data /\ Begin(m).invalid = m.invalid /\ Begin(m).fetch = Sent
        BY <1>2, BeginEffect
    <2> QED
        BY <1>1, <1>8, <2>1, <2>2, <2>3
<1> QED
    BY <1>6, <1>7, <1>8

LEMMA FailedEffect ==
    ASSUME NEW V, NEW e \in Entry(V)
    PROVE  LET f == Failed(e) IN f \in Entry(V) /\ Draws(e, f) /\ f.invalid /\ f.fetch = Idle
<1>1. Failed(e) \in Entry(V)
    BY DEF Failed, StopFetch, Entry, Past, Nothing
<1>2. /\ Failed(e).data = e.data /\ Failed(e).invalid /\ Failed(e).fetch = Idle
      /\ Failed(e).back.data = None
    BY DEF Failed, StopFetch, Entry, Nothing
<1> QED
    BY <1>1, <1>2 DEF Draws, From, Loaded

LEMMA AnsweredEffect ==
    ASSUME NEW V, None \notin V, NEW e \in Entry(V), NEW v \in V, e.fetch = Read(v)
    PROVE  LET f == Answered(e, v) IN f \in Entry(V) /\ Draws(e, f) /\ f.fetch = Idle
<1>1. Answered(e, v) \in Entry(V)
    BY DEF Answered, SetData, StopFetch, Entry, Past, Nothing
<1>2. /\ Answered(e, v).data = v /\ Answered(e, v).fetch = Idle
      /\ Answered(e, v).back.data = None
    BY DEF Answered, SetData, StopFetch, Entry, Nothing
<1> QED
    BY <1>1, <1>2 DEF Draws, From, Loaded

LEMMA CancelEffect ==
    ASSUME NEW V, NEW e \in Entry(V)
    PROVE  LET f == Cancel(e) IN
           /\ f \in Entry(V) /\ f.fetch = Idle /\ f.data \in {e.data, e.back.data}
           /\ f.back.data \in {e.back.data, None}
<1>1. Cancel(e) \in Entry(V)
    BY DEF Cancel, Fetching, Entry, Past, Nothing
<1>2. CASE Fetching(e)
    <2>1. Cancel(e).fetch = Idle /\ Cancel(e).data = e.back.data /\ Cancel(e).back.data = None
        BY <1>2 DEF Cancel, Nothing
    <2> QED
        BY <1>1, <2>1
<1>3. CASE ~Fetching(e)
    BY <1>1, <1>3 DEF Cancel, Fetching
<1> QED
    BY <1>2, <1>3

LEMMA SetDataEffect ==
    ASSUME NEW V, NEW e \in Entry(V), NEW v \in V \cup {None}
    PROVE  LET f == SetData(e, v) IN
           /\ f \in Entry(V) /\ f.fetch = e.fetch /\ f.back = e.back
           /\ f.data = IF v = None THEN e.data ELSE v
<1>1. CASE v = None
    BY <1>1 DEF SetData
<1>2. CASE v # None
    <2>1. SetData(e, v) = [e EXCEPT !.data = v, !.error = FALSE, !.invalid = FALSE]
        BY <1>2 DEF SetData
    <2>2. SetData(e, v) \in Entry(V)
        BY <2>1 DEF Entry
    <2>3. SetData(e, v).fetch = e.fetch /\ SetData(e, v).back = e.back /\ SetData(e, v).data = v
        BY <2>1 DEF Entry
    <2> QED
        BY <1>2, <2>2, <2>3
<1> QED
    BY <1>1, <1>2

\* An entry whose answer the server computes.
LEMMA ReadEffect ==
    ASSUME NEW V, NEW e \in Entry(V), NEW v \in V
    PROVE  LET f == [e EXCEPT !.fetch = Read(v)] IN
           /\ f \in Entry(V) /\ f.fetch = Read(v)
           /\ f.data = e.data /\ f.invalid = e.invalid /\ f.back = e.back
<1>1. [e EXCEPT !.fetch = Read(v)] \in Entry(V)
    BY DEF Entry
<1> QED
    BY <1>1 DEF Entry

\* What is good for e is good for what e draws on.
LEMMA DrawsKeeps ==
    ASSUME NEW e, NEW f, NEW S, Draws(e, f), FetchIn(e, S)
    PROVE  FetchIn(f, S) /\ (DataIn(e, S) => DataIn(f, S))
<1>1. FetchIn(f, S)
    BY DEF Draws, FetchIn
<1>2. ASSUME DataIn(e, S), Loaded(f), ~f.invalid
      PROVE  f.data \in S
    <2>1. CASE f.data = e.data /\ (e.invalid => f.invalid)
        BY <1>2, <2>1 DEF DataIn, Loaded
    <2>2. CASE e.fetch = Read(f.data)
        BY <2>2, ReadIsNoMark DEF FetchIn
    <2> QED
        BY <2>1, <2>2 DEF Draws
<1> QED
    BY <1>1, <1>2 DEF DataIn
-----------------------------------------------------------------------------
(* Requests.                                                               *)

LEMMA SequenceShape ==
    ASSUME NEW s, IsSequence(s)
    PROVE  Len(s) \in Nat /\ DOMAIN s = 1 .. Len(s)
BY DEF IsSequence

LEMMA FunctionIsSequence ==
    ASSUME NEW n \in Nat, NEW f, DOMAIN f = 1 .. n, f = [i \in 1 .. n |-> f[i]]
    PROVE  IsSequence(f) /\ Len(f) = n
<1> DEFINE S == {f[i] : i \in DOMAIN f}
<1>1. f \in [1 .. n -> S]
    OBVIOUS
<1> HIDE DEF S
<1>2. f \in Seq(S) /\ Len(f) = n
    BY <1>1
<1> QED
    BY <1>2 DEF IsSequence, S


LEMMA IsSequenceOver ==
    ASSUME NEW S, NEW s \in Seq(S)
    PROVE  IsSequence(s)
<1>1. s \in [1 .. Len(s) -> {s[i] : i \in DOMAIN s}]
    OBVIOUS
<1> QED
    BY <1>1 DEF IsSequence

LEMMA AppendShape ==
    ASSUME NEW s, NEW e, IsSequence(s)
    PROVE  /\ IsSequence(Append(s, e)) /\ Len(Append(s, e)) = Len(s) + 1
           /\ DOMAIN Append(s, e) = 1 .. Len(s) + 1 /\ Append(s, e)[Len(s) + 1] = e
           /\ \A i \in DOMAIN s : i \in DOMAIN Append(s, e) /\ Append(s, e)[i] = s[i]
<1> DEFINE S == {s[i] : i \in DOMAIN s} \cup {e}
           t == Append(s, e)
<1>1. s \in Seq(S) /\ e \in S
    BY DEF IsSequence
<1> HIDE DEF S
<1>2. t \in Seq(S) /\ Len(t) = Len(s) + 1 /\ Len(s) \in Nat
    BY <1>1
<1>3. \A i \in 1 .. Len(s) : t[i] = s[i]
    BY <1>1
<1>4. t[Len(s) + 1] = e
    BY <1>1
<1>5. DOMAIN t = 1 .. Len(s) + 1 /\ DOMAIN s = 1 .. Len(s)
    BY <1>1, <1>2
<1> HIDE DEF t
<1>6. IsSequence(t)
    BY <1>2, IsSequenceOver
<1> QED
    BY <1>2, <1>3, <1>4, <1>5, <1>6 DEF t

\* A request that is not answered here: its asking stays, it may stop waiting
\* for fetches, and it may lose who watched it.
Goes(r, t) ==
    /\ DOMAIN t = DOMAIN r
    /\ t.kind = r.kind /\ t.device = r.device /\ t.input = r.input /\ t.undoes = r.undoes
    /\ t.snapshot = r.snapshot /\ t.stored = r.stored /\ t.ok = r.ok
    /\ t.watched => r.watched
    /\ t.phase = r.phase \/ (r.phase \in Waking /\ t.phase \in Waking \cup {"done"})
    /\ t.waits \subseteq r.waits \cup Query
Later(s, t) ==
    IsSequence(t) /\ Len(t) = Len(s) /\ DOMAIN t = DOMAIN s /\ \A i \in DOMAIN s : Goes(s[i], t[i])

LEMMA GoesOn ==
    ASSUME NEW r, NEW t, NEW u, Goes(r, t), Goes(t, u)
    PROVE  Goes(r, u)
BY DEF Goes, Waking

LEMMA LaterOn ==
    ASSUME NEW r, NEW s, NEW t, Later(r, s), Later(s, t)
    PROVE  Later(r, t)
BY GoesOn DEF Later

LEMMA GoesKeepsOK ==
    ASSUME NEW r, NEW t, Goes(r, t), RequestOK(r)
    PROVE  RequestOK(t)
BY DEF Goes, RequestOK, Waiting, Waking

\* Requests that have their fields, and a cache of all queries.
Fields(s) == /\ IsSequence(s.request) /\ DOMAIN s.cache = Query
             /\ \A i \in DOMAIN s.request : DOMAIN s.request[i] = RequestFields

LEMMA FieldsGo ==
    ASSUME NEW r, DOMAIN r = RequestFields, NEW waits \in SUBSET Query, NEW phase,
           phase = r.phase \/ (r.phase \in Waking /\ phase \in Waking \cup {"done"})
    PROVE  Goes(r, [r EXCEPT !.phase = phase, !.waits = waits])
BY DEF Goes, RequestFields

\* NoLonger(keys) only takes away what is waited for.
LEMMA NoLongerGoes ==
    ASSUME NEW keys, IsSequence(request), \A i \in DOMAIN request : DOMAIN request[i] = RequestFields
    PROVE  Later(request, NoLonger(keys)) /\ \A i \in DOMAIN request : DOMAIN NoLonger(keys)[i] = RequestFields
<1>1. IsSequence(NoLonger(keys)) /\ Len(NoLonger(keys)) = Len(request) /\ DOMAIN NoLonger(keys) = DOMAIN request
    BY SequenceShape, FunctionIsSequence DEF NoLonger
<1>2. ASSUME NEW i \in DOMAIN request
      PROVE  Goes(request[i], NoLonger(keys)[i]) /\ DOMAIN NoLonger(keys)[i] = RequestFields
    <2>1. NoLonger(keys)[i] = [request[i] EXCEPT !.waits = @ \ keys]
        BY <1>2 DEF NoLonger
    <2>2. DOMAIN request[i] = RequestFields
        BY <1>2
    <2> QED
        BY <2>1, <2>2 DEF Goes, RequestFields
<1> QED
    BY <1>1, <1>2 DEF Later


\* Continue keeps the requests and the cache, but for the end of waiting, a
\* second invalidation of the detail, and Undo for saves that succeeded.
LEMMA ContinueEffect ==
    ASSUME NEW s, Fields(s), \A i \in DOMAIN s.request : s.request[i].waits \subseteq Query
    PROVE  LET t == Continue(s) IN
           /\ Later(s.request, t.request) /\ Fields(t) /\ DOMAIN t = {"cache", "request", "undo"}
           /\ \A q \in Query : t.cache[q] = s.cache[q]
                               \/ (q = "detail" /\ t.cache[q] = Invalidate(s.cache[q], q \in Active))
           /\ \A d \in t.undo : d \in s.undo \/ \E i \in DOMAIN s.request :
                 s.request[i].kind \in Saves /\ s.request[i].ok /\ ~s.request[i].undoes /\ d = s.request[i].device
<1> DEFINE second == {i \in DOMAIN s.request : LET r == s.request[i] IN
                         r.phase = "settle" /\ r.waits = {} /\ r.kind \in Saves}
           c == IF second = {} THEN s.cache ELSE Invalidated(s.cache, {"detail"})
           Next2(i) == IF i \in second
                       THEN [s.request[i] EXCEPT !.phase = "detail", !.waits = Unfinished(c, {"detail"})]
                       ELSE s.request[i]
           over == {i \in DOMAIN s.request : Next2(i).phase \in {"settle", "detail"} /\ Next2(i).waits = {}}
           requests == [i \in DOMAIN s.request |->
                           IF i \in over THEN [Next2(i) EXCEPT !.phase = "done"] ELSE Next2(i)]
           undos == s.undo \cup {s.request[i].device : i \in {j \in over :
                       s.request[j].kind \in Saves /\ s.request[j].ok /\ ~s.request[j].undoes}}
<1>1. Continue(s) = [cache |-> c, request |-> requests, undo |-> undos]
    BY DEF Continue
<1>2. /\ Continue(s).cache = c /\ Continue(s).request = requests /\ Continue(s).undo = undos
      /\ DOMAIN Continue(s) = {"cache", "request", "undo"}
    <2> HIDE DEF c, requests, undos
    <2> QED
        BY <1>1
<1>3. /\ DOMAIN c = Query
      /\ \A q \in Query : c[q] = s.cache[q] \/ (q = "detail" /\ c[q] = Invalidate(s.cache[q], q \in Active))
    BY DEF Fields, Invalidated
<1>4. Unfinished(c, {"detail"}) \subseteq Query
    BY DEF Unfinished, Query, DeviceKeys
<1> HIDE DEF c
<1>5. ASSUME NEW i \in DOMAIN s.request
      PROVE  /\ Goes(s.request[i], Next2(i)) /\ DOMAIN Next2(i) = RequestFields
             /\ i \in over => Next2(i).phase \in Waking /\ Next2(i).waits \subseteq Query
    <2>1. DOMAIN s.request[i] = RequestFields /\ s.request[i].waits \subseteq Query
        BY <1>5 DEF Fields
    <2>2. CASE i \in second
        <3>1. Next2(i) = [s.request[i] EXCEPT !.phase = "detail", !.waits = Unfinished(c, {"detail"})]
            BY <2>2
        <3>2. s.request[i].phase \in Waking /\ "detail" \in Waking
            BY <2>2 DEF Waking
        <3> DEFINE r == s.request[i]
                   w == Unfinished(c, {"detail"})
        <3> HIDE DEF r, w
        <3>3. Goes(r, [r EXCEPT !.phase = "detail", !.waits = w])
            <4>1. DOMAIN r = RequestFields /\ w \in SUBSET Query /\ r.phase \in Waking
                BY <1>4, <2>1, <3>2 DEF r, w
            <4> QED
                BY <3>2, <4>1, FieldsGo
        <3>4. Goes(s.request[i], Next2(i))
            BY <3>1, <3>3 DEF r, w
        <3>5. DOMAIN Next2(i) = RequestFields
            BY <2>1, <3>1
        <3>6. Next2(i).phase \in Waking /\ Next2(i).waits \subseteq Query
            BY <1>4, <2>1, <3>1, <3>2 DEF RequestFields
        <3> QED
            BY <3>4, <3>5, <3>6
    <2>3. CASE i \notin second
        <3>1. Next2(i) = s.request[i]
            BY <2>3
        <3> QED
            BY <2>1, <3>1 DEF Goes, Waking
    <2> QED
        BY <2>2, <2>3
<1>6. ASSUME NEW i \in DOMAIN s.request
      PROVE  Goes(s.request[i], requests[i]) /\ DOMAIN requests[i] = RequestFields
    <2>1. Goes(s.request[i], Next2(i)) /\ DOMAIN Next2(i) = RequestFields
        BY <1>5
    <2> HIDE DEF Next2
    <2>2. CASE i \in over
        <3>1. requests[i] = [Next2(i) EXCEPT !.phase = "done"]
            BY <2>2
        <3>2. Next2(i).phase \in Waking
            BY <1>5, <2>2
        <3>3. Goes(Next2(i), requests[i])
            BY <2>1, <3>1, <3>2 DEF Goes, RequestFields
        <3> QED
            BY <2>1, <3>1, <3>3, GoesOn
    <2>3. CASE i \notin over
        BY <2>1, <2>3
    <2> QED
        BY <2>2, <2>3
<1>7. IsSequence(requests) /\ Len(requests) = Len(s.request) /\ DOMAIN requests = DOMAIN s.request
    <2> HIDE DEF over, Next2
    <2>1. Len(s.request) \in Nat /\ DOMAIN s.request = 1 .. Len(s.request)
        BY SequenceShape DEF Fields
    <2>2. DOMAIN requests = 1 .. Len(s.request) /\ requests = [i \in 1 .. Len(s.request) |-> requests[i]]
        BY <2>1
    <2> QED
        BY <2>1, <2>2, FunctionIsSequence
<1>8. \A d \in undos : d \in s.undo \/ \E i \in DOMAIN s.request :
         s.request[i].kind \in Saves /\ s.request[i].ok /\ ~s.request[i].undoes /\ d = s.request[i].device
    OBVIOUS
<1> HIDE DEF requests, undos
<1>9. Later(s.request, Continue(s).request)
    BY <1>2, <1>6, <1>7 DEF Later
<1>10. Fields(Continue(s))
    BY <1>2, <1>3, <1>6, <1>7 DEF Fields
<1> QED
    BY <1>2, <1>3, <1>8, <1>9, <1>10
-----------------------------------------------------------------------------
(* What the steps do, in terms of entries and requests.                    *)

LEMMA TypedParts ==
    ASSUME Typed
    PROVE  /\ IsSequence(request) /\ Fields(Client) /\ DOMAIN cache = Query
           /\ \A i \in DOMAIN request :
                 RequestOK(request[i]) /\ DOMAIN request[i] = RequestFields /\ request[i].waits \subseteq Query
           /\ \A q \in Query : cache[q] \in Entry(Value(q)) /\ None \notin Value(q)
BY NoneIsNoValue DEF Typed, TypeOK, RequestOK, Fields, Client

CacheTyped == DOMAIN cache' = Query /\ \A q \in Query : cache'[q] \in Entry(Value(q))
\* Undo is offered for a save that succeeded and is no Undo itself.
UndoEarned ==
    \A d \in undo' : d \in undo \/ \E i \in DOMAIN request' :
        request'[i].kind \in Saves /\ request'[i].ok /\ ~request'[i].undoes /\ d = request'[i].device
\* Who still watches a request has not left the page, and only the drawer
\* fetches the detail.
OnScreen ==
    /\ \A i \in DOMAIN request : request'[i].watched /\ request'[i].phase # "done" =>
          view'.page = view.page /\ (view' = view \/ Watching(view'))
    /\ cache'["detail"].fetch # Idle => cache["detail"].fetch # Idle \/ view'.page = "devices"

\* Fetches are started, answered or fail, and somebody may look elsewhere.
Quiet ==
    /\ server' = server /\ CacheTyped /\ \A q \in Query : Draws(cache[q], cache'[q])
    /\ Later(request, request') /\ UndoEarned /\ OnScreen

LEMMA ActiveDetail ==
    ASSUME Typed
    PROVE  "detail" \in Active <=> view.page = "devices" /\ view.tab # None
<1>1. view.list \in Lists /\ view.page \in {"devices", "assignments", "global"}
    BY DEF Typed, TypeOK
<1>2. view.list # "detail"
    BY <1>1 DEF Lists
<1>3. CASE view.page = "devices"
    <2>1. Active = {view.list} \cup (IF view.tab # None THEN {"detail"} ELSE {})
                      \cup (IF view.tab = "controls" THEN {"caps"} ELSE {})
        BY <1>3 DEF Active
    <2> QED
        BY <1>2, <1>3, <2>1
<1>4. CASE view.page = "assignments"
    BY <1>4 DEF Active
<1>5. CASE view.page = "global"
    BY <1>5 DEF Active
<1> QED
    BY <1>1, <1>3, <1>4, <1>5

\* A request that was not answered before and is answered now.
Settled_(s, i) ==
    /\ IsSequence(request') /\ Len(request') = Len(s.request) /\ DOMAIN request' = DOMAIN s.request
    /\ \A j \in DOMAIN s.request : j # i => Goes(s.request[j], request'[j])
    /\ LET r == s.request[i]
           t == request'[i] IN
       /\ DOMAIN t = RequestFields /\ t.waits \subseteq Query /\ t.phase \in Waking \cup {"done"}
       /\ t.kind = r.kind /\ t.device = r.device /\ t.input = r.input /\ t.undoes = r.undoes
       /\ t.snapshot = r.snapshot /\ t.stored = r.stored /\ t.ok = r.ok /\ (t.watched => r.watched)
\* A query is out of date, and fetched again if it is used.
Marked(q, e, f) ==
    f.invalid /\ (q \in Active /\ Loaded(e) => f.fetch = Sent) /\ (q \notin Active => f.fetch = e.fetch)

LEMMA InvalidatedEffect ==
    ASSUME NEW c, DOMAIN c = Query, \A q \in Query : c[q] \in Entry(Value(q)), NEW keys
    PROVE  LET d == Invalidated(c, keys) IN
           /\ DOMAIN d = Query
           /\ \A q \in Query : d[q] \in Entry(Value(q)) /\ Draws(c[q], d[q]) /\ d[q].data = c[q].data
                               /\ (d[q].fetch = c[q].fetch \/ (q \in Active /\ d[q].fetch = Sent))
                               /\ (q \in keys => Marked(q, c[q], d[q]))
<1>1. DOMAIN Invalidated(c, keys) = Query
    BY DEF Invalidated
<1>2. ASSUME NEW q \in Query
      PROVE  LET d == Invalidated(c, keys) IN
             /\ d[q] \in Entry(Value(q)) /\ Draws(c[q], d[q]) /\ d[q].data = c[q].data
             /\ (d[q].fetch = c[q].fetch \/ (q \in Active /\ d[q].fetch = Sent))
             /\ (q \in keys => Marked(q, c[q], d[q]))
    <2> DEFINE d == Invalidated(c, keys)[q]
               a == q \in Active
    <2>1. d = IF q \in keys THEN Invalidate(c[q], a) ELSE c[q]
        BY DEF Invalidated
    <2>2. a \in BOOLEAN
        OBVIOUS
    <2> HIDE DEF d, a
    <2>3. CASE q \notin keys
        BY <2>1, <2>3, DrawsSelf DEF d, a
    <2>4. CASE q \in keys
        <3>1. /\ d \in Entry(Value(q)) /\ Draws(c[q], d) /\ d.invalid /\ d.data = c[q].data
              /\ d.fetch = c[q].fetch \/ (a /\ d.fetch = Sent)
              /\ a /\ Loaded(c[q]) => d.fetch = Sent
            BY <2>1, <2>2, <2>4, InvalidateEffect
        <3> QED
            BY <3>1 DEF Marked, d, a
    <2> QED
        BY <2>3, <2>4
<1> QED
    BY <1>1, <1>2

\* Continue, on entries.
LEMMA ContinueDraws ==
    ASSUME NEW s, Fields(s), \A i \in DOMAIN s.request : s.request[i].waits \subseteq Query,
           \A q \in Query : s.cache[q] \in Entry(Value(q))
    PROVE  LET t == Continue(s) IN
           \A q \in Query : t.cache[q] \in Entry(Value(q)) /\ Draws(s.cache[q], t.cache[q])
                            /\ t.cache[q].data = s.cache[q].data
                            /\ (t.cache[q].fetch = s.cache[q].fetch \/ (q \in Active /\ t.cache[q].fetch = Sent))
                            /\ (t.cache[q] = s.cache[q] \/ (q = "detail" /\ Marked(q, s.cache[q], t.cache[q])))
<1> SUFFICES ASSUME NEW q \in Query
             PROVE  LET e == s.cache[q]
                        f == Continue(s).cache[q] IN
                    /\ f \in Entry(Value(q)) /\ Draws(e, f) /\ f.data = e.data
                    /\ (f.fetch = e.fetch \/ (q \in Active /\ f.fetch = Sent))
                    /\ (f = e \/ (q = "detail" /\ Marked(q, e, f)))
    OBVIOUS
<1> DEFINE e == s.cache[q]
           f == Continue(s).cache[q]
           a == q \in Active
<1>1. f = e \/ (q = "detail" /\ f = Invalidate(e, a))
    BY ContinueEffect
<1>2. e \in Entry(Value(q)) /\ a \in BOOLEAN
    OBVIOUS
<1> HIDE DEF e, f, a
<1>3. CASE f = e
    BY <1>2, <1>3, DrawsSelf DEF e, f, a
<1>4. CASE q = "detail" /\ f = Invalidate(e, a)
    <2>1. /\ f \in Entry(Value(q)) /\ Draws(e, f) /\ f.invalid /\ f.data = e.data
          /\ f.fetch = e.fetch \/ (a /\ f.fetch = Sent)
          /\ a /\ Loaded(e) => f.fetch = Sent
        BY <1>2, <1>4, InvalidateEffect
    <2> QED
        BY <1>4, <2>1 DEF Marked, e, f, a
<1> QED
    BY <1>1, <1>3, <1>4

LEMMA BecomesParts ==
    ASSUME NEW t, Becomes(t)
    PROVE  cache' = t.cache /\ request' = t.request /\ undo' = t.undo
BY DEF Becomes

LEMMA SettlingFields ==
    ASSUME NEW r, DOMAIN r = RequestFields, NEW w, w \subseteq Query
    PROVE  LET z == [r EXCEPT !.phase = "settle", !.waits = w] IN
           /\ DOMAIN z = RequestFields /\ z.waits \subseteq Query /\ z.phase = "settle"
           /\ z.kind = r.kind /\ z.device = r.device /\ z.input = r.input /\ z.undoes = r.undoes
           /\ z.snapshot = r.snapshot /\ z.stored = r.stored /\ z.ok = r.ok /\ z.watched = r.watched
BY DEF RequestFields

LEMMA SettleEffect ==
    ASSUME NEW s, DOMAIN s = {"cache", "request", "undo"}, Fields(s),
           \A j \in DOMAIN s.request : s.request[j].waits \subseteq Query,
           \A q \in Query : s.cache[q] \in Entry(Value(q)),
           NEW i \in DOMAIN s.request, Settle(s, i)
    PROVE  /\ Settled_(s, i) /\ CacheTyped
           /\ \A q \in Query : Draws(s.cache[q], cache'[q]) /\ cache'[q].data = s.cache[q].data
                               /\ (cache'[q].fetch = s.cache[q].fetch \/ (q \in Active /\ cache'[q].fetch = Sent))
                               /\ (q \in Refreshed(s.request[i]) => Marked(q, s.cache[q], cache'[q]))
           /\ \A d \in undo' : d \in s.undo \/ \E j \in DOMAIN s.request :
                 s.request[j].kind \in Saves /\ s.request[j].ok /\ ~s.request[j].undoes /\ d = s.request[j].device
<1> DEFINE keys == Refreshed(s.request[i])
           c == Invalidated(s.cache, keys)
           w == Unfinished(c, keys)
           t == [s EXCEPT !.cache = c, !.request[i].phase = "settle", !.request[i].waits = w]
           u == Continue(t)
<1>1. cache' = u.cache /\ request' = u.request /\ undo' = u.undo
    <2>1. Becomes(u)
        BY DEF Settle
    <2> HIDE DEF u
    <2> QED
        BY <2>1, BecomesParts
<1>2. keys \subseteq Query /\ w \subseteq Query
    BY DEF Refreshed, Unfinished, Query, DeviceKeys
<1>3. /\ DOMAIN c = Query
      /\ \A q \in Query : c[q] \in Entry(Value(q)) /\ Draws(s.cache[q], c[q]) /\ c[q].data = s.cache[q].data
                          /\ (c[q].fetch = s.cache[q].fetch \/ (q \in Active /\ c[q].fetch = Sent))
                          /\ (q \in keys => Marked(q, s.cache[q], c[q]))
    BY InvalidatedEffect DEF Fields
<1> HIDE DEF keys, c, w
<1>4. /\ t.cache = c /\ t.undo = s.undo /\ DOMAIN t.request = DOMAIN s.request
      /\ \A j \in DOMAIN s.request : j # i => t.request[j] = s.request[j]
      /\ t.request[i] = [s.request[i] EXCEPT !.phase = "settle", !.waits = w]
    OBVIOUS
<1>5. IsSequence(t.request) /\ Len(t.request) = Len(s.request)
    <2>1. t.request = [j \in DOMAIN s.request |-> t.request[j]]
        OBVIOUS
    <2>2. DOMAIN s.request = 1 .. Len(s.request) /\ Len(s.request) \in Nat
        BY SequenceShape DEF Fields
    <2> HIDE DEF t
    <2> QED
        BY <1>4, <2>1, <2>2, FunctionIsSequence
<1> HIDE DEF t
<1>6. DOMAIN s.request[i] = RequestFields
    BY DEF Fields
<1>7. LET r == s.request[i]
          z == t.request[i] IN
      /\ DOMAIN z = RequestFields /\ z.waits \subseteq Query /\ z.phase = "settle"
      /\ z.kind = r.kind /\ z.device = r.device /\ z.input = r.input /\ z.undoes = r.undoes
      /\ z.snapshot = r.snapshot /\ z.stored = r.stored /\ z.ok = r.ok /\ z.watched = r.watched
    <2> DEFINE r == s.request[i]
               z == [r EXCEPT !.phase = "settle", !.waits = w]
    <2>1. DOMAIN r = RequestFields
        BY <1>6
    <2>2. t.request[i] = z
        BY <1>4
    <2> HIDE DEF r
    <2>3. /\ DOMAIN z = RequestFields /\ z.waits \subseteq Query /\ z.phase = "settle"
          /\ z.kind = r.kind /\ z.device = r.device /\ z.input = r.input /\ z.undoes = r.undoes
          /\ z.snapshot = r.snapshot /\ z.stored = r.stored /\ z.ok = r.ok /\ z.watched = r.watched
        BY <1>2, <2>1, SettlingFields
    <2> HIDE DEF z
    <2> QED
        BY <2>2, <2>3 DEF r
<1>8. Fields(t) /\ \A j \in DOMAIN t.request : t.request[j].waits \subseteq Query
    <2>1. ASSUME NEW j \in DOMAIN t.request
          PROVE  DOMAIN t.request[j] = RequestFields /\ t.request[j].waits \subseteq Query
        <3>1. CASE j = i
            BY <1>7, <3>1
        <3>2. CASE j # i
            <4>1. j \in DOMAIN s.request /\ t.request[j] = s.request[j]
                BY <1>4, <3>2
            <4> QED
                BY <4>1 DEF Fields
        <3> QED
            BY <3>1, <3>2
    <2> QED
        BY <1>3, <1>4, <1>5, <2>1 DEF Fields
<1>9. Later(t.request, u.request) /\ Fields(u)
    BY <1>8, ContinueEffect
<1>10. \A d \in u.undo : d \in t.undo \/ \E j \in DOMAIN t.request :
          t.request[j].kind \in Saves /\ t.request[j].ok /\ ~t.request[j].undoes /\ d = t.request[j].device
    BY <1>8, ContinueEffect
<1>11. \A q \in Query : u.cache[q] \in Entry(Value(q)) /\ Draws(c[q], u.cache[q])
                        /\ u.cache[q].data = c[q].data
                        /\ (u.cache[q].fetch = c[q].fetch \/ (q \in Active /\ u.cache[q].fetch = Sent))
                        /\ (u.cache[q] = c[q] \/ (q = "detail" /\ Marked(q, c[q], u.cache[q])))
    BY <1>3, <1>4, <1>8, ContinueDraws
<1> HIDE DEF u
<1>12. Settled_(s, i)
    <2>1. IsSequence(request') /\ Len(request') = Len(s.request) /\ DOMAIN request' = DOMAIN s.request
        BY <1>1, <1>4, <1>5, <1>9 DEF Later
    <2>2. \A j \in DOMAIN s.request : j # i => Goes(s.request[j], request'[j])
        BY <1>1, <1>4, <1>9 DEF Later
    <2>3. Goes(t.request[i], request'[i])
        BY <1>1, <1>4, <1>9 DEF Later
    <2> QED
        BY <1>7, <2>1, <2>2, <2>3 DEF Settled_, Goes, Waking
<1>13. CacheTyped
    BY <1>1, <1>9, <1>11 DEF CacheTyped, Fields
<1>14. ASSUME NEW q \in Query
       PROVE  /\ Draws(s.cache[q], cache'[q]) /\ cache'[q].data = s.cache[q].data
              /\ (cache'[q].fetch = s.cache[q].fetch \/ (q \in Active /\ cache'[q].fetch = Sent))
              /\ (q \in keys => Marked(q, s.cache[q], cache'[q]))
    <2>1. Draws(s.cache[q], c[q]) /\ Draws(c[q], cache'[q])
        BY <1>1, <1>3, <1>11
    <2>2. Draws(s.cache[q], cache'[q])
        BY <2>1, DrawsOn
    <2>3. cache'[q].data = s.cache[q].data
        BY <1>1, <1>3, <1>11
    <2>4. cache'[q].fetch = s.cache[q].fetch \/ (q \in Active /\ cache'[q].fetch = Sent)
        BY <1>1, <1>3, <1>11
    <2>5. ASSUME q \in keys
          PROVE  Marked(q, s.cache[q], cache'[q])
        <3>1. Marked(q, s.cache[q], c[q]) /\ c[q].data = s.cache[q].data
            BY <1>3, <2>5
        <3>2. CASE cache'[q] = c[q]
            BY <3>1, <3>2
        <3>3. CASE Marked(q, c[q], cache'[q])
            BY <3>1, <3>3 DEF Marked, Loaded
        <3> QED
            BY <1>1, <1>11, <3>2, <3>3
    <2> QED
        BY <2>2, <2>3, <2>4, <2>5
<1>15. \A d \in undo' : d \in s.undo \/ \E j \in DOMAIN s.request :
          s.request[j].kind \in Saves /\ s.request[j].ok /\ ~s.request[j].undoes /\ d = s.request[j].device
    <2> SUFFICES ASSUME NEW d \in undo', d \notin s.undo
                 PROVE  \E j \in DOMAIN s.request :
                           s.request[j].kind \in Saves /\ s.request[j].ok /\ ~s.request[j].undoes
                           /\ d = s.request[j].device
        OBVIOUS
    <2>1. PICK j \in DOMAIN t.request :
              t.request[j].kind \in Saves /\ t.request[j].ok /\ ~t.request[j].undoes /\ d = t.request[j].device
        BY <1>1, <1>4, <1>10
    <2>2. CASE j = i
        BY <1>7, <2>1, <2>2
    <2>3. CASE j # i
        BY <1>4, <2>1, <2>3
    <2> QED
        BY <2>2, <2>3
<1> QED
    BY <1>12, <1>13, <1>14, <1>15 DEF keys

\* A fetch is over: the answered or failed entry takes its place.
LEMMA FetchOverEffect ==
    ASSUME Typed, NEW q \in Query, NEW e \in Entry(Value(q)), Draws(cache[q], e), e.fetch = Idle,
           FetchOver(q, e), server' = server, view' = view
    PROVE  Quiet /\ Len(request') = Len(request)
<1> DEFINE s == [Client EXCEPT !.cache[q] = e, !.request = NoLonger({q})]
           t == Continue(s)
<1>1. cache' = t.cache /\ request' = t.request /\ undo' = t.undo
    <2>1. Becomes(t)
        BY DEF FetchOver
    <2> HIDE DEF t
    <2> QED
        BY <2>1, BecomesParts
<1>2. s.cache = [cache EXCEPT ![q] = e] /\ s.request = NoLonger({q}) /\ s.undo = undo
    BY DEF Client
<1>3. Later(request, s.request) /\ \A i \in DOMAIN request : DOMAIN s.request[i] = RequestFields
    BY <1>2, TypedParts, NoLongerGoes
<1> HIDE DEF s
<1>4. DOMAIN s.cache = Query /\ \A p \in Query : s.cache[p] \in Entry(Value(p)) /\ Draws(cache[p], s.cache[p])
    BY <1>2, TypedParts, DrawsSelf
<1>5. Fields(s)
    BY <1>3, <1>4 DEF Fields, Later
<1>6. \A i \in DOMAIN s.request : s.request[i].waits \subseteq Query
    BY <1>3, TypedParts DEF Later, Goes
<1>7. Later(s.request, t.request) /\ Fields(t)
    BY <1>5, <1>6, ContinueEffect
<1>8. \A p \in Query : t.cache[p] \in Entry(Value(p)) /\ Draws(s.cache[p], t.cache[p])
                       /\ (t.cache[p].fetch = s.cache[p].fetch \/ (p \in Active /\ t.cache[p].fetch = Sent))
    BY <1>4, <1>5, <1>6, ContinueDraws
<1>9. \A d \in t.undo : d \in undo \/ \E i \in DOMAIN s.request :
          s.request[i].kind \in Saves /\ s.request[i].ok /\ ~s.request[i].undoes /\ d = s.request[i].device
    BY <1>2, <1>5, <1>6, ContinueEffect
<1> HIDE DEF t
<1>10. CacheTyped
    BY <1>1, <1>7, <1>8 DEF CacheTyped, Fields
<1>11. \A p \in Query : Draws(cache[p], cache'[p])
    BY <1>1, <1>4, <1>8, DrawsOn
<1>12. Later(request, request')
    BY <1>1, <1>3, <1>7, LaterOn
<1>13. UndoEarned
    BY <1>1, <1>7, <1>9 DEF UndoEarned, Later, Goes
<1>14. OnScreen
    <2>1. cache'["detail"].fetch # Idle => cache["detail"].fetch # Idle \/ view'.page = "devices"
        <3>1. "detail" \in Query
            BY DEF Query, DeviceKeys
        <3>2. s.cache["detail"].fetch \in {cache["detail"].fetch, Idle}
            BY <1>2, <3>1, TypedParts
        <3>3. "detail" \in Active => view.page = "devices"
            BY ActiveDetail
        <3> QED
            BY <1>1, <1>8, <3>1, <3>2, <3>3
    <2> QED
        BY <2>1 DEF OnScreen
<1> QED
    BY <1>10, <1>11, <1>12, <1>13, <1>14 DEF Quiet, Later

Views == [page : {"devices", "assignments", "global"}, list : Lists,
          tab : {None, "form", "controls"}, row : 0..MaxOps]
\* The view and the bounds after a step.
Bounded == view' \in Views /\ budget' \in Budget /\ Len(request') + budget'.ops <= MaxOps

LEMMA SpendEffect ==
    ASSUME Typed, NEW what \in {"ops", "faults", "moves", "outside"}, Spend(what)
    PROVE  budget' \in Budget /\ budget'.ops = budget.ops - (IF what = "ops" THEN 1 ELSE 0)
<1>1. budget \in Budget /\ budget[what] > 0 /\ budget' = [budget EXCEPT ![what] = budget[what] - 1]
    BY DEF Typed, Spend
<1>2. CASE what = "ops"
    BY <1>1, <1>2 DEF Budget
<1>3. CASE what = "faults"
    BY <1>1, <1>3 DEF Budget
<1>4. CASE what = "moves"
    BY <1>1, <1>4 DEF Budget
<1>5. CASE what = "outside"
    BY <1>1, <1>5 DEF Budget
<1> QED
    BY <1>2, <1>3, <1>4, <1>5

LEMMA SpendBounded ==
    ASSUME Typed, NEW what \in {"faults", "moves", "outside"}, Spend(what),
           Len(request') = Len(request), view' \in Views
    PROVE  Bounded
<1>1. budget' \in Budget /\ budget'.ops = budget.ops - 0
    BY SpendEffect
<1>2. Len(request) \in Nat /\ budget.ops \in Nat /\ Len(request) + budget.ops <= MaxOps
    BY SequenceShape DEF Typed, Budget
<1> QED
    BY <1>1, <1>2 DEF Bounded

LEMMA ViewTyped == ASSUME Typed PROVE view \in Views
BY DEF Typed, TypeOK, Views

LEMMA SameBounded ==
    ASSUME Typed, budget' = budget, view' = view, Len(request') = Len(request)
    PROVE  Bounded
BY ViewTyped DEF Typed, Bounded

\* The requests after a step that moves the user elsewhere.
LEMMA MoveQuiet ==
    ASSUME Typed, NEW step, NEW v \in Views, Move(step, v)
    PROVE  Quiet /\ Bounded
<1>1. /\ Spend("moves") /\ view' = v /\ cache' = Mounted /\ server' = server /\ undo' = undo
      /\ request' = [i \in DOMAIN request |->
                        IF request[i].phase = "done" THEN request[i]
                        ELSE [request[i] EXCEPT !.watched = @ /\ v.page = view.page /\ Watching(v)]]
    BY DEF Move
<1>2. /\ IsSequence(request') /\ Len(request') = Len(request) /\ DOMAIN request' = DOMAIN request
    <2>1. DOMAIN request = 1 .. Len(request) /\ Len(request) \in Nat
        BY TypedParts, SequenceShape
    <2>2. request' = [i \in 1 .. Len(request) |-> request'[i]] /\ DOMAIN request' = 1 .. Len(request)
        BY <1>1, <2>1
    <2> QED
        BY <2>1, <2>2, FunctionIsSequence
<1>3. ASSUME NEW i \in DOMAIN request
      PROVE  /\ Goes(request[i], request'[i])
             /\ request'[i].watched /\ request'[i].phase # "done" => v.page = view.page /\ Watching(v)
    <2>1. DOMAIN request[i] = RequestFields
        BY TypedParts
    <2>2. CASE request[i].phase = "done"
        BY <1>1, <2>2 DEF Goes
    <2>3. CASE request[i].phase # "done"
        <3> DEFINE b == request[i].watched /\ v.page = view.page /\ Watching(v)
        <3>1. request'[i] = [request[i] EXCEPT !.watched = b]
            BY <1>1, <2>3
        <3>2. request'[i].watched = b
            <4> HIDE DEF b
            <4> QED
                BY <2>1, <3>1 DEF RequestFields
        <3>3. b => request[i].watched /\ v.page = view.page /\ Watching(v)
            OBVIOUS
        <3> HIDE DEF b
        <3> QED
            BY <2>1, <3>1, <3>2, <3>3 DEF Goes, RequestFields
    <2> QED
        BY <2>2, <2>3
<1>4. CacheTyped /\ \A q \in Query : Draws(cache[q], cache'[q])
    <2>1. DOMAIN cache' = Query
        BY <1>1 DEF Mounted
    <2>2. ASSUME NEW q \in Query
          PROVE  cache'[q] \in Entry(Value(q)) /\ Draws(cache[q], cache'[q])
        <3>1. cache'[q] = Start(cache[q]) \/ cache'[q] = cache[q]
            BY <1>1 DEF Mounted
        <3> QED
            BY <3>1, TypedParts, BeginDraws, DrawsSelf
    <2> QED
        BY <2>1, <2>2 DEF CacheTyped
<1>5. cache'["detail"].fetch # Idle => cache["detail"].fetch # Idle \/ view'.page = "devices"
    <2>1. "detail" \in Query
        BY DEF Query, DeviceKeys
    <2>2. "detail" \in Active' => view'.page = "devices"
        <3>1. view'.page \in {"devices", "assignments", "global"}
            BY <1>1 DEF Views
        <3>2. CASE view'.page = "assignments"
            BY <3>2 DEF Active
        <3>3. CASE view'.page = "global"
            BY <3>3 DEF Active
        <3> QED
            BY <3>1, <3>2, <3>3
    <2>3. "detail" \notin Active' => cache'["detail"] = cache["detail"]
        BY <1>1, <2>1 DEF Mounted
    <2> QED
        BY <2>2, <2>3
<1>6. OnScreen
    BY <1>1, <1>3, <1>5 DEF OnScreen
<1>7. Later(request, request') /\ UndoEarned
    BY <1>1, <1>2, <1>3 DEF Later, UndoEarned
<1>8. Bounded
    BY <1>1, <1>2, SpendBounded
<1> QED
    BY <1>1, <1>4, <1>6, <1>7, <1>8 DEF Quiet

\* The entry of one query is fetched again, and nothing else changes.
LEMMA OneEntryQuiet ==
    ASSUME Typed, NEW q \in Query, NEW e \in Entry(Value(q)), Draws(cache[q], e),
           cache' = [cache EXCEPT ![q] = e], q = "detail" => view.page = "devices",
           server' = server, request' = request, undo' = undo, view' = view
    PROVE  Quiet
<1>1. CacheTyped /\ \A p \in Query : Draws(cache[p], cache'[p])
    BY TypedParts, DrawsSelf DEF CacheTyped
<1>2. Later(request, request')
    <2>1. \A i \in DOMAIN request : Goes(request[i], request[i])
        BY DEF Goes
    <2> QED
        BY <2>1, TypedParts DEF Later
<1>3. OnScreen
    BY TypedParts DEF OnScreen, Query, DeviceKeys
<1> QED
    BY <1>1, <1>2, <1>3 DEF Quiet, UndoEarned

LEMMA UnchangedQuiet ==
    ASSUME Typed, UNCHANGED <<server, cache, request, undo, view>>
    PROVE  Quiet
<1>1. CacheTyped /\ \A p \in Query : Draws(cache[p], cache'[p])
    BY TypedParts, DrawsSelf DEF CacheTyped
<1>2. Later(request, request')
    <2>1. \A i \in DOMAIN request : Goes(request[i], request[i])
        BY DEF Goes
    <2> QED
        BY <2>1, TypedParts DEF Later
<1> QED
    BY <1>1, <1>2 DEF Quiet, UndoEarned, OnScreen

\* What the server answers is an answer to the query.
LEMMA ServeTyped ==
    ASSUME Typed, NEW q \in Query
    PROVE  Serve(q) \in Value(q) /\ Serve(q) # None
<1>1. server.device \in Device /\ server.cap \in Control /\ server.global \in Control
    BY DEF Typed, TypeOK
<1>2. Serve(q) \in Value(q)
    BY <1>1 DEF Serve, Value, fetchDevices, Lists, Query, DeviceKeys
<1> QED
    BY <1>2, NoneIsNoValue

Browse == SwitchList \/ openDevice \/ closeDevice \/ SwitchTab \/ Navigate \/ handleRefresh
Fetch(q) == Refetch(q) \/ FetchSucceeds(q) \/ FetchFails(q)

LEMMA BrowseQuiet ==
    ASSUME Typed, Browse
    PROVE  Quiet /\ Bounded
<1>0. 0 \in 0..MaxOps
    BY ScenarioAssumption
<1>1. view \in Views
    BY ViewTyped
<1>2. CASE SwitchList
    <2>1. PICK l \in Lists : Move("list", [view EXCEPT !.list = l])
        BY <1>2 DEF SwitchList
    <2>2. [view EXCEPT !.list = l] \in Views
        BY <1>1 DEF Views
    <2> QED
        BY <2>1, <2>2, MoveQuiet
<1>3. CASE openDevice
    <2>1. Move("open", [view EXCEPT !.tab = "form"])
        BY <1>3 DEF openDevice
    <2>2. [view EXCEPT !.tab = "form"] \in Views
        BY <1>1 DEF Views
    <2> QED
        BY <2>1, <2>2, MoveQuiet
<1>4. CASE closeDevice
    <2>1. Move("close", [view EXCEPT !.tab = None, !.row = 0])
        BY <1>4 DEF closeDevice
    <2>2. [view EXCEPT !.tab = None, !.row = 0] \in Views
        BY <1>0, <1>1 DEF Views
    <2> QED
        BY <2>1, <2>2, MoveQuiet
<1>5. CASE SwitchTab
    <2>1. PICK t \in {"form", "controls"} : Move("tab", [view EXCEPT !.tab = t, !.row = 0])
        BY <1>5 DEF SwitchTab
    <2>2. [view EXCEPT !.tab = t, !.row = 0] \in Views
        BY <1>0, <1>1 DEF Views
    <2> QED
        BY <2>1, <2>2, MoveQuiet
<1>6. CASE Navigate
    <2>1. PICK p \in {"devices", "assignments", "global"} :
              Move("page", [page |-> p, list |-> "live", tab |-> None, row |-> 0])
        BY <1>6 DEF Navigate
    <2>2. [page |-> p, list |-> "live", tab |-> None, row |-> 0] \in Views
        BY <1>0 DEF Views, Lists
    <2> QED
        BY <2>1, <2>2, MoveQuiet
<1>7. CASE handleRefresh
    <2> DEFINE l == view.list
    <2>1. /\ view.page = "devices" /\ Spend("moves") /\ cache' = [cache EXCEPT ![l] = Restart(cache[l])]
          /\ UNCHANGED <<server, request, undo, view>>
        BY <1>7 DEF handleRefresh
    <2>2. l \in Query
        BY <1>1 DEF Views, Query, DeviceKeys
    <2> HIDE DEF l
    <2>3. cache[l] \in Entry(Value(l))
        BY <2>2, TypedParts
    <2>4. Restart(cache[l]) \in Entry(Value(l)) /\ Draws(cache[l], Restart(cache[l]))
        BY <2>3, BeginDraws
    <2>5. Quiet
        BY <2>1, <2>2, <2>4, OneEntryQuiet
    <2> QED
        BY <1>1, <2>1, <2>5, SpendBounded
<1> QED
    BY <1>2, <1>3, <1>4, <1>5, <1>6, <1>7 DEF Browse

LEMMA FetchQuiet ==
    ASSUME Typed, NEW q \in Query, Fetch(q)
    PROVE  Quiet /\ Bounded
<1>1. cache[q] \in Entry(Value(q)) /\ None \notin Value(q)
    BY TypedParts
<1>2. CASE Refetch(q)
    <2>1. /\ q \in Active /\ cache' = [cache EXCEPT ![q] = Start(cache[q])]
          /\ UNCHANGED <<server, request, undo, view, budget>>
        BY <1>2 DEF Refetch
    <2>2. Start(cache[q]) \in Entry(Value(q)) /\ Draws(cache[q], Start(cache[q]))
        BY <1>1, BeginDraws
    <2>3. q = "detail" => view.page = "devices"
        BY <2>1, ActiveDetail
    <2>4. Quiet
        BY <2>1, <2>2, <2>3, OneEntryQuiet
    <2> QED
        BY <2>1, <2>4, SameBounded
<1>3. CASE FetchSucceeds(q)
    <2>1. /\ cache[q].fetch \notin {Idle, Sent} /\ FetchOver(q, Answered(cache[q], cache[q].fetch[2]))
          /\ UNCHANGED <<server, view, budget>>
        BY <1>3 DEF FetchSucceeds
    <2>2. PICK v \in Value(q) : cache[q].fetch = Read(v) /\ cache[q].fetch[2] = v
        BY <1>1, <2>1, EntryRead
    <2> DEFINE e == Answered(cache[q], v)
    <2>3. e \in Entry(Value(q)) /\ Draws(cache[q], e) /\ e.fetch = Idle
        BY <1>1, <2>2, AnsweredEffect
    <2>4. FetchOver(q, e)
        BY <2>1, <2>2
    <2> HIDE DEF e
    <2>5. Quiet /\ Len(request') = Len(request)
        BY <2>1, <2>3, <2>4, FetchOverEffect
    <2> QED
        BY <2>1, <2>5, SameBounded
<1>4. CASE FetchFails(q)
    <2> DEFINE e == Failed(cache[q])
    <2>1. Spend("faults") /\ FetchOver(q, e) /\ UNCHANGED <<server, view>>
        BY <1>4 DEF FetchFails
    <2>2. e \in Entry(Value(q)) /\ Draws(cache[q], e) /\ e.fetch = Idle
        BY <1>1, FailedEffect
    <2> HIDE DEF e
    <2>3. Quiet /\ Len(request') = Len(request)
        BY <2>1, <2>2, FetchOverEffect
    <2> QED
        BY <2>1, <2>3, ViewTyped, SpendBounded
<1> QED
    BY <1>2, <1>3, <1>4 DEF Fetch

\* The server computes an answer.
Reads(q) ==
    /\ CacheTyped /\ \A p \in Query \ {q} : cache'[p] = cache[p]
    /\ cache'[q].fetch = Read(Serve(q)) /\ cache'[q].data = cache[q].data
    /\ cache'[q].invalid = cache[q].invalid /\ cache'[q].back = cache[q].back /\ cache[q].fetch = Sent
    /\ UNCHANGED <<server, request, undo, view, budget>>

LEMMA ReadsEffect ==
    ASSUME Typed, NEW q \in Query, ServerReads(q)
    PROVE  Reads(q) /\ Bounded
<1> DEFINE v == Serve(q)
           e == [cache[q] EXCEPT !.fetch = Read(v)]
<1>1. cache[q].fetch = Sent /\ UNCHANGED <<server, request, undo, view, budget>>
    BY DEF ServerReads
<1>2. cache' = [cache EXCEPT ![q] = e]
    BY DEF ServerReads
<1>3. cache[q] \in Entry(Value(q)) /\ v \in Value(q)
    BY TypedParts, ServeTyped
<1>4. /\ e \in Entry(Value(q)) /\ e.fetch = Read(v) /\ e.data = cache[q].data
      /\ e.invalid = cache[q].invalid /\ e.back = cache[q].back
    <2> HIDE DEF v
    <2> QED
        BY <1>3, ReadEffect
<1> HIDE DEF e
<1>5. DOMAIN cache' = Query /\ cache'[q] = e /\ \A p \in Query \ {q} : cache'[p] = cache[p]
    BY <1>2, TypedParts
<1>6. CacheTyped
    BY <1>4, <1>5, TypedParts DEF CacheTyped
<1>7. Bounded
    BY <1>1, SameBounded
<1> QED
    BY <1>1, <1>4, <1>5, <1>6, <1>7 DEF Reads

\* The device a save shows at once.
Optimistic(device, input) == buildOptimisticDevice(device, input, SaveKind(device))

LEMMA OptimisticTyped ==
    ASSUME NEW device \in Device, NEW input \in Input
    PROVE  /\ Optimistic(device, input) \in Device
           /\ SaveKind(device) \in Saves /\ (SaveKind(device) = "patch" <=> device.status # "new")
           /\ SaveKind(device) = "patch" => Optimistic(device, input).status = device.status
BY DEF Optimistic, buildOptimisticDevice, Merged, SaveKind, Device, Input, Saves

\* A save goes out.
Saved(device, input, undoes) ==
    LET n == Len(request) + 1
        new == request'[n] IN
    /\ IsSequence(request') /\ Len(request') = n /\ DOMAIN request' = 1 .. n
    /\ \A i \in DOMAIN request : Goes(request[i], request'[i])
    /\ RequestOK(new) /\ new.kind = SaveKind(device) /\ new.phase = "sent" /\ ~new.stored /\ ~new.ok
    /\ new.undoes = undoes /\ new.watched = Watching(view)
    /\ \A q \in DeviceKeys : new.snapshot[q] \in {cache[q].data, cache[q].back.data}
    /\ CacheTyped /\ \A q \in Query \ DeviceKeys : cache'[q] = cache[q]
    /\ \A q \in DeviceKeys : cache'[q].back.data \in {cache[q].data, cache[q].back.data, None}
    /\ \A q \in Lists : /\ cache'[q].fetch = Idle
                        /\ cache'[q].data \in {cache[q].data, cache[q].back.data, {Optimistic(device, input)}}
    /\ cache'["detail"].data = Optimistic(device, input)
    /\ cache'["detail"].fetch = Idle \/ ("detail" \in Active /\ cache'["detail"].fetch = Sent)
    /\ UndoEarned

LEMMA QueryKeys ==
    /\ Lists \subseteq DeviceKeys /\ DeviceKeys \subseteq Query
    /\ "detail" \in DeviceKeys /\ "detail" \notin Lists
    /\ {"global", "assign"} \subseteq Query \ DeviceKeys
    /\ "caps" \in DeviceKeys /\ DeviceKeys = Lists \cup {"detail", "caps"} /\ "caps" \notin Lists
BY DEF Query, DeviceKeys, Lists

LEMMA ApplyEffect ==
    ASSUME NEW c, DOMAIN c = Query, \A q \in Query : c[q] \in Entry(Value(q)), NEW o \in Device
    PROVE  LET d == applyDeviceUpdate(c, o) IN
           /\ DOMAIN d = Query
           /\ \A q \in Query : d[q] \in Entry(Value(q)) /\ d[q].fetch = c[q].fetch /\ d[q].back = c[q].back
           /\ \A q \in Query \ DeviceKeys : d[q] = c[q]
           /\ \A q \in Lists : d[q].data \in {c[q].data, {o}}
           /\ d["detail"].data = o
<1> DEFINE d == applyDeviceUpdate(c, o)
<1>0. "detail" \in Query
    BY QueryKeys
<1>1. d["detail"] = SetData(c["detail"], o) /\ DOMAIN d = Query
    BY QueryKeys DEF applyDeviceUpdate
<1>2. \A q \in Lists : d[q] = SetData(c[q], IF c[q].data \in {None, {}} THEN c[q].data ELSE {o})
    BY QueryKeys DEF applyDeviceUpdate
<1>3. d["caps"] = SetData(c["caps"], c["caps"].data)
    BY QueryKeys DEF applyDeviceUpdate
<1>4. \A q \in Query \ DeviceKeys : d[q] = c[q]
    BY QueryKeys DEF applyDeviceUpdate
<1> HIDE DEF d
<1>5. /\ d["detail"] \in Entry(Value("detail")) /\ d["detail"].data = o
      /\ d["detail"].fetch = c["detail"].fetch /\ d["detail"].back = c["detail"].back
    <2>1. c["detail"] \in Entry(Value("detail"))
        BY <1>0
    <2>2. o \in Value("detail")
        BY DEF Value, Lists
    <2>3. o # None
        BY <1>0, <2>2, NoneIsNoValue
    <2> QED
        BY <1>1, <2>1, <2>2, <2>3, SetDataEffect
<1>6. ASSUME NEW q \in Lists
      PROVE  /\ d[q] \in Entry(Value(q)) /\ d[q].data \in {c[q].data, {o}}
             /\ d[q].fetch = c[q].fetch /\ d[q].back = c[q].back
    <2> DEFINE v == IF c[q].data \in {None, {}} THEN c[q].data ELSE {o}
    <2>1. c[q] \in Entry(Value(q)) /\ c[q].data \in Value(q) \cup {None}
        BY QueryKeys, EntryShape
    <2>2. {o} \in Value(q)
        <3>1. Value(q) = {{}} \cup {{x} : x \in Device}
            BY QueryKeys DEF Value
        <3>2. {o} \in {{x} : x \in Device}
            OBVIOUS
        <3> QED
            BY <3>1, <3>2
    <2>3. v \in Value(q) \cup {None} /\ v \in {c[q].data, {o}}
        BY <2>1, <2>2
    <2>4. d[q] = SetData(c[q], v)
        BY <1>2
    <2> HIDE DEF v
    <2> QED
        BY <2>1, <2>3, <2>4, SetDataEffect
<1>7. /\ d["caps"] \in Entry(Value("caps"))
      /\ d["caps"].fetch = c["caps"].fetch /\ d["caps"].back = c["caps"].back
    <2>1. c["caps"] \in Entry(Value("caps")) /\ c["caps"].data \in Value("caps") \cup {None}
        BY QueryKeys, EntryShape
    <2> QED
        BY <1>3, <2>1, SetDataEffect
<1>8. ASSUME NEW q \in Query
      PROVE  d[q] \in Entry(Value(q)) /\ d[q].fetch = c[q].fetch /\ d[q].back = c[q].back
    <2>1. CASE q \in Lists
        BY <1>6, <2>1
    <2>2. CASE q \notin DeviceKeys
        BY <1>4, <2>2
    <2> QED
        BY <1>5, <1>7, <2>1, <2>2, QueryKeys
<1> QED
    BY <1>1, <1>4, <1>5, <1>6, <1>8 DEF d

LEMMA SaveEffect ==
    ASSUME Typed, NEW device \in Device, NEW input \in Input, NEW undoes \in BOOLEAN, NEW toasts,
           saveDevice(device, input, undoes, toasts), UNCHANGED <<server, view>>
    PROVE  Saved(device, input, undoes) /\ Bounded
<1> DEFINE kind == SaveKind(device)
           opt == Optimistic(device, input)
           quiet == [q \in Query |-> IF q \in DeviceKeys THEN Cancel(cache[q]) ELSE cache[q]]
           cancelled == {q \in DeviceKeys : Fetching(cache[q])}
           asked == Request(kind, device, input, undoes)
           s == [cache |-> quiet, request |-> NoLonger(cancelled), undo |-> undo \cap toasts]
           t == Continue(s)
           new == [asked EXCEPT !.snapshot = [q \in DeviceKeys |-> t.cache[q].data]]
           n == Len(request) + 1
<1>1. /\ Spend("ops")
      /\ Becomes([t EXCEPT !.request = Append(t.request, new), !.cache = applyDeviceUpdate(t.cache, opt)])
    BY DEF saveDevice, Optimistic
<1>2. s.cache = quiet /\ s.request = NoLonger(cancelled) /\ s.undo = undo \cap toasts
    OBVIOUS
<1>3. DOMAIN quiet = Query /\ \A q \in Query : quiet[q] \in Entry(Value(q))
    BY TypedParts, CancelEffect
<1>4. \A q \in Query \ DeviceKeys : quiet[q] = cache[q]
    OBVIOUS
<1>5. ASSUME NEW q \in DeviceKeys
      PROVE  /\ quiet[q].fetch = Idle /\ quiet[q].data \in {cache[q].data, cache[q].back.data}
             /\ quiet[q].back.data \in {cache[q].back.data, None}
    <2>1. quiet[q] = Cancel(cache[q]) /\ cache[q] \in Entry(Value(q))
        BY QueryKeys, TypedParts
    <2> QED
        BY <2>1, CancelEffect
<1>6. Later(request, s.request) /\ \A i \in DOMAIN request : DOMAIN s.request[i] = RequestFields
    BY <1>2, TypedParts, NoLongerGoes
<1> HIDE DEF quiet, s
<1>7. Fields(s) /\ \A i \in DOMAIN s.request : s.request[i].waits \subseteq Query
    <2>1. Fields(s)
        BY <1>2, <1>3, <1>6 DEF Fields, Later
    <2>2. \A i \in DOMAIN s.request : s.request[i].waits \subseteq Query
        BY <1>6, TypedParts DEF Later, Goes
    <2> QED
        BY <2>1, <2>2
<1>8. Later(s.request, t.request) /\ Fields(t) /\ DOMAIN t = {"cache", "request", "undo"}
    BY <1>7, ContinueEffect
<1>9. \A d \in t.undo : d \in undo \/ \E i \in DOMAIN s.request :
          s.request[i].kind \in Saves /\ s.request[i].ok /\ ~s.request[i].undoes /\ d = s.request[i].device
    BY <1>2, <1>7, ContinueEffect
<1>10. /\ \A q \in Query : /\ t.cache[q] \in Entry(Value(q)) /\ Draws(quiet[q], t.cache[q])
                           /\ t.cache[q].data = quiet[q].data
                           /\ t.cache[q].fetch = quiet[q].fetch \/ (q \in Active /\ t.cache[q].fetch = Sent)
       /\ \A q \in Query \ {"detail"} : t.cache[q] = quiet[q]
    <2>1. \A q \in Query : s.cache[q] \in Entry(Value(q))
        BY <1>2, <1>3
    <2> HIDE DEF t
    <2> QED
        BY <1>2, <1>7, <2>1, ContinueDraws DEF t
<1>11. DOMAIN t.cache = Query
    BY <1>8 DEF Fields
<1> HIDE DEF t
<1>12. cache' = applyDeviceUpdate(t.cache, opt) /\ request' = Append(t.request, new) /\ undo' = t.undo
    <2> DEFINE u == [t EXCEPT !.request = Append(t.request, new), !.cache = applyDeviceUpdate(t.cache, opt)]
    <2>1. u.cache = applyDeviceUpdate(t.cache, opt) /\ u.request = Append(t.request, new) /\ u.undo = t.undo
        <3> HIDE DEF new, opt
        <3> QED
            BY <1>8
    <2>2. Becomes(u)
        BY <1>1
    <2> HIDE DEF u
    <2> QED
        BY <2>1, <2>2, BecomesParts
<1>13. opt \in Device /\ kind \in Saves
    BY OptimisticTyped
<1>14. Later(request, t.request)
    BY <1>6, <1>8, LaterOn
<1>15. /\ IsSequence(request') /\ Len(request') = n /\ DOMAIN request' = 1 .. n /\ request'[n] = new
       /\ \A i \in DOMAIN request : request'[i] = t.request[i]
    <2> HIDE DEF new
    <2> QED
        BY <1>12, <1>14, AppendShape DEF Later
<1>16. \A i \in DOMAIN request : Goes(request[i], request'[i])
    BY <1>14, <1>15 DEF Later
<1>17. /\ DOMAIN new = RequestFields /\ new.kind = kind /\ new.device = device /\ new.input = input
       /\ new.undoes = undoes /\ new.snapshot = [q \in DeviceKeys |-> t.cache[q].data]
       /\ new.phase = "sent" /\ new.waits = {} /\ new.stored = FALSE /\ new.ok = FALSE
       /\ new.watched = Watching(view)
    <2> HIDE DEF kind
    <2> QED
        BY DEF Request, RequestFields
<1> HIDE DEF new, kind, opt
<1>18. \A q \in DeviceKeys : /\ new.snapshot[q] \in {cache[q].data, cache[q].back.data}
                             /\ new.snapshot[q] \in Value(q) \cup {None}
    <2> SUFFICES ASSUME NEW q \in DeviceKeys
                 PROVE  /\ new.snapshot[q] \in {cache[q].data, cache[q].back.data}
                        /\ new.snapshot[q] \in Value(q) \cup {None}
        OBVIOUS
    <2>1. new.snapshot[q] = t.cache[q].data /\ q \in Query
        BY <1>17, QueryKeys
    <2>2. t.cache[q].data \in Value(q) \cup {None}
        BY <1>10, <2>1, EntryShape
    <2> QED
        BY <1>5, <1>10, <2>1, <2>2
<1>19. RequestOK(new)
    BY <1>13, <1>17, <1>18 DEF RequestOK, Waiting
<1>20. /\ DOMAIN cache' = Query
       /\ \A q \in Query : /\ cache'[q] \in Entry(Value(q)) /\ cache'[q].fetch = t.cache[q].fetch
                           /\ cache'[q].back = t.cache[q].back
       /\ \A q \in Query \ DeviceKeys : cache'[q] = t.cache[q]
       /\ \A q \in Lists : cache'[q].data \in {t.cache[q].data, {opt}}
       /\ cache'["detail"].data = opt
    BY <1>10, <1>11, <1>12, <1>13, ApplyEffect
<1>21. CacheTyped /\ \A q \in Query \ DeviceKeys : cache'[q] = cache[q]
    BY <1>4, <1>10, <1>20, QueryKeys DEF CacheTyped
<1>22. ASSUME NEW q \in DeviceKeys
       PROVE  cache'[q].back.data \in {cache[q].data, cache[q].back.data, None}
    <2>1. q \in Query /\ cache'[q].back = t.cache[q].back
        BY <1>20, QueryKeys
    <2>2. From(quiet[q], t.cache[q].back.data)
        BY <1>10, <2>1 DEF Draws
    <2>3. \A x : quiet[q].fetch # Read(x)
        BY <1>5, ReadIsNoMark
    <2> QED
        BY <1>5, <2>1, <2>2, <2>3 DEF From
<1>23. ASSUME NEW q \in Lists
       PROVE  cache'[q].fetch = Idle /\ cache'[q].data \in {cache[q].data, cache[q].back.data, {opt}}
    <2>1. q \in DeviceKeys /\ q \in Query \ {"detail"}
        BY QueryKeys
    <2> QED
        BY <1>5, <1>10, <1>20, <2>1
<1>24. cache'["detail"].fetch = Idle \/ ("detail" \in Active /\ cache'["detail"].fetch = Sent)
    BY <1>5, <1>10, <1>20, QueryKeys
<1>25. UndoEarned
    <2>1. \A i \in DOMAIN s.request : i \in DOMAIN request' /\ Goes(s.request[i], request'[i])
        BY <1>6, <1>8, <1>12, <1>15, <1>16, SequenceShape, AppendShape DEF Later
    <2> QED
        BY <1>9, <1>12, <2>1 DEF UndoEarned, Goes
<1>26. Bounded
    <2>1. budget' \in Budget /\ budget'.ops = budget.ops - 1
        BY <1>1, SpendEffect
    <2>2. Len(request) \in Nat /\ budget.ops \in Nat /\ Len(request) + budget.ops <= MaxOps
        BY SequenceShape DEF Typed, Budget
    <2> QED
        BY <1>15, <2>1, <2>2, ScenarioAssumption, ViewTyped DEF Bounded
<1> QED
    BY <1>15, <1>16, <1>17, <1>18, <1>19, <1>20, <1>21, <1>22, <1>23, <1>24, <1>25, <1>26 DEF Saved, kind, opt

\* A capability update goes out.
Updated(kind) ==
    LET n == Len(request) + 1
        new == request'[n] IN
    /\ IsSequence(request') /\ Len(request') = n /\ DOMAIN request' = 1 .. n
    /\ \A i \in DOMAIN request : i \in 1 .. n /\ i # n /\ request'[i] = request[i]
    /\ RequestOK(new) /\ new.kind = kind /\ new.phase = "sent" /\ ~new.stored /\ ~new.ok
    /\ new.watched = Watching(view)
    /\ UNCHANGED <<server, cache, undo>> /\ view'.page = view.page /\ view'.tab = view.tab
Updates == {"row", "byDevice", "assign", "global"}
UpdateStep ==
    \E kind \in Updates :
        /\ Updated(kind)
        /\ kind = "global" => Loaded(cache["global"]) /\ view.page = "global"
        /\ kind = "assign" => Loaded(cache["assign"]) /\ view.page = "assignments"

LEMMA FlipTyped ==
    ASSUME NEW control, NEW field \in {"state", "enabled"}
    PROVE  [field |-> field, value |-> Flip(control, field)] \in Change
<1>1. CASE field = "state"
    BY <1>1 DEF Flip, Change
<1>2. CASE field = "enabled"
    BY <1>2 DEF Flip, Change
<1> QED
    BY <1>1, <1>2

LEMMA UpdateEffect ==
    ASSUME Typed, NEW kind \in Updates, NEW control, NEW field \in {"state", "enabled"},
           Update(kind, field, Flip(control, field)),
           view' = view \/ view' = [view EXCEPT !.row = Len(request')]
    PROVE  Updated(kind) /\ Bounded
<1> DEFINE input == [field |-> field, value |-> Flip(control, field)]
           new == Request(kind, None, input, FALSE)
           n == Len(request) + 1
<1>1. Spend("ops") /\ request' = Append(request, new) /\ UNCHANGED <<server, cache, undo>>
    BY DEF Update
<1>2. input \in Change
    BY FlipTyped
<1> HIDE DEF input
<1>3. /\ DOMAIN new = RequestFields /\ new.kind = kind /\ new.input = input /\ new.phase = "sent"
      /\ new.waits = {} /\ new.stored = FALSE /\ new.ok = FALSE /\ new.watched = Watching(view)
    BY DEF Request, RequestFields
<1>4. RequestOK(new)
    <2>1. kind \notin Saves
        BY DEF Updates, Saves
    <2> HIDE DEF new
    <2> QED
        BY <1>2, <1>3, <2>1 DEF RequestOK, Updates, Waiting
<1> HIDE DEF new
<1>5. /\ IsSequence(request') /\ Len(request') = n /\ DOMAIN request' = 1 .. n /\ request'[n] = new
      /\ \A i \in DOMAIN request : i \in 1 .. n /\ request'[i] = request[i]
    BY <1>1, TypedParts, AppendShape
<1>6. \A i \in DOMAIN request : i # n
    BY TypedParts, SequenceShape
<1>7. Bounded /\ view'.page = view.page /\ view'.tab = view.tab
    <2>1. budget' \in Budget /\ budget'.ops = budget.ops - 1
        BY <1>1, SpendEffect
    <2>2. Len(request) \in Nat /\ budget.ops \in Nat /\ Len(request) + budget.ops <= MaxOps /\ budget'.ops \in Nat
        BY <2>1, SequenceShape DEF Typed, Budget
    <2>3. Len(request') \in 0 .. MaxOps /\ Len(request') + budget'.ops <= MaxOps
        BY <1>5, <2>1, <2>2, ScenarioAssumption
    <2>4. view' \in Views /\ view'.page = view.page /\ view'.tab = view.tab
        BY <2>3, ViewTyped DEF Views
    <2> QED
        BY <2>1, <2>3, <2>4 DEF Bounded
<1> QED
    BY <1>1, <1>3, <1>4, <1>5, <1>6, <1>7 DEF Updated

Toggling == CapabilityControlRow \/ GlobalCapabilityRow \/ AssignmentsByCapability \/ AssignmentsByDevice

LEMMA TogglingUpdates ==
    ASSUME Typed, Toggling
    PROVE  UpdateStep /\ Bounded
<1>1. ASSUME NEW kind \in Updates, NEW q, NEW field \in {"state", "enabled"}, RowUpdate(kind, q, field)
      PROVE  Updated(kind) /\ Bounded /\ Loaded(cache[q])
    BY <1>1, UpdateEffect DEF RowUpdate, RowsShown
<1>2. CASE CapabilityControlRow
    <2>1. Updated("row") /\ Bounded
        BY <1>1, <1>2 DEF CapabilityControlRow, Updates
    <2> QED
        BY <2>1 DEF UpdateStep, Updates
<1>3. CASE GlobalCapabilityRow
    <2>1. Updated("global") /\ Bounded /\ Loaded(cache["global"]) /\ view.page = "global"
        BY <1>1, <1>3 DEF GlobalCapabilityRow, Updates
    <2> QED
        BY <2>1 DEF UpdateStep, Updates
<1>4. CASE AssignmentsByCapability
    <2>1. Updated("assign") /\ Bounded /\ Loaded(cache["assign"]) /\ view.page = "assignments"
        BY <1>4, UpdateEffect DEF AssignmentsByCapability, RowsShown, Updates
    <2> QED
        BY <2>1 DEF UpdateStep, Updates
<1>5. CASE AssignmentsByDevice
    <2>1. Updated("byDevice") /\ Bounded
        BY <1>5, UpdateEffect DEF AssignmentsByDevice, RowsShown, Updates
    <2> QED
        BY <2>1 DEF UpdateStep, Updates
<1> QED
    BY <1>2, <1>3, <1>4, <1>5 DEF Toggling

\* A save or a user's Undo.
SaveStep ==
    \E device \in Device, input \in Input, undoes \in BOOLEAN :
        /\ Saved(device, input, undoes) /\ UNCHANGED <<server, view>>
        /\ undoes => undo # {}
        /\ ~undoes => device = selectedDevice /\ selectedDevice # None /\ DrawerOpen

\* The device in the drawer comes from the detail or from the list.
LEMMA Selected ==
    ASSUME Typed, selectedDevice # None
    PROVE  \E q \in Lists \cup {"detail"} :
               selectedDevice \in Device /\ selectedDevice \in In(q, cache[q].data)
<1>1. CASE Loaded(cache["detail"])
    <2>1. selectedDevice = cache["detail"].data
        BY <1>1 DEF selectedDevice
    <2>2. cache["detail"].data \in Value("detail") \cup {None} /\ Value("detail") = Device
        BY QueryKeys, TypedParts, EntryShape DEF Value
    <2> QED
        BY <2>1, <2>2 DEF In
<1>2. CASE ~Loaded(cache["detail"])
    <2> DEFINE l == view.list
               data == cache[l].data
    <2>1. Loaded(cache[l]) /\ data # {} /\ selectedDevice = CHOOSE d \in data : TRUE
        BY <1>2 DEF selectedDevice
    <2>2. l \in Lists
        BY ViewTyped DEF Views
    <2>3. data \in Value(l) \cup {None} /\ Value(l) = {{}} \cup {{x} : x \in Device}
        BY <2>2, QueryKeys, TypedParts, EntryShape DEF Value
    <2>4. data \subseteq Device /\ data # None
        BY <2>1, <2>3 DEF Loaded
    <2>5. selectedDevice \in data
        BY <2>1
    <2>6. In(l, data) = data
        BY <2>2, <2>4, QueryKeys DEF In
    <2> QED
        BY <2>2, <2>4, <2>5, <2>6
<1> QED
    BY <1>1, <1>2

LEMMA UsersSave ==
    ASSUME Typed, Submit \/ Undo
    PROVE  SaveStep /\ Bounded
<1>1. CASE Submit
    <2>1. PICK values \in Form : selectedDevice # None /\ DrawerOpen
                                 /\ saveDevice(selectedDevice, handleSubmit(values), FALSE, Device)
        BY <1>1 DEF Submit, handleSaveDevice
    <2>2. UNCHANGED <<server, view>>
        BY <1>1 DEF Submit
    <2>3. handleSubmit(values) \in Input
        <3>1. values \in [name : Name, type : Icon \cup {"unknown"}]
            BY FormAssumption
        <3> QED
            BY <3>1 DEF handleSubmit, toStoredIcon, Input
    <2>4. selectedDevice \in Device
        BY <2>1, Selected
    <2> DEFINE d == selectedDevice
               v == handleSubmit(values)
    <2>5. d \in Device /\ v \in Input /\ saveDevice(d, v, FALSE, Device)
        BY <2>1, <2>3, <2>4
    <2> HIDE DEF d, v
    <2>6. Saved(d, v, FALSE) /\ Bounded
        BY <2>2, <2>5, SaveEffect
    <2> QED
        BY <2>1, <2>2, <2>5, <2>6 DEF SaveStep, d
<1>2. CASE Undo
    <2> DEFINE D(previous) == IF Loaded(cache["detail"]) THEN cache["detail"].data ELSE previous
               V(previous) == [name |-> previous.name, icon |-> previous.icon]
    <2>1. PICK previous \in undo : saveDevice(D(previous), V(previous), TRUE, Device \ {previous})
        BY <1>2 DEF Undo
    <2>2. UNCHANGED <<server, view>>
        BY <1>2 DEF Undo
    <2>3. previous \in Device
        BY DEF Typed, TypeOK
    <2>4. V(previous) \in Input
        BY <2>3 DEF Device, Input
    <2>5. D(previous) \in Device
        <3>1. cache["detail"].data \in Value("detail") \cup {None} /\ Value("detail") = Device
            BY QueryKeys, TypedParts, EntryShape DEF Value
        <3> QED
            BY <2>3, <3>1 DEF Loaded
    <2> HIDE DEF D, V
    <2>6. Saved(D(previous), V(previous), TRUE) /\ Bounded
        BY <2>1, <2>2, <2>4, <2>5, SaveEffect
    <2> QED
        BY <2>2, <2>4, <2>5, <2>6 DEF SaveStep
<1> QED
    BY <1>1, <1>2

\* The server processes a request: it refuses a PATCH of a device that is not
\* registered, and stores everything else.
SameAsking(r, t) ==
    /\ DOMAIN t = DOMAIN r /\ t.kind = r.kind /\ t.device = r.device /\ t.input = r.input
    /\ t.undoes = r.undoes /\ t.snapshot = r.snapshot /\ t.waits = r.waits /\ t.ok = r.ok
    /\ t.watched = r.watched
Written(i) ==
    /\ request[i].phase = "sent"
    /\ IsSequence(request') /\ Len(request') = Len(request) /\ DOMAIN request' = DOMAIN request
    /\ \A j \in DOMAIN request : j # i => request'[j] = request[j]
    /\ SameAsking(request[i], request'[i]) /\ UNCHANGED <<cache, undo, view>>
    /\ \/ /\ request[i].kind = "patch" /\ server.device.status = "new" /\ server' = server
          /\ request'[i].phase = "refused" /\ request'[i].stored = request[i].stored
       \/ /\ ~(request[i].kind = "patch" /\ server.device.status = "new")
          /\ request'[i].phase = "stored" /\ request'[i].stored = TRUE
          /\ server'.alone = server.alone
          /\ request[i].kind \in Saves =>
                /\ server'.device.status = "registered" /\ server'.past = server.past \cup {server'.device}
                /\ server'.cap = server.cap /\ server'.global = server.global
          /\ request[i].kind \notin Saves => server'.device = server.device /\ server'.past = server.past
          /\ request[i].kind \in {"row", "byDevice", "assign"} => server'.global = server.global
          /\ request[i].kind = "global" => server'.cap = server.cap
Rows == [device : Device, past : SUBSET Device, alone : BOOLEAN, cap : Control, global : Control]

LEMMA MergedTyped ==
    ASSUME NEW device \in Device, NEW input \in Input
    PROVE  Merged(device, input, "registered") \in Device /\ Merged(device, input, "registered").status = "registered"
BY DEF Merged, Device, Input

LEMMA HoldsTyped ==
    ASSUME server \in Rows, NEW d \in Device
    PROVE  /\ Holds(d) \in Rows /\ Holds(d).device = d /\ Holds(d).past = server.past \cup {d}
           /\ Holds(d).alone = server.alone /\ Holds(d).cap = server.cap /\ Holds(d).global = server.global
BY DEF Holds, Rows

LEMMA ChangeTyped ==
    ASSUME NEW control \in Control, NEW change \in Change
    PROVE  [control EXCEPT ![change.field] = change.value] \in Control
<1>1. CASE change \in [field : {"state"}, value : {"on", "off"}]
    BY <1>1 DEF Control
<1>2. CASE change \in [field : {"enabled"}, value : BOOLEAN]
    BY <1>2 DEF Control
<1> QED
    BY <1>1, <1>2 DEF Change

LEMMA WriteEffect ==
    ASSUME Typed, NEW i \in DOMAIN request, ServerWrites(i)
    PROVE  Written(i) /\ Bounded /\ server' \in Rows
<1> DEFINE r == request[i]
           refused == r.kind = "patch" /\ server.device.status = "new"
<1>1. r.phase = "sent" /\ UNCHANGED <<cache, undo, view, budget>>
    BY DEF ServerWrites
<1>2. RequestOK(r) /\ DOMAIN r = RequestFields
    BY TypedParts
<1>3. server \in Rows
    BY DEF Typed, TypeOK, Rows
<1>4. ASSUME NEW t, request' = [request EXCEPT ![i] = t]
      PROVE  /\ IsSequence(request') /\ Len(request') = Len(request) /\ DOMAIN request' = DOMAIN request
             /\ \A j \in DOMAIN request : j # i => request'[j] = request[j]
             /\ request'[i] = t
    <2>1. DOMAIN request = 1 .. Len(request) /\ Len(request) \in Nat
        BY TypedParts, SequenceShape
    <2>2. request' = [j \in 1 .. Len(request) |-> request'[j]] /\ DOMAIN request' = 1 .. Len(request)
        BY <1>4, <2>1
    <2>3. IsSequence(request') /\ Len(request') = Len(request)
        BY <2>1, <2>2, FunctionIsSequence
    <2> QED
        BY <1>4, <2>3
<1>5. CASE refused
    <2> DEFINE t == [r EXCEPT !.phase = "refused"]
    <2>1. request' = [request EXCEPT ![i] = t] /\ server' = server
        BY <1>5 DEF ServerWrites
    <2>2. SameAsking(r, t) /\ t.phase = "refused" /\ t.stored = r.stored
        BY <1>2 DEF SameAsking, RequestFields
    <2> HIDE DEF t
    <2>3. Written(i)
        BY <1>1, <1>4, <1>5, <2>1, <2>2 DEF Written
    <2>4. Bounded
        BY <1>1, <2>3, SameBounded DEF Written
    <2> QED
        BY <1>3, <2>1, <2>3, <2>4
<1>6. CASE ~refused
    <2> DEFINE t == [r EXCEPT !.phase = "stored", !.stored = TRUE]
    <2>1. /\ request' = [request EXCEPT ![i].phase = "stored", ![i].stored = TRUE]
          /\ server' = CASE r.kind \in Saves -> Holds(Merged(server.device, r.input, "registered"))
                         [] r.kind = "global" -> [server EXCEPT !.global[r.input.field] = r.input.value]
                         [] OTHER -> [server EXCEPT !.cap[r.input.field] = r.input.value]
        BY <1>6 DEF ServerWrites
    <2>2. request' = [request EXCEPT ![i] = t]
        BY <2>1
    <2>3. SameAsking(r, t) /\ t.phase = "stored" /\ t.stored = TRUE
        BY <1>2 DEF SameAsking, RequestFields
    <2> HIDE DEF t
    <2>4. CASE r.kind \in Saves
        <3> DEFINE d == Merged(server.device, r.input, "registered")
        <3>1. r.kind # "global" /\ r.kind \notin {"row", "byDevice", "assign"}
            BY <2>4 DEF Saves
        <3>2. server' = Holds(d)
            BY <2>1, <2>4, <3>1
        <3>3. d \in Device /\ d.status = "registered"
            <4>1. server.device \in Device /\ r.input \in Input
                BY <1>2, <1>3, <2>4 DEF Rows, RequestOK
            <4> QED
                BY <4>1, MergedTyped
        <3> HIDE DEF d
        <3>4. /\ server' \in Rows /\ server'.device = d /\ server'.past = server.past \cup {d}
              /\ server'.alone = server.alone /\ server'.cap = server.cap /\ server'.global = server.global
            BY <1>3, <3>2, <3>3, HoldsTyped
        <3>5. Written(i)
            BY <1>1, <1>4, <1>6, <2>2, <2>3, <2>4, <3>1, <3>3, <3>4 DEF Written
        <3> QED
            BY <1>1, <3>4, <3>5, SameBounded DEF Written
    <2>5. CASE r.kind = "global"
        <3> DEFINE g == [server.global EXCEPT ![r.input.field] = r.input.value]
        <3>1. r.kind \notin Saves /\ r.kind \notin {"row", "byDevice", "assign"}
            BY <2>5 DEF Saves
        <3>2. server' = [server EXCEPT !.global = g]
            BY <2>1, <2>5, <3>1
        <3>3. g \in Control
            BY <1>2, <1>3, <3>1, ChangeTyped DEF Rows, RequestOK
        <3> HIDE DEF g
        <3>4. /\ server' \in Rows /\ server'.device = server.device /\ server'.past = server.past
              /\ server'.alone = server.alone /\ server'.cap = server.cap
            BY <1>3, <3>2, <3>3 DEF Rows
        <3>5. Written(i)
            BY <1>1, <1>4, <1>6, <2>2, <2>3, <2>5, <3>1, <3>4 DEF Written
        <3> QED
            BY <1>1, <3>4, <3>5, SameBounded DEF Written
    <2>6. CASE r.kind \notin Saves /\ r.kind # "global"
        <3> DEFINE g == [server.cap EXCEPT ![r.input.field] = r.input.value]
        <3>1. server' = [server EXCEPT !.cap = g]
            BY <2>1, <2>6
        <3>2. g \in Control
            BY <1>2, <1>3, <2>6, ChangeTyped DEF Rows, RequestOK
        <3> HIDE DEF g
        <3>3. /\ server' \in Rows /\ server'.device = server.device /\ server'.past = server.past
              /\ server'.alone = server.alone /\ server'.global = server.global
            BY <1>3, <3>1, <3>2 DEF Rows
        <3>4. Written(i)
            BY <1>1, <1>4, <1>6, <2>2, <2>3, <2>6, <3>3 DEF Written
        <3> QED
            BY <1>1, <3>3, <3>4, SameBounded DEF Written
    <2> QED
        BY <2>4, <2>5, <2>6
<1> QED
    BY <1>5, <1>6

\* Somebody else writes.
Elsewhere ==
    /\ server' \in Rows /\ ~server'.alone /\ server'.device.status = "registered"
    /\ server'.past = server.past \cup {server'.device}
    /\ UNCHANGED <<cache, request, undo, view>>

LEMMA OutsideEffect ==
    ASSUME Typed, Outside
    PROVE  Elsewhere /\ Bounded
<1>1. PICK n \in Name, s \in {"on", "off"} :
          server' = [Holds(Merged(server.device, [name |-> n, icon |-> None], "registered"))
                        EXCEPT !.cap.state = s, !.global.state = s, !.alone = FALSE]
    BY DEF Outside
<1> DEFINE d == Merged(server.device, [name |-> n, icon |-> None], "registered")
           h == Holds(d)
<1>2. server \in Rows
    BY DEF Typed, TypeOK, Rows
<1>3. d \in Device /\ d.status = "registered"
    <2>1. server.device \in Device /\ [name |-> n, icon |-> None] \in Input
        BY <1>2 DEF Rows, Input
    <2> QED
        BY <2>1, MergedTyped
<1> HIDE DEF d
<1>4. h \in Rows /\ h.device = d /\ h.past = server.past \cup {d}
    BY <1>2, <1>3, HoldsTyped
<1>5. server' = [h EXCEPT !.cap.state = s, !.global.state = s, !.alone = FALSE]
    BY <1>1 DEF d
<1> HIDE DEF h
<1>6. server'.device = h.device /\ server'.past = h.past /\ server'.alone = FALSE
    BY <1>4, <1>5 DEF Rows
<1>7. server' \in Rows
    BY <1>4, <1>5 DEF Rows, Control
<1>8. UNCHANGED <<cache, request, undo, view>> /\ Spend("outside")
    BY DEF Outside
<1>9. Bounded
    BY <1>8, ViewTyped, SpendBounded
<1> QED
    BY <1>3, <1>4, <1>6, <1>7, <1>8, <1>9 DEF Elsewhere

\* A request is answered, well or not, or lost.
Finished(i) ==
    LET r == request[i]
        t == request'[i] IN
    /\ r.phase \in Waiting /\ UNCHANGED <<server, view>>
    /\ IsSequence(request') /\ Len(request') = Len(request) /\ DOMAIN request' = DOMAIN request
    /\ \A j \in DOMAIN request : j # i => Goes(request[j], request'[j])
    /\ RequestOK(t) /\ t.phase \in Waking \cup {"done"}
    /\ t.kind = r.kind /\ t.device = r.device /\ t.input = r.input /\ t.undoes = r.undoes
    /\ t.snapshot = r.snapshot /\ t.stored = r.stored /\ (t.watched => r.watched)
    /\ CacheTyped /\ UndoEarned
    /\ \A q \in Query : /\ cache'[q].fetch = cache[q].fetch \/ (q \in Active /\ cache'[q].fetch = Sent)
                        /\ Loaded(cache[q]) => Loaded(cache'[q])
    /\ \A q \in Query \ DeviceKeys : Draws(cache[q], cache'[q])
    \* A save marks the queries of devices; if it failed they show again what
    \* they showed before it.
    /\ r.kind \in Saves =>
          \A q \in DeviceKeys :
             /\ Marked(q, cache[q], cache'[q]) /\ cache'[q].data \in {cache[q].data, r.snapshot[q]}
             /\ From(cache[q], cache'[q].back.data) \/ cache'[q].back.data = r.snapshot[q]
    /\ r.kind \notin Saves => \A q \in Query : Draws(cache[q], cache'[q])
    /\ (t.ok /\ r.phase = "stored" /\ \A q \in Refreshed(r) : Marked(q, cache[q], cache'[q])) \/ ~t.ok

LEMMA RefreshedSaves ==
    ASSUME NEW r, r.kind \in Saves
    PROVE  Refreshed(r) = DeviceKeys
BY DEF Refreshed, Saves

LEMMA RollbackEffect ==
    ASSUME Typed, NEW snapshot, \A q \in DeviceKeys : snapshot[q] \in Value(q) \cup {None}
    PROVE  LET c == rollbackDeviceUpdate(cache, snapshot) IN
           /\ DOMAIN c = Query
           /\ \A q \in Query : c[q] \in Entry(Value(q)) /\ c[q].fetch = cache[q].fetch /\ c[q].back = cache[q].back
           /\ \A q \in Query \ DeviceKeys : c[q] = cache[q]
           /\ \A q \in DeviceKeys : c[q].data = IF snapshot[q] = None THEN cache[q].data ELSE snapshot[q]
<1> DEFINE c == rollbackDeviceUpdate(cache, snapshot)
<1>1. DOMAIN c = Query /\ \A q \in Query \ DeviceKeys : c[q] = cache[q]
    BY DEF rollbackDeviceUpdate
<1>2. \A q \in DeviceKeys : c[q] = SetData(cache[q], snapshot[q])
    BY QueryKeys DEF rollbackDeviceUpdate
<1> HIDE DEF c
<1>3. ASSUME NEW q \in DeviceKeys
      PROVE  /\ c[q] \in Entry(Value(q)) /\ c[q].fetch = cache[q].fetch /\ c[q].back = cache[q].back
             /\ c[q].data = IF snapshot[q] = None THEN cache[q].data ELSE snapshot[q]
    <2>1. cache[q] \in Entry(Value(q)) /\ snapshot[q] \in Value(q) \cup {None}
        BY QueryKeys, TypedParts
    <2> QED
        BY <1>2, <2>1, SetDataEffect
<1> QED
    BY <1>1, <1>3, TypedParts DEF c

\* The client's state before an answer is settled.
LEMMA ClientParts ==
    ASSUME Typed
    PROVE  /\ DOMAIN Client = {"cache", "request", "undo"}
           /\ Client.cache = cache /\ Client.request = request /\ Client.undo = undo
BY DEF Client

LEMMA SuccessEffect ==
    ASSUME Typed, NEW i \in DOMAIN request, RequestSucceeds(i)
    PROVE  Finished(i) /\ Bounded
<1> DEFINE s == [Client EXCEPT !.request[i].ok = TRUE]
           r == request[i]
           t == request'[i]
<1>1. r.phase = "stored" /\ Settle(s, i) /\ UNCHANGED <<server, view, budget>>
    BY DEF RequestSucceeds
<1>2. /\ DOMAIN s = {"cache", "request", "undo"} /\ s.cache = cache /\ s.undo = undo
      /\ s.request = [request EXCEPT ![i] = [r EXCEPT !.ok = TRUE]]
    BY ClientParts
<1> HIDE DEF s
<1>3. RequestOK(r) /\ DOMAIN r = RequestFields
    BY TypedParts
<1>4. LET z == s.request[i] IN
      /\ DOMAIN z = RequestFields /\ z.waits = r.waits /\ z.ok = TRUE
      /\ z.kind = r.kind /\ z.device = r.device /\ z.input = r.input /\ z.undoes = r.undoes
      /\ z.snapshot = r.snapshot /\ z.stored = r.stored /\ z.watched = r.watched
    BY <1>2, <1>3 DEF RequestFields
<1>5. DOMAIN s.request = DOMAIN request /\ \A j \in DOMAIN request : j # i => s.request[j] = request[j]
    BY <1>2
<1>6. IsSequence(s.request) /\ Len(s.request) = Len(request)
    <2>1. DOMAIN request = 1 .. Len(request) /\ Len(request) \in Nat
        BY TypedParts, SequenceShape
    <2>2. s.request = [j \in 1 .. Len(request) |-> s.request[j]]
        BY <1>2, <2>1
    <2> QED
        BY <1>5, <2>1, <2>2, FunctionIsSequence
<1>7. Fields(s) /\ \A j \in DOMAIN s.request : s.request[j].waits \subseteq Query
    BY <1>2, <1>4, <1>5, <1>6, TypedParts DEF Fields
<1>8. /\ Settled_(s, i) /\ CacheTyped
      /\ \A q \in Query : Draws(cache[q], cache'[q]) /\ cache'[q].data = cache[q].data
                          /\ (cache'[q].fetch = cache[q].fetch \/ (q \in Active /\ cache'[q].fetch = Sent))
                          /\ (q \in Refreshed(s.request[i]) => Marked(q, cache[q], cache'[q]))
      /\ \A d \in undo' : d \in undo \/ \E j \in DOMAIN s.request :
            s.request[j].kind \in Saves /\ s.request[j].ok /\ ~s.request[j].undoes /\ d = s.request[j].device
    <2>1. i \in DOMAIN s.request /\ \A q \in Query : s.cache[q] \in Entry(Value(q))
        BY <1>2, <1>5, TypedParts
    <2>2. /\ Settled_(s, i) /\ CacheTyped
          /\ \A q \in Query : Draws(s.cache[q], cache'[q]) /\ cache'[q].data = s.cache[q].data
                              /\ (cache'[q].fetch = s.cache[q].fetch \/ (q \in Active /\ cache'[q].fetch = Sent))
                              /\ (q \in Refreshed(s.request[i]) => Marked(q, s.cache[q], cache'[q]))
          /\ \A d \in undo' : d \in s.undo \/ \E j \in DOMAIN s.request :
                s.request[j].kind \in Saves /\ s.request[j].ok /\ ~s.request[j].undoes /\ d = s.request[j].device
        BY <1>1, <1>2, <1>7, <2>1, SettleEffect, Zenon
    <2> QED
        BY <1>2, <2>2
<1>9. /\ IsSequence(request') /\ Len(request') = Len(request) /\ DOMAIN request' = DOMAIN request
      /\ \A j \in DOMAIN request : j # i => Goes(request[j], request'[j])
      /\ DOMAIN t = RequestFields /\ t.waits \subseteq Query /\ t.phase \in Waking \cup {"done"} /\ t.ok = TRUE
      /\ t.kind = r.kind /\ t.device = r.device /\ t.input = r.input /\ t.undoes = r.undoes
      /\ t.snapshot = r.snapshot /\ t.stored = r.stored /\ (t.watched => r.watched)
    BY <1>4, <1>5, <1>6, <1>8 DEF Settled_
<1>10. r.stored
    BY <1>1, <1>3 DEF RequestOK
<1>11. RequestOK(t)
    BY <1>3, <1>9, <1>10 DEF RequestOK, Waiting, Waking
<1>12. UndoEarned
    <2> SUFFICES ASSUME NEW d \in undo', d \notin undo
                 PROVE  \E j \in DOMAIN request' :
                           request'[j].kind \in Saves /\ request'[j].ok /\ ~request'[j].undoes /\ d = request'[j].device
        BY DEF UndoEarned
    <2>1. PICK j \in DOMAIN request :
              s.request[j].kind \in Saves /\ s.request[j].ok /\ ~s.request[j].undoes /\ d = s.request[j].device
        BY <1>5, <1>8
    <2>2. CASE j = i
        BY <1>4, <1>9, <2>1, <2>2
    <2>3. CASE j # i
        BY <1>5, <1>9, <2>1, <2>3 DEF Goes
    <2> QED
        BY <2>2, <2>3
<1>13. Refreshed(s.request[i]) = Refreshed(r)
    BY <1>4 DEF Refreshed
<1>14. \A q \in Query : (Loaded(cache[q]) => Loaded(cache'[q])) /\ From(cache[q], cache'[q].back.data)
    BY <1>8 DEF Draws
<1>15. Refreshed(r) \subseteq Query
    BY DEF Refreshed, Query, DeviceKeys
<1>16. r.kind \in Saves => \A q \in DeviceKeys : q \in Query /\ Marked(q, cache[q], cache'[q])
    BY <1>8, <1>13, RefreshedSaves, QueryKeys
<1>17. \A q \in Refreshed(r) : Marked(q, cache[q], cache'[q])
    BY <1>8, <1>13, <1>15
<1>18. "stored" \in Waiting
    BY DEF Waiting
<1>19. Finished(i)
    BY <1>1, <1>8, <1>9, <1>11, <1>12, <1>14, <1>16, <1>17, <1>18 DEF Finished
<1> QED
    BY <1>1, <1>9, <1>19, SameBounded

LEMMA FailEffect ==
    ASSUME Typed, NEW i \in DOMAIN request, request[i].phase \in Waiting, Fail(i), UNCHANGED <<server, view>>
    PROVE  Finished(i) /\ Len(request') = Len(request)
<1> DEFINE r == request[i]
           t == request'[i]
<1>1. RequestOK(r) /\ DOMAIN r = RequestFields
    BY TypedParts
<1>2. CASE r.kind \in Saves
    <2> DEFINE c == rollbackDeviceUpdate(cache, r.snapshot)
               s == [Client EXCEPT !.cache = c]
    <2>1. Settle(s, i)
        BY <1>2, ClientParts DEF Fail
    <2>2. /\ DOMAIN s = {"cache", "request", "undo"} /\ s.cache = c /\ s.undo = undo /\ s.request = request
        <3> HIDE DEF c
        <3> QED
            BY ClientParts
    <2>3. /\ DOMAIN c = Query
          /\ \A q \in Query : c[q] \in Entry(Value(q)) /\ c[q].fetch = cache[q].fetch /\ c[q].back = cache[q].back
          /\ \A q \in Query \ DeviceKeys : c[q] = cache[q]
          /\ \A q \in DeviceKeys : c[q].data = IF r.snapshot[q] = None THEN cache[q].data ELSE r.snapshot[q]
        <3>1. \A q \in DeviceKeys : r.snapshot[q] \in Value(q) \cup {None}
            BY <1>1, <1>2 DEF RequestOK
        <3> QED
            BY <3>1, RollbackEffect
    <2> HIDE DEF s, c
    <2>4. Fields(s) /\ \A j \in DOMAIN s.request : s.request[j].waits \subseteq Query
        BY <2>2, <2>3, TypedParts DEF Fields
    <2>5. /\ Settled_(s, i) /\ CacheTyped
          /\ \A q \in Query : Draws(s.cache[q], cache'[q]) /\ cache'[q].data = s.cache[q].data
                              /\ (cache'[q].fetch = s.cache[q].fetch \/ (q \in Active /\ cache'[q].fetch = Sent))
                              /\ (q \in Refreshed(s.request[i]) => Marked(q, s.cache[q], cache'[q]))
          /\ \A d \in undo' : d \in s.undo \/ \E j \in DOMAIN s.request :
                s.request[j].kind \in Saves /\ s.request[j].ok /\ ~s.request[j].undoes /\ d = s.request[j].device
        <3>1. i \in DOMAIN s.request /\ \A q \in Query : s.cache[q] \in Entry(Value(q))
            BY <2>2, <2>3
        <3> QED
            BY <2>1, <2>2, <2>4, <3>1, SettleEffect, Zenon
    <2>6. /\ IsSequence(request') /\ Len(request') = Len(request) /\ DOMAIN request' = DOMAIN request
          /\ \A j \in DOMAIN request : j # i => Goes(request[j], request'[j])
          /\ DOMAIN t = RequestFields /\ t.waits \subseteq Query /\ t.phase \in Waking \cup {"done"} /\ t.ok = r.ok
          /\ t.kind = r.kind /\ t.device = r.device /\ t.input = r.input /\ t.undoes = r.undoes
          /\ t.snapshot = r.snapshot /\ t.stored = r.stored /\ (t.watched => r.watched)
        BY <2>2, <2>5 DEF Settled_
    <2>7. RequestOK(t) /\ ~t.ok
        BY <1>1, <2>6 DEF RequestOK, Waiting, Waking
    <2>8. UndoEarned
        <3> SUFFICES ASSUME NEW d \in undo', d \notin undo
                     PROVE  \E j \in DOMAIN request' :
                               request'[j].kind \in Saves /\ request'[j].ok /\ ~request'[j].undoes /\ d = request'[j].device
            BY DEF UndoEarned
        <3>1. PICK j \in DOMAIN request :
                  request[j].kind \in Saves /\ request[j].ok /\ ~request[j].undoes /\ d = request[j].device
            BY <2>2, <2>5
        <3>2. j # i
            BY <1>1, <3>1 DEF RequestOK
        <3> QED
            BY <2>6, <3>1, <3>2 DEF Goes
    <2>9. \A q \in Query : cache'[q].fetch = cache[q].fetch \/ (q \in Active /\ cache'[q].fetch = Sent)
        BY <2>2, <2>3, <2>5
    <2>10. \A q \in Query : Loaded(cache[q]) => Loaded(c[q])
        BY <2>3 DEF Loaded
    <2>11. \A q \in Query : Loaded(cache[q]) => Loaded(cache'[q])
        BY <2>2, <2>5, <2>10 DEF Loaded
    <2>12. \A q \in Query \ DeviceKeys : Draws(cache[q], cache'[q])
        BY <2>2, <2>3, <2>5
    <2>13. ASSUME NEW q \in DeviceKeys
           PROVE  /\ Marked(q, cache[q], cache'[q]) /\ cache'[q].data \in {cache[q].data, r.snapshot[q]}
                  /\ From(cache[q], cache'[q].back.data) \/ cache'[q].back.data = r.snapshot[q]
        <3>1. q \in Query /\ q \in Refreshed(s.request[i])
            BY <1>2, <2>2, QueryKeys, RefreshedSaves
        <3>2. Marked(q, c[q], cache'[q]) /\ Draws(c[q], cache'[q]) /\ cache'[q].data = c[q].data
            BY <2>2, <2>5, <3>1
        <3>3. Marked(q, cache[q], cache'[q])
            BY <2>3, <2>10, <3>1, <3>2 DEF Marked
        <3>4. cache'[q].data \in {cache[q].data, r.snapshot[q]}
            BY <2>3, <3>2
        <3>5. From(c[q], cache'[q].back.data)
            BY <3>2 DEF Draws
        <3>6. From(cache[q], cache'[q].back.data) \/ cache'[q].back.data = r.snapshot[q]
            BY <2>3, <3>1, <3>5 DEF From
        <3> QED
            BY <3>3, <3>4, <3>6
    <2>14. Finished(i)
        BY <1>2, <2>5, <2>6, <2>7, <2>8, <2>9, <2>11, <2>12, <2>13 DEF Finished
    <2> QED
        BY <2>6, <2>14
<1>3. CASE r.kind \notin Saves
    <2> DEFINE z == [r EXCEPT !.phase = "done"]
               u == [Client EXCEPT !.request[i].phase = "done"]
    <2>1. cache' = u.cache /\ request' = u.request /\ undo' = u.undo
        <3>1. Becomes(u)
            BY <1>3 DEF Fail
        <3> HIDE DEF u
        <3> QED
            BY <3>1, BecomesParts
    <2>2. u.cache = cache /\ u.undo = undo /\ u.request = [request EXCEPT ![i] = z]
        BY ClientParts
    <2> HIDE DEF u
    <2>3. cache' = cache /\ request' = [request EXCEPT ![i] = z] /\ undo' = undo
        BY <2>1, <2>2
    <2>4. /\ DOMAIN z = RequestFields /\ z.waits = r.waits /\ z.phase = "done" /\ z.ok = r.ok
          /\ z.kind = r.kind /\ z.device = r.device /\ z.input = r.input /\ z.undoes = r.undoes
          /\ z.snapshot = r.snapshot /\ z.stored = r.stored /\ z.watched = r.watched
        BY <1>1 DEF RequestFields
    <2> HIDE DEF z
    <2>5. RequestOK(z) /\ ~z.ok
        BY <1>1, <2>4 DEF RequestOK, Waiting
    <2>6. /\ DOMAIN request' = DOMAIN request /\ request'[i] = z
          /\ \A j \in DOMAIN request : j # i => request'[j] = request[j]
        BY <2>3
    <2>7. IsSequence(request') /\ Len(request') = Len(request)
        <3>1. DOMAIN request = 1 .. Len(request) /\ Len(request) \in Nat
            BY TypedParts, SequenceShape
        <3>2. request' = [j \in 1 .. Len(request) |-> request'[j]]
            BY <2>3, <3>1
        <3> QED
            BY <2>6, <3>1, <3>2, FunctionIsSequence
    <2>8. \A j \in DOMAIN request : j # i => Goes(request[j], request'[j])
        BY <2>6 DEF Goes
    <2>9. CacheTyped /\ UndoEarned /\ \A q \in Query : Draws(cache[q], cache'[q])
        BY <2>3, TypedParts, DrawsSelf DEF CacheTyped, UndoEarned
    <2>10. Finished(i)
        BY <1>3, <2>3, <2>4, <2>5, <2>6, <2>7, <2>8, <2>9 DEF Finished
    <2> QED
        BY <2>7, <2>10
<1> QED
    BY <1>2, <1>3

Answering(i) == RequestSucceeds(i) \/ RequestRefused(i) \/ RequestLost(i)
LEMMA AnsweringFinishes ==
    ASSUME Typed, NEW i \in DOMAIN request, Answering(i)
    PROVE  Finished(i) /\ Bounded
<1>1. CASE RequestSucceeds(i)
    BY <1>1, SuccessEffect
<1>2. CASE RequestRefused(i)
    <2>1. request[i].phase \in Waiting /\ Fail(i) /\ UNCHANGED <<server, view, budget>>
        BY <1>2 DEF RequestRefused, Waiting
    <2>2. Finished(i) /\ Len(request') = Len(request)
        BY <2>1, FailEffect
    <2> QED
        BY <2>1, <2>2, SameBounded
<1>3. CASE RequestLost(i)
    <2>1. request[i].phase \in Waiting /\ Fail(i) /\ Spend("faults") /\ UNCHANGED <<server, view>>
        BY <1>3 DEF RequestLost, Waiting
    <2>2. Finished(i) /\ Len(request') = Len(request)
        BY <2>1, FailEffect
    <2> QED
        BY <2>1, <2>2, ViewTyped, SpendBounded
<1> QED
    BY <1>1, <1>2, <1>3 DEF Answering
-----------------------------------------------------------------------------
(* Every step is of one of seven kinds.                                    *)

Kinds ==
    \/ Quiet
    \/ \E q \in Query : Reads(q)
    \/ SaveStep
    \/ UpdateStep
    \/ \E i \in DOMAIN request : Written(i) /\ server' \in Rows
    \/ \E i \in DOMAIN request : Finished(i)
    \/ Elsewhere

LEMMA NextKinds ==
    ASSUME Typed, [Next]_vars
    PROVE  Kinds /\ Bounded
<1>1. CASE Browse
    BY <1>1, BrowseQuiet DEF Kinds
<1>2. CASE Submit \/ Undo
    BY <1>2, UsersSave DEF Kinds
<1>3. CASE Toggling
    BY <1>3, TogglingUpdates DEF Kinds
<1>4. ASSUME NEW q \in Query, Fetch(q)
      PROVE  Kinds /\ Bounded
    BY <1>4, FetchQuiet DEF Kinds
<1>5. ASSUME NEW q \in Query, ServerReads(q)
      PROVE  Kinds /\ Bounded
    BY <1>5, ReadsEffect DEF Kinds
<1>6. ASSUME NEW i \in DOMAIN request, ServerWrites(i)
      PROVE  Kinds /\ Bounded
    BY <1>6, WriteEffect DEF Kinds
<1>7. ASSUME NEW i \in DOMAIN request, Answering(i)
      PROVE  Kinds /\ Bounded
    BY <1>7, AnsweringFinishes DEF Kinds
<1>8. CASE Outside
    BY <1>8, OutsideEffect DEF Kinds
<1>9. CASE UNCHANGED vars
    BY <1>9, UnchangedQuiet, SameBounded DEF Kinds, vars
<1> QED
    BY <1>1, <1>2, <1>3, <1>4, <1>5, <1>6, <1>7, <1>8, <1>9
    DEF Next, Users, Network, Browse, Toggling, Fetch, Answering
-----------------------------------------------------------------------------
(* Types.                                                                  *)

LEMMA UndoTyped ==
    ASSUME Typed, UndoEarned, \A i \in DOMAIN request' : RequestOK(request'[i])
    PROVE  undo' \subseteq Device
BY DEF Typed, TypeOK, UndoEarned, RequestOK

LEMMA TypedFrom ==
    ASSUME server' \in Rows, CacheTyped, undo' \subseteq Device, Bounded,
           IsSequence(request'), \A i \in DOMAIN request' : RequestOK(request'[i])
    PROVE  Typed'
<1>1. \A i \in DOMAIN request' : request'[i].waits \subseteq Query
    BY DEF RequestOK
<1>2. TypeOK'
    BY <1>1 DEF TypeOK, Rows, Views, Bounded, CacheTyped
<1> QED
    BY <1>2 DEF Typed, CacheTyped, Bounded

LEMMA TypedKept ==
    ASSUME Typed, Kinds, Bounded
    PROVE  Typed'
<1>1. server \in Rows /\ undo \subseteq Device
    BY DEF Typed, TypeOK, Rows
<1>2. /\ IsSequence(request) /\ \A i \in DOMAIN request : RequestOK(request[i])
      /\ DOMAIN cache = Query /\ \A q \in Query : cache[q] \in Entry(Value(q))
    BY TypedParts
<1>3. CASE Quiet
    <2>1. IsSequence(request') /\ \A i \in DOMAIN request' : RequestOK(request'[i])
        BY <1>2, <1>3, GoesKeepsOK DEF Quiet, Later
    <2>2. undo' \subseteq Device
        BY <1>3, <2>1, UndoTyped DEF Quiet
    <2> QED
        BY <1>1, <1>3, <2>1, <2>2, TypedFrom DEF Quiet
<1>4. ASSUME NEW q \in Query, Reads(q)
      PROVE  Typed'
    BY <1>1, <1>2, <1>4, TypedFrom DEF Reads
<1>5. CASE SaveStep
    <2>1. PICK device \in Device, input \in Input, undoes \in BOOLEAN :
              Saved(device, input, undoes) /\ UNCHANGED <<server, view>>
        BY <1>5 DEF SaveStep
    <2>2. IsSequence(request') /\ CacheTyped /\ UndoEarned
        BY <2>1 DEF Saved
    <2>3. \A i \in DOMAIN request' : RequestOK(request'[i])
        <3> SUFFICES ASSUME NEW i \in DOMAIN request'
                     PROVE  RequestOK(request'[i])
            OBVIOUS
        <3>1. i \in DOMAIN request \/ i = Len(request) + 1
            BY <1>2, <2>1, SequenceShape DEF Saved
        <3>2. i \in DOMAIN request => Goes(request[i], request'[i])
            BY <2>1 DEF Saved
        <3>3. RequestOK(request'[Len(request) + 1])
            BY <2>1 DEF Saved
        <3> QED
            BY <1>2, <3>1, <3>2, <3>3, GoesKeepsOK
    <2>4. undo' \subseteq Device
        BY <2>2, <2>3, UndoTyped
    <2> QED
        BY <1>1, <2>1, <2>2, <2>3, <2>4, TypedFrom
<1>6. CASE UpdateStep
    <2>1. PICK kind \in Updates : Updated(kind)
        BY <1>6 DEF UpdateStep
    <2>2. IsSequence(request') /\ UNCHANGED <<server, cache, undo>>
        BY <2>1 DEF Updated
    <2>3. \A i \in DOMAIN request' : RequestOK(request'[i])
        BY <1>2, <2>1, SequenceShape DEF Updated
    <2>4. CacheTyped
        BY <1>2, <2>2 DEF CacheTyped
    <2> QED
        BY <1>1, <2>2, <2>3, <2>4, TypedFrom
<1>7. ASSUME NEW i \in DOMAIN request, Written(i), server' \in Rows
      PROVE  Typed'
    <2>1. IsSequence(request') /\ DOMAIN request' = DOMAIN request /\ UNCHANGED <<cache, undo>>
        BY <1>7 DEF Written
    <2>2. RequestOK(request[i]) /\ SameAsking(request[i], request'[i])
        BY <1>2, <1>7 DEF Written
    <2>3. (request'[i].phase = "refused" /\ request'[i].stored = request[i].stored)
          \/ (request'[i].phase = "stored" /\ request'[i].stored = TRUE)
        BY <1>7 DEF Written
    <2>4. request[i].phase = "sent"
        BY <1>7 DEF Written
    <2>5. RequestOK(request'[i])
        BY <2>2, <2>3, <2>4 DEF RequestOK, SameAsking, Waiting
    <2>6. \A j \in DOMAIN request' : RequestOK(request'[j])
        BY <1>2, <1>7, <2>1, <2>5 DEF Written
    <2>7. CacheTyped
        BY <1>2, <2>1 DEF CacheTyped
    <2> QED
        BY <1>1, <1>7, <2>1, <2>6, <2>7, TypedFrom
<1>8. ASSUME NEW i \in DOMAIN request, Finished(i)
      PROVE  Typed'
    <2>1. IsSequence(request') /\ DOMAIN request' = DOMAIN request /\ server' = server
          /\ CacheTyped /\ UndoEarned /\ RequestOK(request'[i])
        BY <1>8 DEF Finished
    <2>2. \A j \in DOMAIN request : j # i => Goes(request[j], request'[j])
        BY <1>8 DEF Finished
    <2>3. \A j \in DOMAIN request' : RequestOK(request'[j])
        BY <1>2, <2>1, <2>2, GoesKeepsOK
    <2>4. undo' \subseteq Device
        BY <2>1, <2>3, UndoTyped
    <2> QED
        BY <1>1, <2>1, <2>3, <2>4, TypedFrom
<1>9. CASE Elsewhere
    BY <1>1, <1>2, <1>9, TypedFrom DEF Elsewhere, CacheTyped
<1> QED
    BY <1>3, <1>4, <1>5, <1>6, <1>7, <1>8, <1>9 DEF Kinds
-----------------------------------------------------------------------------
(* Where a behaviour starts.                                               *)

LEMMA FirstEntries ==
    ASSUME NEW V, NEW v \in V
    PROVE  /\ Empty \in Entry(V) /\ Start(Empty) \in Entry(V) /\ [Empty EXCEPT !.data = v] \in Entry(V)
           /\ Empty.fetch = Idle /\ Empty.data = None /\ Empty.back.data = None
           /\ Start(Empty).fetch = Sent /\ Start(Empty).data = None /\ Start(Empty).back.data = None
           /\ LET e == [Empty EXCEPT !.data = v] IN e.fetch = Idle /\ e.data = v /\ e.back.data = None
<1>1. Empty \in Entry(V) /\ Empty.fetch = Idle /\ Empty.data = None /\ Empty.back.data = None
    BY DEF Empty, Entry, Past, Nothing
<1>2. Start(Empty) = Begin(Empty)
    BY <1>1 DEF Start, Fetching
<1>3. [Empty EXCEPT !.data = v] \in Entry(V)
    BY <1>1 DEF Entry
<1>4. LET e == [Empty EXCEPT !.data = v] IN e.fetch = Idle /\ e.data = v /\ e.back.data = None
    BY DEF Empty, Nothing
<1> QED
    BY <1>1, <1>2, <1>3, <1>4, BeginEffect

\* Nothing but the first list has been loaded, and it is what the server holds.
FirstCache ==
    /\ DOMAIN cache = Query
    /\ \A q \in Query : /\ cache[q] \in Entry(Value(q)) /\ cache[q].fetch \in {Idle, Sent}
                        /\ cache[q].back.data = None
                        /\ cache[q].data = IF q = "live" THEN {server.device} ELSE None

LEMMA InitServer ==
    ASSUME Init
    PROVE  server \in Rows /\ server.past = {server.device}
<1>1. PICK status \in {"new", "registered"} :
          LET row == [name |-> CHOOSE n \in Name : TRUE, icon |-> None, status |-> status] IN
          server = [device |-> row, past |-> {row}, alone |-> TRUE, cap |-> Off, global |-> Off]
    BY DEF Init
<1> DEFINE row == [name |-> CHOOSE n \in Name : TRUE, icon |-> None, status |-> status]
<1>2. (CHOOSE n \in Name : TRUE) \in Name
    BY NameAssumption
<1>3. row \in Device
    BY <1>2 DEF Device
<1>4. server = [device |-> row, past |-> {row}, alone |-> TRUE, cap |-> Off, global |-> Off]
    BY <1>1
<1>5. Off \in Control
    BY DEF Off, Control
<1> HIDE DEF row
<1> QED
    BY <1>3, <1>4, <1>5 DEF Rows

LEMMA InitCache ==
    ASSUME Init
    PROVE  FirstCache
<1>1. cache = [q \in Query |->
                  IF q = "live" THEN [Empty EXCEPT !.data = {server.device}]
                  ELSE IF q \in Active THEN Start(Empty) ELSE Empty]
    BY DEF Init
<1>2. ASSUME NEW q \in Query
      PROVE  /\ cache[q] \in Entry(Value(q)) /\ cache[q].fetch \in {Idle, Sent}
             /\ cache[q].back.data = None /\ cache[q].data = IF q = "live" THEN {server.device} ELSE None
    <2>1. CASE q = "live"
        <3>1. {server.device} \in Value(q)
            BY <2>1, InitServer DEF Value, Lists, Rows
        <3>2. cache[q] = [Empty EXCEPT !.data = {server.device}]
            BY <1>1, <2>1
        <3> QED
            BY <2>1, <3>1, <3>2, FirstEntries
    <2>2. CASE q # "live"
        <3>1. cache[q] = Start(Empty) \/ cache[q] = Empty
            BY <1>1, <2>2
        <3>2. \E v : v \in Value(q)
            <4>1. Off \in Control
                BY DEF Off, Control
            <4>2. server.device \in Device
                BY InitServer DEF Rows
            <4>3. ASSUME q \in Lists
                  PROVE  {} \in Value(q)
                <5>1. Value(q) = {{}} \cup {{d} : d \in Device}
                    BY <4>3 DEF Value, Lists
                <5> QED
                    BY <5>1
            <4>4. q = "detail" => server.device \in Value(q)
                BY <4>2, QueryKeys DEF Value
            <4>5. q \notin Lists /\ q # "detail" => Off \in Value(q)
                BY <4>1 DEF Value
            <4> QED
                BY <4>3, <4>4, <4>5
        <3> QED
            BY <2>2, <3>1, <3>2, FirstEntries
    <2> QED
        BY <2>1, <2>2
<1> QED
    BY <1>1, <1>2 DEF FirstCache

\* The state a behaviour starts in satisfies the invariant.
LEMMA InitIInv == Init => IInv
<1> SUFFICES ASSUME Init
             PROVE  IInv
    OBVIOUS
<1>1. request = <<>> /\ undo = {} /\ DOMAIN request = {} /\ Len(request) = 0 /\ IsSequence(request)
    BY DEF Init, IsSequence
<1>2. server \in Rows /\ server.past = {server.device} /\ FirstCache
    BY InitServer, InitCache
<1>3. view \in Views /\ budget \in Budget /\ budget.ops <= MaxOps
    <2>1. PICK s \in Scenario :
              /\ budget = s.budget
              /\ view = [page |-> s.page, list |-> "live",
                         tab |-> IF s.page = "devices" THEN "form" ELSE None, row |-> 0]
        BY DEF Init
    <2>2. 0 \in 0 .. MaxOps /\ s.budget \in Budget /\ s.budget.ops <= MaxOps
          /\ s.page \in {"devices", "assignments", "global"}
        BY ScenarioAssumption
    <2> QED
        BY <2>1, <2>2 DEF Views, Lists
<1>4. Typed
    <2>1. Len(request) + budget.ops <= MaxOps
        BY <1>1, <1>3 DEF Budget
    <2>2. TypeOK
        BY <1>1, <1>2, <1>3 DEF TypeOK, Rows, Views, FirstCache
    <2> QED
        BY <1>1, <1>2, <1>3, <2>1, <2>2 DEF Typed, FirstCache
<1>5. \A q \in Query : \A S : FetchIn(cache[q], S) /\ (q # "live" => DataIn(cache[q], S))
    BY <1>2 DEF FetchIn, DataIn, FirstCache, Loaded
<1>6. PhantomsExplained
    <2>1. {server.device} \in Held("live")
        BY <1>2 DEF Held
    <2>2. DataIn(cache["live"], Held("live"))
        BY <1>2, <2>1, QueryKeys DEF DataIn, FirstCache, Lists
    <2> QED
        BY <1>2, <1>5, <2>2, QueryKeys DEF PhantomsExplained
<1>7. RefusalsAhead
    <2> SUFFICES ASSUME server.device.status = "new"
                 PROVE  BeforeRegistration
        BY DEF RefusalsAhead
    <2>1. ASSUME NEW q \in Lists \cup {"detail"}
          PROVE  /\ AllNew(q, cache[q].data) /\ AllNew(q, cache[q].back.data)
                 /\ \A v : cache[q].fetch = Read(v) => AllNew(q, v)
        <3>1. q \in Query
            BY QueryKeys
        <3>2. In(q, cache[q].data) \subseteq {server.device} /\ In(q, cache[q].back.data) = {}
            BY <1>2, <3>1, QueryKeys DEF FirstCache, In, Lists
        <3>3. \A v : cache[q].fetch # Read(v)
            BY <1>2, <3>1, ReadIsNoMark DEF FirstCache
        <3> QED
            BY <3>2, <3>3 DEF AllNew
    <2> QED
        BY <1>1, <2>1 DEF BeforeRegistration
<1>8. TogglesOK
    BY <1>1, <1>5, QueryKeys DEF TogglesOK, ToggleOK, Lists
<1>9. SavesOK
    BY <1>1, <1>5, QueryKeys DEF SavesOK, Busy
<1> QED
    BY <1>4, <1>6, <1>7, <1>8, <1>9 DEF IInv
-----------------------------------------------------------------------------
(* An optimistic row does not outlive its save.                            *)

LEMMA HeldStays ==
    ASSUME server.past \subseteq server'.past, NEW l, NEW e
    PROVE  /\ FetchIn(e, Held(l)) => FetchIn(e, Held(l)')
           /\ DataIn(e, Held(l)) => DataIn(e, Held(l)')
<1>1. Held(l) \subseteq Held(l)'
    BY DEF Held
<1> QED
    BY <1>1 DEF FetchIn, DataIn

\* What is in flight stays in flight.
LEMMA PendingStays ==
    ASSUME \A i \in DOMAIN request : /\ i \in DOMAIN request'
                                     /\ Goes(request[i], request'[i]) \/ request[i].kind \notin Saves
    PROVE  Pending => Pending'
<1> SUFFICES ASSUME Pending
             PROVE  Pending'
    OBVIOUS
<1>1. PICK i \in DOMAIN request : request[i].kind \in Saves /\ request[i].phase \in Waiting
    BY DEF Pending
<1>2. i \in DOMAIN request' /\ Goes(request[i], request'[i])
    BY <1>1
<1>3. request'[i].kind \in Saves /\ request'[i].phase \in Waiting
    BY <1>1, <1>2 DEF Goes, Waking, Waiting
<1> QED
    BY <1>2, <1>3 DEF Pending

LEMMA GoesSelf == ASSUME NEW r PROVE Goes(r, r)
BY DEF Goes

LEMMA PhantomsKept ==
    ASSUME Typed, PhantomsExplained, Kinds
    PROVE  PhantomsExplained'
<1>1. server.device \in server.past /\ Lists \subseteq Query /\ Lists \subseteq DeviceKeys
    BY QueryKeys DEF PhantomsExplained
<1>2. \A l \in Lists : FetchIn(cache[l], Held(l)) /\ (DataIn(cache[l], Held(l)) \/ Pending)
    BY DEF PhantomsExplained
<1>3. server'.device \in server'.past /\ server.past \subseteq server'.past
    <2>1. CASE server' = server
        BY <1>1, <2>1
    <2>2. ASSUME NEW i \in DOMAIN request, Written(i)
          PROVE  server'.device \in server'.past /\ server.past \subseteq server'.past
        BY <1>1, <2>2 DEF Written
    <2>3. CASE Elsewhere
        BY <2>3 DEF Elsewhere
    <2> QED
        BY <2>1, <2>2, <2>3 DEF Kinds, Quiet, Reads, SaveStep, UpdateStep, Updated, Finished
<1> SUFFICES ASSUME NEW l \in Lists
             PROVE  FetchIn(cache'[l], Held(l)') /\ (DataIn(cache'[l], Held(l)') \/ Pending')
    BY <1>3 DEF PhantomsExplained
<1>4. FetchIn(cache[l], Held(l)') /\ (DataIn(cache[l], Held(l)') \/ Pending)
    BY <1>2, <1>3, HeldStays
<1>5. ASSUME Draws(cache[l], cache'[l]), Pending => Pending'
      PROVE  FetchIn(cache'[l], Held(l)') /\ (DataIn(cache'[l], Held(l)') \/ Pending')
    BY <1>4, <1>5, DrawsKeeps
<1>6. CASE Quiet
    <2>1. Pending => Pending'
        <3>1. DOMAIN request' = DOMAIN request /\ \A i \in DOMAIN request : Goes(request[i], request'[i])
            BY <1>6 DEF Quiet, Later
        <3> QED
            BY <3>1, PendingStays
    <2> QED
        BY <1>1, <1>5, <1>6, <2>1 DEF Quiet
<1>7. ASSUME NEW q \in Query, Reads(q)
      PROVE  FetchIn(cache'[l], Held(l)') /\ (DataIn(cache'[l], Held(l)') \/ Pending')
    <2>1. Pending => Pending'
        BY <1>7 DEF Reads, Pending
    <2>2. CASE q # l
        BY <1>1, <1>4, <1>7, <2>1, <2>2 DEF Reads
    <2>3. CASE q = l
        <3>1. Serve(l) \in Held(l)
            <4>1. Serve(l) = fetchDevices(l)
                BY DEF Serve, Lists
            <4> QED
                BY <1>1, <4>1 DEF fetchDevices, Held
        <3>2. Held(l)' = Held(l)
            BY <1>7 DEF Reads, Held
        <3>3. cache'[l].fetch = Read(Serve(l)) /\ cache'[l].data = cache[l].data
              /\ cache'[l].invalid = cache[l].invalid
            BY <1>7, <2>3 DEF Reads
        <3>4. FetchIn(cache'[l], Held(l)')
            BY <3>1, <3>2, <3>3 DEF FetchIn
        <3>5. DataIn(cache[l], Held(l)') => DataIn(cache'[l], Held(l)')
            BY <3>3 DEF DataIn, Loaded
        <3> QED
            BY <1>4, <2>1, <3>4, <3>5
    <2> QED
        BY <2>2, <2>3
<1>8. CASE SaveStep
    <2>1. PICK device \in Device, input \in Input, undoes \in BOOLEAN : Saved(device, input, undoes)
        BY <1>8 DEF SaveStep
    <2> DEFINE n == Len(request) + 1
    <2>2. n \in DOMAIN request' /\ request'[n].kind = SaveKind(device) /\ request'[n].phase = "sent"
        BY <2>1, TypedParts, SequenceShape DEF Saved
    <2>3. Pending'
        BY <2>2, OptimisticTyped DEF Pending, Waiting
    <2>4. FetchIn(cache'[l], Held(l)')
        BY <2>1 DEF Saved, FetchIn
    <2> QED
        BY <2>3, <2>4
<1>9. CASE UpdateStep
    <2>1. PICK kind \in Updates : Updated(kind)
        BY <1>9 DEF UpdateStep
    <2>2. (\A i \in DOMAIN request : i \in DOMAIN request' /\ request'[i] = request[i]) /\ cache' = cache
        BY <2>1 DEF Updated
    <2>3. Pending => Pending'
        BY <2>2, GoesSelf, PendingStays
    <2> QED
        BY <1>4, <2>2, <2>3
<1>10. ASSUME NEW i \in DOMAIN request, Written(i)
       PROVE  FetchIn(cache'[l], Held(l)') /\ (DataIn(cache'[l], Held(l)') \/ Pending')
    <2>1. cache' = cache /\ DOMAIN request' = DOMAIN request
          /\ (\A j \in DOMAIN request : j # i => request'[j] = request[j])
        BY <1>10 DEF Written
    <2>2. request'[i].kind = request[i].kind /\ request'[i].phase \in Waiting
        BY <1>10 DEF Written, SameAsking, Waiting
    <2>3. Pending => Pending'
        BY <2>1, <2>2 DEF Pending
    <2> QED
        BY <1>4, <2>1, <2>3
<1>11. ASSUME NEW i \in DOMAIN request, Finished(i)
       PROVE  FetchIn(cache'[l], Held(l)') /\ (DataIn(cache'[l], Held(l)') \/ Pending')
    <2>1. CASE request[i].kind \in Saves
        <3>1. cache'[l].invalid
            BY <1>1, <1>11, <2>1 DEF Finished, Marked
        <3>2. cache'[l].fetch = cache[l].fetch \/ cache'[l].fetch = Sent
            BY <1>1, <1>11 DEF Finished
        <3> QED
            BY <1>4, <3>1, <3>2 DEF FetchIn, DataIn
    <2>2. CASE request[i].kind \notin Saves
        <3>1. \A j \in DOMAIN request : j \in DOMAIN request' /\ (j # i => Goes(request[j], request'[j]))
            BY <1>11 DEF Finished
        <3>2. Pending => Pending'
            BY <2>2, <3>1, PendingStays
        <3>3. Draws(cache[l], cache'[l])
            BY <1>1, <1>11, <2>2 DEF Finished
        <3> QED
            BY <1>5, <3>2, <3>3
    <2> QED
        BY <2>1, <2>2
<1>12. CASE Elsewhere
    BY <1>4, <1>12 DEF Elsewhere, Pending
<1> QED
    BY <1>6, <1>7, <1>8, <1>9, <1>10, <1>11, <1>12 DEF Kinds
-----------------------------------------------------------------------------
(* Before the first registration reaches the server.                       *)

\* What an entry shows, goes back to and has on its way is new.
NewEntry(q, e) ==
    AllNew(q, e.data) /\ AllNew(q, e.back.data) /\ \A v : e.fetch = Read(v) => AllNew(q, v)
SavesAhead ==
    \A i \in DOMAIN request : request[i].kind \in Saves =>
        /\ ~request[i].stored /\ ~request[i].undoes /\ request[i].phase # "stored"
        /\ request[i].kind = "patch" => \E j \in 1 .. i - 1 : request[j].kind = "register"

LEMMA BeforeParts ==
    BeforeRegistration <=>
        undo = {} /\ SavesAhead /\ (RegisterMade \/ \A q \in Lists \cup {"detail"} : NewEntry(q, cache[q]))
BY DEF BeforeRegistration, NewEntry, SavesAhead

LEMMA NewDraws ==
    ASSUME NEW q, NEW e, NEW f, Draws(e, f), NewEntry(q, e)
    PROVE  NewEntry(q, f)
<1>1. AllNew(q, None)
    BY DEF AllNew, In
<1>2. AllNew(q, f.data)
    BY DEF Draws, NewEntry
<1>3. AllNew(q, f.back.data)
    BY <1>1 DEF Draws, From, NewEntry
<1>4. ASSUME NEW v, f.fetch = Read(v)
      PROVE  AllNew(q, v)
    <2>1. e.fetch = Read(v)
        BY <1>4, ReadIsNoMark DEF Draws
    <2> QED
        BY <2>1 DEF NewEntry
<1> QED
    BY <1>2, <1>3, <1>4 DEF NewEntry

LEMMA ServeNew ==
    ASSUME server.device.status = "new", NEW q \in Lists \cup {"detail"}
    PROVE  AllNew(q, Serve(q))
<1>1. CASE q \in Lists
    <2>1. Serve(q) = fetchDevices(q) /\ q # "detail"
        BY <1>1, QueryKeys DEF Serve, Lists
    <2>2. In(q, Serve(q)) \subseteq {server.device}
        BY <2>1 DEF In, fetchDevices
    <2> QED
        BY <2>2 DEF AllNew
<1>2. CASE q = "detail"
    <2>1. Serve(q) = server.device
        BY <1>2 DEF Serve, Lists
    <2>2. In(q, Serve(q)) \subseteq {server.device}
        BY <1>2, <2>1 DEF In
    <2> QED
        BY <2>2 DEF AllNew
<1> QED
    BY <1>1, <1>2

\* Every save there was is one of before, and those of before are unchanged.
LEMMA SavesAheadKept ==
    ASSUME SavesAhead, IsSequence(request), DOMAIN request \subseteq DOMAIN request',
           \A i \in DOMAIN request : request'[i].kind = request[i].kind,
           \A i \in DOMAIN request' : request'[i].kind \in Saves =>
               /\ i \in DOMAIN request
               /\ request'[i].stored = request[i].stored /\ request'[i].undoes = request[i].undoes
               /\ request'[i].phase = "stored" => request[i].phase = "stored"
    PROVE  SavesAhead' /\ (RegisterMade => RegisterMade')
<1>1. RegisterMade => RegisterMade'
    BY DEF RegisterMade
<1>2. ASSUME NEW i \in DOMAIN request', request'[i].kind \in Saves
      PROVE  /\ ~request'[i].stored /\ ~request'[i].undoes /\ request'[i].phase # "stored"
             /\ request'[i].kind = "patch" => \E j \in 1 .. i - 1 : request'[j].kind = "register"
    <2>1. i \in DOMAIN request /\ request[i].kind = request'[i].kind
        BY <1>2
    <2>2. /\ ~request[i].stored /\ ~request[i].undoes /\ request[i].phase # "stored"
          /\ request[i].kind = "patch" => \E j \in 1 .. i - 1 : request[j].kind = "register"
        BY <1>2, <2>1 DEF SavesAhead
    <2>3. \A j \in 1 .. i - 1 : j \in DOMAIN request
        BY <2>1, SequenceShape
    <2> QED
        BY <1>2, <2>1, <2>2, <2>3
<1> QED
    BY <1>1, <1>2 DEF SavesAhead

\* As long as no save was stored nothing can be undone.
LEMMA NothingToUndo ==
    ASSUME undo = {}, UndoEarned, SavesAhead', \A i \in DOMAIN request' : RequestOK(request'[i])
    PROVE  undo' = {}
BY DEF UndoEarned, SavesAhead, RequestOK

\* A save is a registration or comes after one.
LEMMA RegisterBefore ==
    ASSUME SavesAhead, IsSequence(request), NEW i \in DOMAIN request, request[i].kind \in Saves
    PROVE  RegisterMade
<1>1. CASE request[i].kind = "register"
    BY <1>1 DEF RegisterMade
<1>2. CASE request[i].kind = "patch"
    <2>1. PICK j \in 1 .. i - 1 : request[j].kind = "register"
        BY <1>2 DEF SavesAhead
    <2>2. j \in DOMAIN request
        BY SequenceShape
    <2> QED
        BY <2>1, <2>2 DEF RegisterMade
<1> QED
    BY <1>1, <1>2 DEF Saves

LEMMA StatusStays ==
    ASSUME Typed, Kinds, server'.device.status = "new"
    PROVE  server.device.status = "new" /\ ~Elsewhere
           /\ \A i \in DOMAIN request : Written(i) =>
                 request'[i].phase # "stored" \/ request[i].kind \notin Saves
<1>1. ~Elsewhere
    BY DEF Elsewhere
<1>2. ASSUME NEW i \in DOMAIN request, Written(i)
      PROVE  (server'.device = server.device) /\ (request'[i].phase # "stored" \/ request[i].kind \notin Saves)
    BY <1>2 DEF Written
<1> QED
    BY <1>1, <1>2 DEF Kinds, Quiet, Reads, SaveStep, UpdateStep, Updated, Finished

LEMMA RefusalsKept ==
    ASSUME Typed, Typed', RefusalsAhead, Kinds
    PROVE  RefusalsAhead'
<1> SUFFICES ASSUME server'.device.status = "new"
             PROVE  BeforeRegistration'
    BY DEF RefusalsAhead
<1> DEFINE Keys == Lists \cup {"detail"}
<1>1. server.device.status = "new" /\ ~Elsewhere
    BY StatusStays
<1>2. undo = {} /\ SavesAhead /\ (RegisterMade \/ \A q \in Keys : NewEntry(q, cache[q]))
    BY <1>1, BeforeParts DEF RefusalsAhead
<1>3. IsSequence(request) /\ Keys \subseteq Query /\ \A i \in DOMAIN request' : RequestOK(request'[i])
    BY QueryKeys DEF Typed
<1>4. ASSUME SavesAhead', undo' = {}, RegisterMade => RegisterMade',
             RegisterMade' \/ \A q \in Keys : NewEntry(q, cache[q]) => NewEntry(q, cache'[q])
      PROVE  BeforeRegistration'
    BY <1>2, <1>4, BeforeParts DEF BeforeRegistration, SavesAhead, NewEntry
<1>5. CASE Quiet
    <2>1. DOMAIN request' = DOMAIN request /\ \A i \in DOMAIN request : Goes(request[i], request'[i])
        BY <1>5 DEF Quiet, Later
    <2>2. SavesAhead' /\ (RegisterMade => RegisterMade')
        BY <1>2, <1>3, <2>1, SavesAheadKept DEF Goes, Waking
    <2>3. undo' = {}
        BY <1>2, <1>3, <1>5, <2>2, NothingToUndo DEF Quiet
    <2>4. \A q \in Keys : NewEntry(q, cache[q]) => NewEntry(q, cache'[q])
        BY <1>3, <1>5, NewDraws DEF Quiet
    <2> QED
        BY <1>4, <2>2, <2>3, <2>4
<1>6. ASSUME NEW p \in Query, Reads(p)
      PROVE  BeforeRegistration'
    <2>1. request' = request /\ undo' = undo
        BY <1>6 DEF Reads
    <2>2. SavesAhead' /\ (RegisterMade => RegisterMade')
        BY <1>2, <2>1 DEF SavesAhead, RegisterMade
    <2>3. ASSUME NEW q \in Keys, NewEntry(q, cache[q])
          PROVE  NewEntry(q, cache'[q])
        <3>1. CASE q # p
            BY <1>3, <1>6, <2>3, <3>1 DEF Reads
        <3>2. CASE q = p
            <4>1. cache'[q].fetch = Read(Serve(q)) /\ cache'[q].data = cache[q].data
                  /\ cache'[q].back = cache[q].back
                BY <1>6, <3>2 DEF Reads
            <4>2. AllNew(q, Serve(q))
                BY <1>1, ServeNew
            <4>3. \A v : cache'[q].fetch = Read(v) => v = Serve(q)
                BY <4>1, ReadIsNoMark
            <4> QED
                BY <2>3, <4>1, <4>2, <4>3 DEF NewEntry
        <3> QED
            BY <3>1, <3>2
    <2> QED
        BY <1>2, <1>4, <2>1, <2>2, <2>3
<1>7. CASE SaveStep
    <2>1. PICK device \in Device, input \in Input, undoes \in BOOLEAN :
              /\ Saved(device, input, undoes) /\ (undoes => undo # {})
              /\ ~undoes => device = selectedDevice /\ selectedDevice # None
        BY <1>7 DEF SaveStep
    <2> DEFINE n == Len(request) + 1
    <2>2. /\ DOMAIN request' = 1 .. n /\ DOMAIN request = 1 .. n - 1 /\ n \in Nat
          /\ \A i \in DOMAIN request : Goes(request[i], request'[i])
        BY <1>3, <2>1, SequenceShape DEF Saved
    <2>3. /\ request'[n].kind = SaveKind(device) /\ request'[n].phase = "sent"
          /\ ~request'[n].stored /\ ~request'[n].undoes /\ UndoEarned
        BY <1>2, <2>1 DEF Saved
    <2>4. device.status # "new" => \E j \in 1 .. n - 1 : request[j].kind = "register"
        <3> SUFFICES ASSUME device.status # "new"
                     PROVE  RegisterMade
            BY <2>2 DEF RegisterMade
        <3>1. PICK q \in Keys : device \in In(q, cache[q].data)
            BY <1>2, <2>1, Selected
        <3> QED
            BY <1>2, <3>1 DEF NewEntry, AllNew
    <2>5. SaveKind(device) \in Saves /\ (SaveKind(device) = "patch" <=> device.status # "new")
        BY OptimisticTyped
    <2>6. SavesAhead'
        <3> SUFFICES ASSUME NEW i \in DOMAIN request', request'[i].kind \in Saves
                     PROVE  /\ ~request'[i].stored /\ ~request'[i].undoes /\ request'[i].phase # "stored"
                            /\ request'[i].kind = "patch" => \E j \in 1 .. i - 1 : request'[j].kind = "register"
            BY DEF SavesAhead
        <3>1. \A j \in 1 .. n - 1 : request'[j].kind = request[j].kind
            BY <2>2 DEF Goes
        <3>2. CASE i = n
            BY <2>3, <2>4, <2>5, <3>1, <3>2
        <3>3. CASE i \in DOMAIN request
            <4>1. /\ request[i].kind = request'[i].kind /\ request'[i].stored = request[i].stored
                  /\ request'[i].undoes = request[i].undoes
                  /\ request'[i].phase = "stored" => request[i].phase = "stored"
                BY <2>2, <3>3 DEF Goes, Waking
            <4>2. /\ ~request[i].stored /\ ~request[i].undoes /\ request[i].phase # "stored"
                  /\ request[i].kind = "patch" => \E j \in 1 .. i - 1 : request[j].kind = "register"
                BY <1>2, <3>3, <4>1 DEF SavesAhead
            <4>3. \A j \in 1 .. i - 1 : j \in 1 .. n - 1
                BY <2>2, <3>3
            <4> QED
                BY <3>1, <4>1, <4>2, <4>3
        <3> QED
            BY <2>2, <3>2, <3>3
    <2>7. RegisterMade'
        <3>1. CASE device.status = "new"
            <4>1. request'[n].kind = "register" /\ n \in DOMAIN request'
                BY <2>2, <2>3, <2>5, <3>1 DEF Saves
            <4> QED
                BY <4>1 DEF RegisterMade
        <3>2. CASE device.status # "new"
            <4>1. PICK j \in 1 .. n - 1 : request[j].kind = "register"
                BY <2>4, <3>2
            <4>2. j \in DOMAIN request' /\ request'[j].kind = "register"
                BY <2>2, <4>1 DEF Goes
            <4> QED
                BY <4>2 DEF RegisterMade
        <3> QED
            BY <3>1, <3>2
    <2>8. undo' = {}
        BY <1>2, <1>3, <2>3, <2>6, NothingToUndo
    <2> QED
        BY <1>4, <2>6, <2>7, <2>8
<1>8. CASE UpdateStep
    <2>1. PICK kind \in Updates : Updated(kind)
        BY <1>8 DEF UpdateStep
    <2> DEFINE n == Len(request) + 1
    <2>2. /\ DOMAIN request' = 1 .. n /\ DOMAIN request = 1 .. n - 1 /\ n \in Nat
          /\ (\A i \in DOMAIN request : request'[i] = request[i])
          /\ request'[n].kind \notin Saves /\ cache' = cache /\ undo' = undo
        BY <1>3, <2>1, SequenceShape DEF Updated, Updates, Saves
    <2> HIDE DEF n
    <2>3. SavesAhead' /\ (RegisterMade => RegisterMade')
        <3>1. \A i \in DOMAIN request' : request'[i].kind \in Saves => i \in DOMAIN request
            BY <2>2
        <3>2. DOMAIN request \subseteq DOMAIN request'
            BY <2>2
        <3> QED
            BY <1>2, <1>3, <2>2, <3>1, <3>2, SavesAheadKept
    <2> QED
        BY <1>2, <1>4, <2>2, <2>3
<1>9. ASSUME NEW i \in DOMAIN request, Written(i)
      PROVE  BeforeRegistration'
    <2>1. /\ DOMAIN request' = DOMAIN request /\ cache' = cache /\ undo' = undo
          /\ \A j \in DOMAIN request : j # i => request'[j] = request[j]
          /\ request'[i].kind = request[i].kind /\ request'[i].undoes = request[i].undoes
        BY <1>9 DEF Written, SameAsking
    <2>2. request[i].kind \in Saves => request'[i].phase = "refused" /\ request'[i].stored = request[i].stored
        BY <1>9, StatusStays DEF Written
    <2>3. SavesAhead' /\ (RegisterMade => RegisterMade')
        BY <1>2, <1>3, <2>1, <2>2, SavesAheadKept
    <2> QED
        BY <1>2, <1>4, <2>1, <2>3
<1>10. ASSUME NEW i \in DOMAIN request, Finished(i)
       PROVE  BeforeRegistration'
    <2>1. /\ DOMAIN request' = DOMAIN request /\ UndoEarned
          /\ \A j \in DOMAIN request : j # i => Goes(request[j], request'[j])
          /\ request'[i].kind = request[i].kind /\ request'[i].undoes = request[i].undoes
          /\ request'[i].stored = request[i].stored /\ request'[i].phase \in Waking \cup {"done"}
        BY <1>10 DEF Finished
    <2>2. \A j \in DOMAIN request :
              /\ request'[j].kind = request[j].kind /\ request'[j].undoes = request[j].undoes
              /\ request'[j].stored = request[j].stored
              /\ request'[j].phase = "stored" => request[j].phase = "stored"
        BY <2>1 DEF Goes, Waking
    <2>3. SavesAhead' /\ (RegisterMade => RegisterMade')
        BY <1>2, <1>3, <2>1, <2>2, SavesAheadKept
    <2>4. undo' = {}
        BY <1>2, <1>3, <2>1, <2>3, NothingToUndo
    <2>5. CASE request[i].kind \in Saves
        <3>1. RegisterMade
            BY <1>2, <1>3, <2>5, RegisterBefore
        <3> QED
            BY <1>4, <2>3, <2>4, <3>1
    <2>6. CASE request[i].kind \notin Saves
        <3>1. \A q \in Keys : Draws(cache[q], cache'[q])
            BY <1>3, <1>10, <2>6 DEF Finished
        <3>2. \A q \in Keys : NewEntry(q, cache[q]) => NewEntry(q, cache'[q])
            BY <3>1, NewDraws
        <3> QED
            BY <1>4, <2>3, <2>4, <3>2
    <2> QED
        BY <2>5, <2>6
<1> QED
    BY <1>1, <1>5, <1>6, <1>7, <1>8, <1>9, <1>10 DEF Kinds
-----------------------------------------------------------------------------
(* The table an update was made in.                                        *)

ToggleRequests(q, kind, page) ==
    /\ (\E i \in DOMAIN request : request[i].kind = kind) => Loaded(cache[q])
    /\ \A i \in DOMAIN request :
          request[i].kind = kind /\ request[i].phase # "done" /\ request[i].watched => view.page = page
ToggleShown(q, kind) ==
    Alone /\ Watched({kind}) /\ NoneLost(kind) =>
        (DataIn(cache[q], {Serve(q)}) /\ FetchIn(cache[q], {Serve(q)})) \/ Dirty(kind)

LEMMA ToggleParts ==
    ASSUME NEW q, NEW kind, NEW page
    PROVE  ToggleOK(q, kind, page) <=> ToggleRequests(q, kind, page) /\ ToggleShown(q, kind)
BY DEF ToggleOK, ToggleRequests, ToggleShown

\* The requests of the kind after a step are those before it, nobody new
\* watches them, an answer that was lost stays lost and one on its way arrives.
SameOfKind(kind) ==
    /\ \A i \in DOMAIN request' : request'[i].kind = kind /\ request'[i].stored =>
          i \in DOMAIN request /\ request[i].kind = kind
    /\ \A i \in DOMAIN request : request[i].kind = kind =>
          /\ i \in DOMAIN request' /\ request'[i].kind = kind
          /\ request'[i].watched => request[i].watched
          /\ request[i].stored => request'[i].stored
          /\ request[i].phase = "stored" <=> request'[i].phase = "stored"
          /\ request'[i].ok => request[i].ok \/ request[i].phase = "stored"

LEMMA ShownStays ==
    ASSUME NEW q, NEW kind, ToggleShown(q, kind), SameOfKind(kind),
           server'.alone => server.alone, Serve(q)' = Serve(q), Draws(cache[q], cache'[q])
    PROVE  ToggleShown(q, kind)'
<1> SUFFICES ASSUME server'.alone, Watched({kind})', NoneLost(kind)'
             PROVE  (DataIn(cache'[q], {Serve(q)'}) /\ FetchIn(cache'[q], {Serve(q)'})) \/ Dirty(kind)'
    BY DEF ToggleShown, Alone
<1>1. Watched({kind})
    BY DEF Watched, SameOfKind
<1>2. NoneLost(kind)
    BY DEF NoneLost, SameOfKind
<1>3. Dirty(kind) => Dirty(kind)'
    BY DEF Dirty, SameOfKind
<1>4. (DataIn(cache[q], {Serve(q)}) /\ FetchIn(cache[q], {Serve(q)})) \/ Dirty(kind)
    BY <1>1, <1>2 DEF ToggleShown, Alone
<1> QED
    BY <1>3, <1>4, DrawsKeeps

LEMMA ToggleKept ==
    ASSUME Typed, Kinds, NEW q \in Query \ DeviceKeys, NEW kind \in Updates, NEW page,
           ToggleOK(q, kind, page),
           view.page = page => q \in Active,
           \A r : r.kind = kind => q \in Refreshed(r),
           UpdateStep => \A k \in Updates : Updated(k) /\ k = kind => Loaded(cache[q]) /\ view.page = page,
           \A i \in DOMAIN request : Written(i) /\ request[i].kind # kind => Serve(q)' = Serve(q),
           server' = server => Serve(q)' = Serve(q)
    PROVE  ToggleOK(q, kind, page)'
<1>1. ToggleRequests(q, kind, page) /\ ToggleShown(q, kind)
    BY ToggleParts
<1>2. kind \notin Saves
    BY DEF Updates, Saves
<1>3. ASSUME ToggleRequests(q, kind, page)', ToggleShown(q, kind)'
      PROVE  ToggleOK(q, kind, page)'
    BY <1>3 DEF ToggleOK, ToggleRequests, ToggleShown
<1>4. CASE Quiet
    <2>1. DOMAIN request' = DOMAIN request /\ (\A i \in DOMAIN request : Goes(request[i], request'[i]))
          /\ server' = server /\ Draws(cache[q], cache'[q]) /\ OnScreen
        BY <1>4 DEF Quiet, Later
    <2>2. SameOfKind(kind)
        BY <2>1 DEF SameOfKind, Goes, Waking
    <2>3. ToggleShown(q, kind)'
        BY <1>1, <2>1, <2>2, ShownStays
    <2>4. ToggleRequests(q, kind, page)'
        <3>1. (\E i \in DOMAIN request' : request'[i].kind = kind) => Loaded(cache'[q])
            BY <1>1, <2>1 DEF ToggleRequests, Goes, Draws
        <3>2. ASSUME NEW i \in DOMAIN request', request'[i].kind = kind, request'[i].phase # "done",
                     request'[i].watched
              PROVE  view'.page = page
            <4>1. request[i].kind = kind /\ request[i].phase # "done" /\ request[i].watched
                BY <2>1, <3>2 DEF Goes, Waking
            <4>2. view'.page = view.page
                BY <2>1, <3>2 DEF OnScreen
            <4> QED
                BY <1>1, <2>1, <4>1, <4>2 DEF ToggleRequests
        <3> QED
            BY <3>1, <3>2 DEF ToggleRequests
    <2> QED
        BY <1>3, <2>3, <2>4
<1>5. ASSUME NEW p \in Query, Reads(p)
      PROVE  ToggleOK(q, kind, page)'
    <2>1. request' = request /\ view' = view /\ server' = server /\ cache'[q].data = cache[q].data
          /\ cache'[q].invalid = cache[q].invalid
          /\ cache'[q].fetch \in {cache[q].fetch, Read(Serve(q))}
        BY <1>5 DEF Reads
    <2>2. ToggleRequests(q, kind, page)'
        BY <1>1, <2>1 DEF ToggleRequests, Loaded
    <2>3. FetchIn(cache[q], {Serve(q)}) => FetchIn(cache'[q], {Serve(q)})
        BY <2>1 DEF FetchIn
    <2>4. DataIn(cache[q], {Serve(q)}) => DataIn(cache'[q], {Serve(q)})
        BY <2>1 DEF DataIn, Loaded
    <2>5. ToggleShown(q, kind)'
        BY <1>1, <2>1, <2>3, <2>4 DEF ToggleShown, Alone, Watched, NoneLost, Dirty
    <2> QED
        BY <1>3, <2>2, <2>5
<1>6. CASE SaveStep
    <2>1. PICK device \in Device, input \in Input, undoes \in BOOLEAN :
              Saved(device, input, undoes) /\ UNCHANGED <<server, view>>
        BY <1>6 DEF SaveStep
    <2> DEFINE n == Len(request) + 1
    <2>2. /\ DOMAIN request' = DOMAIN request \cup {n} /\ cache'[q] = cache[q]
          /\ \A i \in DOMAIN request : Goes(request[i], request'[i])
        BY <2>1, TypedParts, SequenceShape DEF Saved
    <2>3. request'[n].kind # kind
        BY <1>2, <2>1, OptimisticTyped DEF Saved
    <2>4. SameOfKind(kind)
        BY <2>2, <2>3 DEF SameOfKind, Goes, Waking
    <2>5. ToggleShown(q, kind)'
        BY <1>1, <2>1, <2>2, <2>4, DrawsSelf, ShownStays
    <2>6. ToggleRequests(q, kind, page)'
        BY <1>1, <2>1, <2>2, <2>3 DEF ToggleRequests, Goes, Waking
    <2> QED
        BY <1>3, <2>5, <2>6
<1>7. CASE UpdateStep
    <2>1. PICK k \in Updates : Updated(k)
        BY <1>7 DEF UpdateStep
    <2> DEFINE n == Len(request) + 1
    <2>2. /\ DOMAIN request' = DOMAIN request \cup {n} /\ n \notin DOMAIN request
          /\ (\A i \in DOMAIN request : request'[i] = request[i])
          /\ request'[n].kind = k /\ ~request'[n].stored /\ UNCHANGED <<server, cache>>
          /\ view'.page = view.page
        BY <2>1, TypedParts, SequenceShape DEF Updated
    <2> HIDE DEF n
    <2>3. SameOfKind(kind)
        BY <2>2, TypedParts DEF SameOfKind, RequestOK
    <2>4. ToggleShown(q, kind)'
        BY <1>1, <2>2, <2>3, DrawsSelf, ShownStays
    <2>5. k = kind => Loaded(cache[q]) /\ view.page = page
        BY <1>7, <2>1
    <2>6. ToggleRequests(q, kind, page)'
        BY <1>1, <2>2, <2>5 DEF ToggleRequests
    <2> QED
        BY <1>3, <2>4, <2>6
<1>8. ASSUME NEW i \in DOMAIN request, Written(i)
      PROVE  ToggleOK(q, kind, page)'
    <2>1. /\ DOMAIN request' = DOMAIN request /\ cache' = cache /\ view' = view
          /\ \A j \in DOMAIN request : j # i => request'[j] = request[j]
          /\ request'[i].kind = request[i].kind /\ request'[i].watched = request[i].watched
          /\ request[i].phase = "sent"
        BY <1>8 DEF Written, SameAsking
    <2>2. ToggleRequests(q, kind, page)'
        BY <1>1, <2>1 DEF ToggleRequests
    <2>3. CASE request[i].kind = kind
        <3>1. request'[i].phase = "stored"
            BY <1>2, <1>8, <2>3 DEF Written, Saves
        <3>2. Dirty(kind)'
            BY <2>1, <2>3, <3>1 DEF Dirty
        <3> QED
            BY <1>3, <2>2, <3>2 DEF ToggleShown
    <2>4. CASE request[i].kind # kind
        <3>1. Serve(q)' = Serve(q)
            BY <1>8, <2>4
        <3>2. server'.alone => server.alone
            BY <1>8 DEF Written
        <3>3. SameOfKind(kind)
            BY <2>1, <2>4, TypedParts DEF SameOfKind, RequestOK
        <3> QED
            BY <1>1, <1>3, <2>1, <2>2, <3>1, <3>2, <3>3, DrawsSelf, ShownStays
    <2> QED
        BY <2>3, <2>4
<1>9. ASSUME NEW i \in DOMAIN request, Finished(i)
      PROVE  ToggleOK(q, kind, page)'
    <2>1. /\ DOMAIN request' = DOMAIN request /\ server' = server /\ view' = view
          /\ \A j \in DOMAIN request : j # i => Goes(request[j], request'[j])
          /\ request'[i].kind = request[i].kind /\ request'[i].stored = request[i].stored
          /\ (request'[i].watched => request[i].watched)
          /\ request[i].phase \in Waiting /\ request'[i].phase \in Waking \cup {"done"}
          /\ Draws(cache[q], cache'[q])
        BY <1>9 DEF Finished
    <2>2. ToggleRequests(q, kind, page)'
        <3>1. (\E j \in DOMAIN request' : request'[j].kind = kind) => Loaded(cache'[q])
            BY <1>1, <2>1 DEF ToggleRequests, Goes, Draws
        <3>2. ASSUME NEW j \in DOMAIN request', request'[j].kind = kind, request'[j].phase # "done",
                     request'[j].watched
              PROVE  view'.page = page
            <4>1. request[j].kind = kind /\ request[j].phase # "done" /\ request[j].watched
                BY <2>1, <3>2 DEF Goes, Waking, Waiting
            <4> QED
                BY <1>1, <2>1, <4>1 DEF ToggleRequests
        <3> QED
            BY <3>1, <3>2 DEF ToggleRequests
    <2>3. CASE request[i].kind # kind
        <3>1. SameOfKind(kind)
            BY <2>1, <2>3 DEF SameOfKind, Goes, Waking
        <3> QED
            BY <1>1, <1>3, <2>1, <2>2, <3>1, ShownStays
    <2>4. CASE request[i].kind = kind /\ request'[i].ok
        <3> SUFFICES ASSUME Watched({kind})'
                     PROVE  DataIn(cache'[q], {Serve(q)'}) /\ FetchIn(cache'[q], {Serve(q)'})
            BY <1>3, <2>2 DEF ToggleShown
        <3>1. request'[i].watched
            BY <2>1, <2>4 DEF Watched
        <3>2. request[i].watched /\ request[i].phase # "done"
            BY <2>1, <3>1 DEF Waiting
        <3>3. q \in Active /\ Loaded(cache[q])
            BY <1>1, <2>4, <3>2 DEF ToggleRequests
        <3>4. Marked(q, cache[q], cache'[q])
            BY <1>9, <2>4 DEF Finished
        <3> QED
            BY <3>3, <3>4 DEF Marked, DataIn, FetchIn
    <2>5. CASE request[i].kind = kind /\ ~request'[i].ok
        <3> SUFFICES ASSUME NoneLost(kind)'
                     PROVE  ToggleShown(q, kind)'
            BY <1>3, <2>2 DEF ToggleShown
        <3>1. ~request[i].stored
            BY <2>1, <2>5 DEF NoneLost, Waking
        <3>2. request[i].phase # "stored" /\ request'[i].phase # "stored"
            BY <2>1, <3>1, TypedParts DEF RequestOK, Waking
        <3>3. SameOfKind(kind)
            BY <2>1, <2>5, <3>1, <3>2 DEF SameOfKind, Goes, Waking
        <3> QED
            BY <1>1, <2>1, <3>3, ShownStays
    <2> QED
        BY <2>3, <2>4, <2>5
<1>10. CASE Elsewhere
    <2>1. ToggleRequests(q, kind, page)'
        BY <1>1, <1>10 DEF ToggleRequests, Elsewhere
    <2> QED
        BY <1>3, <1>10, <2>1 DEF ToggleShown, Elsewhere, Alone
<1> QED
    BY <1>4, <1>5, <1>6, <1>7, <1>8, <1>9, <1>10 DEF Kinds
LEMMA PageActive ==
    /\ view.page = "global" => "global" \in Active
    /\ view.page = "assignments" => "assign" \in Active
BY DEF Active

LEMMA RefreshedUpdates ==
    ASSUME NEW r
    PROVE  /\ r.kind = "global" => "global" \in Refreshed(r)
           /\ r.kind = "assign" => "assign" \in Refreshed(r)
BY DEF Refreshed

LEMMA ServeTables ==
    /\ Serve("global") = server.global /\ Serve("assign") = server.cap
    /\ Serve("global")' = server'.global /\ Serve("assign")' = server'.cap
BY DEF Serve, Lists

\* An update that starts is of one kind, made where its table is.
LEMMA UpdateHere ==
    ASSUME UpdateStep, NEW k \in Updates, Updated(k)
    PROVE  /\ k = "global" => Loaded(cache["global"]) /\ view.page = "global"
           /\ k = "assign" => Loaded(cache["assign"]) /\ view.page = "assignments"
<1>1. PICK kind \in Updates :
          /\ Updated(kind)
          /\ kind = "global" => Loaded(cache["global"]) /\ view.page = "global"
          /\ kind = "assign" => Loaded(cache["assign"]) /\ view.page = "assignments"
    BY DEF UpdateStep
<1>2. kind = k
    BY <1>1 DEF Updated
<1> QED
    BY <1>1, <1>2

\* What is asked is not changed by a step.
LEMMA AskedBefore ==
    ASSUME Typed, Kinds
    PROVE  \A i \in DOMAIN request : i \in DOMAIN request' /\ request'[i].kind = request[i].kind
<1>1. CASE Quiet
    BY <1>1 DEF Quiet, Later, Goes
<1>2. CASE SaveStep
    <2>1. PICK device \in Device, input \in Input, undoes \in BOOLEAN : Saved(device, input, undoes)
        BY <1>2 DEF SaveStep
    <2>2. DOMAIN request = 1 .. Len(request) /\ Len(request) \in Nat
        BY TypedParts, SequenceShape
    <2> QED
        BY <2>1, <2>2 DEF Saved, Goes
<1>3. CASE UpdateStep
    BY <1>3 DEF UpdateStep, Updated
<1>4. ASSUME NEW i \in DOMAIN request, Written(i)
      PROVE  \A j \in DOMAIN request : j \in DOMAIN request' /\ request'[j].kind = request[j].kind
    BY <1>4 DEF Written, SameAsking
<1>5. ASSUME NEW i \in DOMAIN request, Finished(i)
      PROVE  \A j \in DOMAIN request : j \in DOMAIN request' /\ request'[j].kind = request[j].kind
    <2>1. \A j \in DOMAIN request : j # i => request'[j].kind = request[j].kind
        BY <1>5 DEF Finished, Goes
    <2> QED
        BY <1>5, <2>1 DEF Finished
<1> QED
    BY <1>1, <1>2, <1>3, <1>4, <1>5 DEF Kinds, Reads, Elsewhere

LEMMA TogglesKept ==
    ASSUME Typed, Kinds, TogglesOK
    PROVE  TogglesOK'
<1>1. ToggleOK("global", "global", "global")'
    <2> DEFINE q == "global"
    <2>1. q \in Query \ DeviceKeys /\ q \in Updates /\ ToggleOK(q, q, q)
        BY QueryKeys DEF Updates, TogglesOK
    <2>2. \A r : r.kind = q => q \in Refreshed(r)
        BY RefreshedUpdates
    <2>3. UpdateStep => \A k \in Updates : Updated(k) /\ k = q => Loaded(cache[q]) /\ view.page = q
        BY UpdateHere
    <2>4. ASSUME NEW i \in DOMAIN request, Written(i), request[i].kind # q
          PROVE  Serve(q)' = Serve(q)
        <3>1. request[i].kind \in Saves \cup {"row", "byDevice", "assign"}
            BY <2>4, TypedParts DEF RequestOK
        <3>2. server'.global = server.global
            BY <2>4, <3>1 DEF Written
        <3> QED
            BY <3>2, ServeTables
    <2>5. server' = server => Serve(q)' = Serve(q)
        BY ServeTables
    <2>6. view.page = q => q \in Active
        BY PageActive
    <2> HIDE DEF q
    <2>7. ToggleOK(q, q, q)'
        BY <2>1, <2>2, <2>3, <2>4, <2>5, <2>6, ToggleKept
    <2> QED
        BY <2>7 DEF q
<1>2. ASSUME OnlyTable'
      PROVE  ToggleOK("assign", "assign", "assignments")'
    <2> DEFINE q == "assign"
               page == "assignments"
    <2>0. OnlyTable
        BY <1>2, AskedBefore DEF OnlyTable
    <2>1. q \in Query \ DeviceKeys /\ q \in Updates /\ ToggleOK(q, q, page)
        BY <2>0, QueryKeys DEF Updates, TogglesOK
    <2>2. \A r : r.kind = q => q \in Refreshed(r)
        BY RefreshedUpdates
    <2>3. UpdateStep => \A k \in Updates : Updated(k) /\ k = q => Loaded(cache[q]) /\ view.page = page
        BY UpdateHere
    <2>4. ASSUME NEW i \in DOMAIN request, Written(i), request[i].kind # q
          PROVE  Serve(q)' = Serve(q)
        <3>1. request[i].kind \in Saves \cup {"global"}
            BY <2>0, <2>4, TypedParts DEF RequestOK, OnlyTable
        <3>2. server'.cap = server.cap
            BY <2>4, <3>1 DEF Written
        <3> QED
            BY <3>2, ServeTables
    <2>5. server' = server => Serve(q)' = Serve(q)
        BY ServeTables
    <2>6. view.page = page => q \in Active
        BY PageActive
    <2> HIDE DEF q, page
    <2>7. ToggleOK(q, q, page)'
        BY <2>1, <2>2, <2>3, <2>4, <2>5, <2>6, ToggleKept
    <2> QED
        BY <2>7 DEF q, page
<1> QED
    BY <1>1, <1>2 DEF TogglesOK
-----------------------------------------------------------------------------
(* The detail after saves.                                                 *)

LEMMA SavesKept ==
    ASSUME Typed, SavesOK, Kinds
    PROVE  SavesOK'
<1> DEFINE d == "detail"
           Good(e, v) == DataIn(e, {v}) /\ FetchIn(e, {v})
           First == (\E i \in DOMAIN request : request[i].kind \in Saves) => Loaded(cache["detail"])
           Second == Busy => IF view.page = "devices" THEN view.tab # None ELSE cache["detail"].fetch = Idle
           Third == Alone /\ Watched(Saves) =>
                        (DataIn(cache["detail"], {server.device}) /\ FetchIn(cache["detail"], {server.device}))
                        \/ Pending
<1>1. First /\ Second /\ Third
    BY DEF SavesOK
<1>2. ASSUME First', Second', Third'
      PROVE  SavesOK'
    BY <1>2 DEF SavesOK
<1>3. d \in Query /\ d \in DeviceKeys
    BY QueryKeys
<1>4. CASE Quiet
    <2>1. DOMAIN request' = DOMAIN request /\ (\A i \in DOMAIN request : Goes(request[i], request'[i]))
          /\ server' = server /\ Draws(cache[d], cache'[d]) /\ OnScreen
        BY <1>3, <1>4 DEF Quiet, Later
    <2>2. First'
        BY <1>1, <2>1 DEF Goes, Draws
    <2>3. Second'
        <3> SUFFICES ASSUME Busy'
                     PROVE  IF view'.page = "devices" THEN view'.tab # None ELSE cache'[d].fetch = Idle
            OBVIOUS
        <3>1. PICK i \in DOMAIN request' :
                  request'[i].kind \in Saves /\ request'[i].phase \in Waiting /\ request'[i].watched
            BY DEF Busy
        <3>2. request[i].kind \in Saves /\ request[i].phase \in Waiting /\ request[i].watched
            BY <2>1, <3>1 DEF Goes, Waking, Waiting
        <3>3. Busy
            BY <2>1, <3>2 DEF Busy
        <3>4. view'.page = view.page /\ (view' = view \/ Watching(view'))
            BY <2>1, <3>1 DEF OnScreen, Waiting
        <3>5. cache'[d].fetch # Idle => cache[d].fetch # Idle \/ view'.page = "devices"
            BY <2>1 DEF OnScreen
        <3> QED
            BY <1>1, <3>3, <3>4, <3>5 DEF Watching
    <2>4. Third'
        <3>1. Pending => Pending'
            BY <2>1, PendingStays
        <3>2. Watched(Saves)' => Watched(Saves)
            BY <2>1 DEF Watched, Goes
        <3> QED
            BY <1>1, <2>1, <3>1, <3>2, DrawsKeeps DEF Alone
    <2> QED
        BY <1>2, <2>2, <2>3, <2>4
<1>5. ASSUME NEW p \in Query, Reads(p)
      PROVE  SavesOK'
    <2>1. /\ request' = request /\ view' = view /\ server' = server
          /\ cache'[d].data = cache[d].data /\ cache'[d].invalid = cache[d].invalid
          /\ cache'[d].fetch = cache[d].fetch \/ (cache[d].fetch = Sent /\ cache'[d].fetch = Read(Serve(d)))
        BY <1>3, <1>5 DEF Reads
    <2>2. First'
        BY <1>1, <2>1 DEF Loaded
    <2>3. Second'
        BY <1>1, <2>1, IdleIsNotSent DEF Busy
    <2>4. Serve(d) = server.device
        BY DEF Serve, Lists
    <2>5. FetchIn(cache[d], {server.device}) => FetchIn(cache'[d], {server.device})
        BY <2>1, <2>4 DEF FetchIn
    <2>6. DataIn(cache[d], {server.device}) => DataIn(cache'[d], {server.device})
        BY <2>1 DEF DataIn, Loaded
    <2>7. Third'
        BY <1>1, <2>1, <2>5, <2>6 DEF Alone, Watched, Pending
    <2> QED
        BY <1>2, <2>2, <2>3, <2>7
<1>6. CASE SaveStep
    <2>1. PICK device \in Device, input \in Input, undoes \in BOOLEAN :
              Saved(device, input, undoes) /\ UNCHANGED <<server, view>>
        BY <1>6 DEF SaveStep
    <2> DEFINE n == Len(request) + 1
    <2>2. /\ DOMAIN request' = DOMAIN request \cup {n}
          /\ (\A i \in DOMAIN request : Goes(request[i], request'[i]))
          /\ request'[n].kind \in Saves /\ request'[n].phase = "sent" /\ request'[n].watched = Watching(view)
          /\ cache'[d].data = Optimistic(device, input)
          /\ cache'[d].fetch = Idle \/ (d \in Active /\ cache'[d].fetch = Sent)
        BY <2>1, TypedParts, SequenceShape, OptimisticTyped DEF Saved
    <2> HIDE DEF n
    <2>3. First'
        <3>1. Optimistic(device, input) \in Device /\ None \notin Value(d)
            BY <1>3, OptimisticTyped, NoneIsNoValue
        <3>2. Value(d) = Device
            BY DEF Value, Lists
        <3> QED
            BY <2>2, <3>1, <3>2 DEF Loaded
    <2>4. Second'
        <3> SUFFICES ASSUME Busy'
                     PROVE  IF view.page = "devices" THEN view.tab # None ELSE cache'[d].fetch = Idle
            BY <2>1
        <3>1. view.page # "devices" => cache'[d].fetch = Idle
            BY <2>2, ActiveDetail
        <3>2. PICK i \in DOMAIN request' :
                  request'[i].kind \in Saves /\ request'[i].phase \in Waiting /\ request'[i].watched
            BY DEF Busy
        <3>3. CASE i = n
            BY <2>2, <3>1, <3>2, <3>3 DEF Watching
        <3>4. CASE i \in DOMAIN request
            <4>1. Busy
                BY <2>2, <3>2, <3>4 DEF Busy, Goes, Waking, Waiting
            <4> QED
                BY <1>1, <3>1, <4>1
        <3> QED
            BY <2>2, <3>3, <3>4
    <2>5. Pending'
        BY <2>2 DEF Pending, Waiting
    <2> QED
        BY <1>2, <2>3, <2>4, <2>5
<1>7. CASE UpdateStep
    <2>1. PICK k \in Updates : Updated(k)
        BY <1>7 DEF UpdateStep
    <2> DEFINE n == Len(request) + 1
    <2>2. /\ DOMAIN request' = DOMAIN request \cup {n}
          /\ (\A i \in DOMAIN request : request'[i] = request[i])
          /\ request'[n].kind \notin Saves /\ UNCHANGED <<server, cache>>
          /\ view'.page = view.page /\ view'.tab = view.tab
        BY <2>1, TypedParts, SequenceShape DEF Updated, Updates, Saves
    <2> HIDE DEF n
    <2>3. First'
        BY <1>1, <2>2
    <2>4. Second'
        BY <1>1, <2>2 DEF Busy
    <2>5. Third'
        BY <1>1, <2>2 DEF Alone, Watched, Pending
    <2> QED
        BY <1>2, <2>3, <2>4, <2>5
<1>8. ASSUME NEW i \in DOMAIN request, Written(i)
      PROVE  SavesOK'
    <2>1. /\ DOMAIN request' = DOMAIN request /\ cache' = cache /\ view' = view
          /\ \A j \in DOMAIN request : j # i => request'[j] = request[j]
          /\ request'[i].kind = request[i].kind /\ request'[i].watched = request[i].watched
          /\ request[i].phase \in Waiting /\ request'[i].phase \in Waiting
          /\ (server'.alone => server.alone)
        BY <1>8 DEF Written, SameAsking, Waiting
    <2>2. First'
        BY <1>1, <2>1
    <2>3. Second'
        BY <1>1, <2>1 DEF Busy
    <2>4. Third'
        <3>1. CASE request[i].kind \in Saves
            BY <2>1, <3>1 DEF Pending
        <3>2. CASE request[i].kind \notin Saves
            <4>1. server'.device = server.device
                BY <1>8, <3>2 DEF Written
            <4>2. Watched(Saves)' => Watched(Saves)
                BY <2>1 DEF Watched
            <4>3. Pending => Pending'
                BY <2>1 DEF Pending
            <4> QED
                BY <1>1, <2>1, <4>1, <4>2, <4>3 DEF Alone
        <3> QED
            BY <3>1, <3>2
    <2> QED
        BY <1>2, <2>2, <2>3, <2>4
<1>9. ASSUME NEW i \in DOMAIN request, Finished(i)
      PROVE  SavesOK'
    <2>1. /\ DOMAIN request' = DOMAIN request /\ server' = server /\ view' = view
          /\ \A j \in DOMAIN request : j # i => Goes(request[j], request'[j])
          /\ request'[i].kind = request[i].kind /\ (request'[i].watched => request[i].watched)
          /\ request[i].phase \in Waiting /\ request'[i].phase \in Waking \cup {"done"}
        BY <1>9 DEF Finished
    <2>2. /\ cache'[d].fetch = cache[d].fetch \/ (d \in Active /\ cache'[d].fetch = Sent)
          /\ Loaded(cache[d]) => Loaded(cache'[d])
        BY <1>3, <1>9 DEF Finished
    <2>3. \A j \in DOMAIN request :
              request'[j].kind = request[j].kind /\ (request'[j].watched => request[j].watched)
              /\ (request'[j].phase \in Waiting => request[j].phase \in Waiting)
        BY <2>1 DEF Goes, Waiting, Waking
    <2>4. First'
        BY <1>1, <2>1, <2>2, <2>3
    <2>5. Second'
        <3> SUFFICES ASSUME Busy'
                     PROVE  IF view.page = "devices" THEN view.tab # None ELSE cache'[d].fetch = Idle
            BY <2>1
        <3>1. Busy
            BY <2>1, <2>3 DEF Busy
        <3> QED
            BY <1>1, <2>2, <3>1, ActiveDetail
    <2>6. Watched(Saves)' => Watched(Saves) /\ (request[i].kind \in Saves => request[i].watched)
        BY <2>1, <2>3 DEF Watched
    <2>7. CASE request[i].kind \in Saves
        <3> SUFFICES ASSUME Watched(Saves)'
                     PROVE  Good(cache'[d], server.device)
            BY <1>2, <2>1, <2>4, <2>5
        <3>1. Marked(d, cache[d], cache'[d])
            BY <1>3, <1>9, <2>7 DEF Finished
        <3>2. Busy /\ Loaded(cache[d])
            BY <1>1, <2>1, <2>6, <2>7 DEF Busy
        <3>3. cache'[d].fetch \in {Idle, Sent}
            BY <1>1, <3>1, <3>2, ActiveDetail DEF Marked
        <3> QED
            BY <3>1, <3>3 DEF Marked, DataIn, FetchIn
    <2>8. CASE request[i].kind \notin Saves
        <3>1. Draws(cache[d], cache'[d])
            BY <1>3, <1>9, <2>8 DEF Finished
        <3>2. Pending => Pending'
            BY <2>1, <2>8, PendingStays
        <3>3. Third'
            BY <1>1, <2>1, <2>6, <3>1, <3>2, DrawsKeeps DEF Alone
        <3> QED
            BY <1>2, <2>4, <2>5, <3>3
    <2> QED
        BY <2>7, <2>8
<1>10. CASE Elsewhere
    <2>1. UNCHANGED <<cache, request, undo, view>> /\ ~server'.alone
        BY <1>10 DEF Elsewhere
    <2>2. First' /\ Second'
        BY <1>1, <2>1 DEF Busy
    <2> QED
        BY <1>2, <2>1, <2>2 DEF Alone
<1> QED
    BY <1>4, <1>5, <1>6, <1>7, <1>8, <1>9, <1>10 DEF Kinds
-----------------------------------------------------------------------------
(* The theorems.                                                           *)

LEMMA NextIInv == IInv /\ [Next]_vars => IInv'
<1> SUFFICES ASSUME IInv, [Next]_vars
             PROVE  IInv'
    OBVIOUS
<1>1. Typed /\ PhantomsExplained /\ RefusalsAhead /\ TogglesOK /\ SavesOK
    BY DEF IInv
<1>2. Kinds /\ Bounded
    BY <1>1, NextKinds
<1>3. Typed'
    BY <1>1, <1>2, TypedKept
<1>4. PhantomsExplained'
    BY <1>1, <1>2, PhantomsKept
<1>5. RefusalsAhead'
    BY <1>1, <1>2, <1>3, RefusalsKept
<1>6. TogglesOK'
    BY <1>1, <1>2, TogglesKept
<1>7. SavesOK'
    BY <1>1, <1>2, SavesKept
<1> QED
    BY <1>3, <1>4, <1>5, <1>6, <1>7 DEF IInv

LEMMA Inductive == Spec => []IInv
BY InitIInv, NextIInv, PTL DEF Spec

\* The entries of the cache hold answers to their queries, what the server
\* holds and Undo brings back are devices, and requests wait for queries only.
THEOREM TypeCorrect == Spec => []TypeOK
<1>1. IInv => TypeOK
    BY DEF IInv, Typed
<1> QED
    BY <1>1, Inductive, PTL

LEMMA OverIsQuiet == Over(Saves) => ~Pending
BY DEF Over, Pending, Waiting

\* After the saves and Undos somebody watched, a detail that nothing marks as
\* out of date is the row the server holds, whichever of them failed,
\* overlapped or overtook another (useRegisterDevice.ts 117-147).
THEOREM SavesAreShown == Spec => []SavesShown
<1>1. ASSUME IInv
      PROVE  SavesShown
    <2> SUFFICES ASSUME Alone, Over(Saves), Watched(Saves), Settled(cache["detail"])
                 PROVE  cache["detail"].data = server.device
        BY DEF SavesShown
    <2>1. DataIn(cache["detail"], {server.device})
        BY <1>1, OverIsQuiet DEF IInv, SavesOK
    <2> QED
        BY <2>1 DEF DataIn, Settled
<1> QED
    BY <1>1, Inductive, PTL

\* Once the saves are over, a list that nothing marks as out of date shows rows
\* the server has held, and the list of new devices only new ones: no optimistic
\* row outlives its save (optimisticDeviceUpdate.ts, the roll-back of onError).
THEOREM PhantomsAreGone == Spec => []NoPhantomDevice
<1>1. ASSUME IInv
      PROVE  NoPhantomDevice
    <2> SUFFICES ASSUME Over(Saves), NEW l \in Lists, Settled(cache[l])
                 PROVE  /\ cache[l].data \subseteq server.past
                        /\ l = "new" => \A d \in cache[l].data : d.status = "new"
        BY DEF NoPhantomDevice
    <2>1. DataIn(cache[l], Held(l))
        BY <1>1, OverIsQuiet DEF IInv, PhantomsExplained
    <2>2. cache[l].data \in Held(l)
        BY <2>1 DEF DataIn, Settled
    <2> QED
        BY <2>2 DEF Held
<1> QED
    BY <1>1, Inductive, PTL

\* After answered capability updates the table they were made in shows what
\* the server holds (useAssignments.ts 27-36, useGlobalCapabilities.ts 28-35).
THEOREM TogglesAreShown == Spec => []TogglesShown
<1>1. ASSUME IInv
      PROVE  TogglesShown
    <2>1. ASSUME NEW q, NEW kind, NEW page, ToggleOK(q, kind, page)
          PROVE  Shows(q, {kind})
        <3> SUFFICES ASSUME Alone, Over({kind}), Watched({kind}), Settled(cache[q]),
                            \A i \in DOMAIN request :
                                request[i].kind \in {kind} /\ request[i].stored => request[i].ok
                     PROVE  cache[q].data = Serve(q)
            BY DEF Shows
        <3>1. NoneLost(kind) /\ ~Dirty(kind)
            BY DEF NoneLost, Dirty, Over
        <3>2. DataIn(cache[q], {Serve(q)})
            BY <2>1, <3>1 DEF ToggleOK
        <3> QED
            BY <3>2 DEF DataIn, Settled
    <2>2. ToggleOK("global", "global", "global") /\ (OnlyTable => ToggleOK("assign", "assign", "assignments"))
        BY <1>1 DEF IInv, TogglesOK
    <2>3. Shows("global", {"global"})
        BY <2>1, <2>2
    <2>4. OnlyTable => Shows("assign", {"assign"})
        BY <2>1, <2>2
    <2> QED
        BY <2>3, <2>4 DEF TogglesShown, OnlyTable
<1> QED
    BY <1>1, Inductive, PTL

\* The server refuses a PATCH only because a registration the user saw as done
\* had not reached it, and it never refuses an Undo.
THEOREM RefusalsAreExplained == Spec => RefusalsExplained
<1> DEFINE Explained(i) ==
        request'[i].phase = "refused" /\ request[i].phase = "sent" =>
            /\ ~request[i].undoes
            /\ \E j \in 1..(i - 1) : request[j].kind = "register" /\ ~request[j].stored
           Step_ == \A i \in DOMAIN request : Explained(i)
<1>1. ASSUME IInv, [Next]_vars
      PROVE  [Step_]_vars
    <2>1. Typed /\ RefusalsAhead /\ Kinds
        BY <1>1, NextKinds DEF IInv
    <2> SUFFICES ASSUME NEW i \in DOMAIN request, request'[i].phase = "refused", request[i].phase = "sent"
                 PROVE  /\ ~request[i].undoes
                        /\ \E j \in 1..(i - 1) : request[j].kind = "register" /\ ~request[j].stored
        OBVIOUS
    <2>2. \A t : ~(Goes(request[i], t) /\ request'[i] = t)
        BY DEF Goes, Waking
    <2>3. PICK k \in DOMAIN request : Written(k)
        <3>1. ~Quiet
            BY <2>2 DEF Quiet, Later
        <3>2. ~SaveStep
            BY <2>2 DEF SaveStep, Saved
        <3>3. ~UpdateStep
            BY DEF UpdateStep, Updated
        <3>4. ASSUME NEW k \in DOMAIN request, Finished(k)
              PROVE  FALSE
            <4>1. k = i
                BY <2>2, <3>4 DEF Finished
            <4> QED
                BY <3>4, <4>1 DEF Finished, Waking
        <3> QED
            BY <2>1, <3>1, <3>2, <3>3, <3>4 DEF Kinds, Reads, Elsewhere
    <2>4. k = i
        BY <2>3 DEF Written
    <2>5. request[i].kind = "patch" /\ server.device.status = "new"
        BY <2>3, <2>4 DEF Written
    <2>6. SavesAhead
        BY <2>1, <2>5, BeforeParts DEF RefusalsAhead
    <2>7. ~request[i].undoes /\ \E j \in 1 .. i - 1 : request[j].kind = "register"
        BY <2>5, <2>6 DEF SavesAhead, Saves
    <2>8. \A j \in 1 .. i - 1 : j \in DOMAIN request
        BY TypedParts, <2>1, SequenceShape
    <2>9. \A j \in DOMAIN request : request[j].kind = "register" => ~request[j].stored
        BY <2>6 DEF SavesAhead, Saves
    <2> QED
        BY <2>7, <2>8, <2>9
<1> QED
    BY <1>1, Inductive, PTL DEF Spec, RefusalsExplained
=============================================================================
