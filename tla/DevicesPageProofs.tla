-------------------------- MODULE DevicesPageProofs --------------------------
(***************************************************************************)
(* The Devices page, for any texts, devices, filters, views, page size and *)
(* bounds: the search follows the box, the open page exists and moves only *)
(* for a reason, saved views persist.                                      *)
(***************************************************************************)
EXTENDS DevicesPage, FiniteSetTheorems, SequenceTheorems, TLAPS

(***************************************************************************)
(* Counting: the elements of a finite, totally ordered set have the ranks  *)
(* 0, 1, ... without a gap.                                                *)
(***************************************************************************)
TotalOrder(R, M) ==
    /\ \A x \in M : <<x, x>> \notin R
    /\ \A x, y \in M : x # y => <<x, y>> \in R \/ <<y, x>> \in R
    /\ \A x, y, z \in M : <<x, y>> \in R /\ <<y, z>> \in R => <<x, z>> \in R
Below(x, R, M) == {y \in M : <<y, x>> \in R}

LEMMA RankBound ==
    ASSUME NEW M, IsFiniteSet(M), NEW R, TotalOrder(R, M), NEW x \in M
    PROVE  /\ IsFiniteSet(Below(x, R, M))
           /\ Cardinality(Below(x, R, M)) \in 0 .. Cardinality(M) - 1
<1>1. Below(x, R, M) \in SUBSET (M \ {x})
  BY DEF Below, TotalOrder
<1>2. /\ IsFiniteSet(M \ {x}) /\ Cardinality(M \ {x}) = Cardinality(M) - 1
  BY FS_RemoveElement
<1>3. /\ IsFiniteSet(Below(x, R, M))
      /\ Cardinality(Below(x, R, M)) <= Cardinality(M) - 1
  BY <1>1, <1>2, FS_Subset
<1>4. Cardinality(Below(x, R, M)) \in Nat /\ Cardinality(M) \in Nat
  BY <1>3, FS_CardinalityType
<1> QED
  BY <1>3, <1>4

LEMMA RankIncreases ==
    ASSUME NEW M, IsFiniteSet(M), NEW R, TotalOrder(R, M), NEW x \in M, NEW y \in M, <<x, y>> \in R
    PROVE  Cardinality(Below(x, R, M)) < Cardinality(Below(y, R, M))
<1>1. Below(x, R, M) \in SUBSET Below(y, R, M)
  BY DEF Below, TotalOrder
<1>2. Below(x, R, M) # Below(y, R, M)
  BY DEF Below, TotalOrder
<1>3. /\ Cardinality(Below(x, R, M)) <= Cardinality(Below(y, R, M))
      /\ Cardinality(Below(x, R, M)) # Cardinality(Below(y, R, M))
  BY <1>1, <1>2, RankBound, FS_Subset
<1>4. Cardinality(Below(x, R, M)) \in Nat /\ Cardinality(Below(y, R, M)) \in Nat
  BY RankBound, FS_CardinalityType
<1> QED
  BY <1>3, <1>4

LEMMA EveryRankTaken ==
    ASSUME NEW M, IsFiniteSet(M), NEW R, TotalOrder(R, M), NEW k \in 0 .. Cardinality(M) - 1
    PROVE  \E x \in M : Cardinality(Below(x, R, M)) = k
<1> DEFINE N == 0 .. Cardinality(M) - 1
           f == [x \in M |-> Cardinality(Below(x, R, M))]
<1>1. f \in [M -> N]
  BY RankBound
<1>2. \A x, y \in M : x # y => f[x] # f[y]
  <2> SUFFICES ASSUME NEW x \in M, NEW y \in M, x # y PROVE f[x] # f[y]
    OBVIOUS
  <2>1. f[x] < f[y] \/ f[y] < f[x]
    BY RankIncreases DEF TotalOrder
  <2>2. f[x] \in Nat /\ f[y] \in Nat
    BY <1>1
  <2> QED
    BY <2>1, <2>2
<1>3. f \in Injection(M, N)
  <2> HIDE DEF f
  <2> QED
    BY <1>1, <1>2 DEF Injection, IsInjective
<1>4. /\ IsFiniteSet(N) /\ Cardinality(N) = Cardinality(M)
  <2>1. Cardinality(M) \in Nat
    BY FS_CardinalityType
  <2> QED
    BY <2>1, FS_Interval
<1>5. f \in Surjection(M, N)
  <2> HIDE DEF f, N
  <2> QED
    BY <1>3, <1>4, FS_Injection
<1> QED
  BY <1>5 DEF Surjection

-----------------------------------------------------------------------------
(***************************************************************************)
(* The rows of a page of the table.                                        *)
(***************************************************************************)

\* A list the server may answer with, or the page may show.
IsList(l) == l \subseteq Device /\ IsFiniteSet(l) /\ \A d, e \in l : d.mac = e.mac => d = e

LEMMA EmptyList == IsList({})
BY FS_EmptySet DEF IsList

LEMMA SubList ==
    ASSUME NEW l, IsList(l), NEW m \in SUBSET l
    PROVE  IsList(m)
BY FS_Subset DEF IsList

LEMMA FilteredList ==
    ASSUME NEW l, IsList(l), NEW p
    PROVE  IsList(filteredDevices(p, l))
<1>1. filteredDevices(p, l) \in SUBSET l
  BY DEF filteredDevices
<1> QED
  BY <1>1, SubList

LEMMA ListSize ==
    ASSUME NEW l, IsList(l)
    PROVE  Cardinality(l) \in Nat /\ (Cardinality(l) = 0 <=> l = {})
BY FS_CardinalityType, FS_EmptySet DEF IsList

\* The table's order: by the column, then by MAC.
Earlier(l, sort) == {ab \in l \X l : Before(ab[1], ab[2], sort)}

LEMMA DeviceOrdered ==
    ASSUME NEW d \in Device, NEW sort \in Sorting
    PROVE  d.mac \in Nat /\ d.order[sort.id] \in Nat /\ sort.desc \in BOOLEAN
BY MacAssumption DEF Device, Sorting

LEMMA RowsOrdered ==
    ASSUME NEW l, IsList(l), NEW sort \in Sorting
    PROVE  TotalOrder(Earlier(l, sort), l)
<1>1. \A d \in l : d.mac \in Nat /\ d.order[sort.id] \in Nat /\ sort.desc \in BOOLEAN
  BY DeviceOrdered DEF IsList
<1>2. \A d, e \in l : <<d, e>> \in Earlier(l, sort) <=> Before(d, e, sort)
  BY DEF Earlier
<1>3. \A d \in l : ~Before(d, d, sort)
  BY <1>1 DEF Before
<1>4. \A d, e \in l : d # e => Before(d, e, sort) \/ Before(e, d, sort)
  <2> SUFFICES ASSUME NEW d \in l, NEW e \in l, d # e
               PROVE  Before(d, e, sort) \/ Before(e, d, sort)
    OBVIOUS
  <2>1. d.mac # e.mac
    BY DEF IsList
  <2> QED
    BY <1>1, <2>1 DEF Before
<1>5. \A d, e, g \in l : Before(d, e, sort) /\ Before(e, g, sort) => Before(d, g, sort)
  <2> SUFFICES ASSUME NEW d \in l, NEW e \in l, NEW g \in l,
                      Before(d, e, sort), Before(e, g, sort)
               PROVE  Before(d, g, sort)
    OBVIOUS
  <2>1. /\ d.mac \in Nat /\ e.mac \in Nat /\ g.mac \in Nat
        /\ d.order[sort.id] \in Nat /\ e.order[sort.id] \in Nat /\ g.order[sort.id] \in Nat
    BY <1>1
  <2>2. CASE sort.desc
    BY <2>1, <2>2 DEF Before
  <2>3. CASE ~sort.desc
    BY <2>1, <2>3 DEF Before
  <2> QED
    BY <2>2, <2>3
<1> QED
  BY <1>2, <1>3, <1>4, <1>5 DEF TotalOrder

LEMMA LastPage ==
    ASSUME NEW n \in Nat
    PROVE  /\ maxPageIndex(n) \in Nat
           /\ n # 0 => \A i \in 0 .. maxPageIndex(n) :
                i * PageSize \in 0 .. n - 1 /\ (i * PageSize) \div PageSize = i
<1>1. PageSize \in Nat /\ PageSize > 0
  BY PageSizeAssumption
<1>2. CASE n = 0
  BY <1>2 DEF maxPageIndex
<1>3. CASE n # 0
  <2>1. (n - 1) \div PageSize \in Nat /\ PageSize * ((n - 1) \div PageSize) <= n - 1
    BY <1>1, <1>3
  <2> DEFINE max == (n - 1) \div PageSize
  <2>2. maxPageIndex(n) = max
    BY <1>3 DEF maxPageIndex
  <2> HIDE DEF max
  <2>3. ASSUME NEW i \in 0 .. max
        PROVE  i * PageSize \in 0 .. n - 1 /\ (i * PageSize) \div PageSize = i
    <3>1. max \in Nat /\ PageSize * max <= n - 1
      BY <2>1 DEF max
    <3>2. i * PageSize <= max * PageSize /\ i * PageSize \in Nat
      BY <1>1, <3>1
    <3>3. (i * PageSize) \div PageSize = i
      BY <1>1
    <3> QED
      BY <1>1, <3>1, <3>2, <3>3
  <2> QED
    BY <2>1, <2>2, <2>3 DEF max
<1> QED
  BY <1>2, <1>3

\* A page of the table up to the last one has rows: rows() has an element for
\* every index up to maxPageIndex.
LEMMA PageHasRows ==
    ASSUME NEW p, NEW l, IsList(l), p.sort \in Sorting, filteredDevices(p, l) # {},
           p.index \in 0 .. maxPageIndex(Cardinality(filteredDevices(p, l)))
    PROVE  rows(p, l) # {}
<1> DEFINE m == filteredDevices(p, l)
           R == Earlier(m, p.sort)
           n == Cardinality(m)
           first == p.index * PageSize
<1>1. IsList(m) /\ n \in Nat /\ n # 0
  BY FilteredList, ListSize
<1>2. first \in 0 .. n - 1 /\ first \div PageSize = p.index
  <2> HIDE DEF m, n
  <2>1. p.index \in 0 .. maxPageIndex(n)
    BY DEF m, n
  <2> QED
    BY <1>1, <2>1, LastPage
<1>3. PICK d \in m : Cardinality(Below(d, R, m)) = first
  <2> HIDE DEF first
  <2>1. IsFiniteSet(m) /\ TotalOrder(R, m)
    BY <1>1, RowsOrdered DEF IsList
  <2> HIDE DEF R, m
  <2> QED
    BY <1>2, <2>1, EveryRankTaken DEF n
<1>4. Below(d, R, m) = {e \in m : Before(e, d, p.sort)}
  BY DEF Below, Earlier
<1>5. d \in rows(p, l)
  <2>1. Cardinality({e \in m : Before(e, d, p.sort)}) \div PageSize = p.index
    <3> HIDE DEF R, first
    <3> QED
      BY <1>2, <1>3, <1>4
  <2> QED
    BY <2>1 DEF rows
<1> QED
  BY <1>5

-----------------------------------------------------------------------------
(***************************************************************************)
(* The state of the page's hooks.                                          *)
(***************************************************************************)

\* A timer only ever runs for the text in the box, so when it fires, or when
\* there is none, the text searched for is that one.
PageOK(p) ==
    /\ p \in Page
    /\ p.timers \subseteq {p.query}
    /\ p.timers = {} => p.debounced = p.query

InRange(p, l) == p.index \in 0 .. maxPageIndex(Cardinality(filteredDevices(p, l)))

LEMMA FreshOK == PageOK(Fresh) /\ Fresh.index = 0
<1>1. NoQuery \in Query /\ NoFacets \in Facets
  BY DEF NoQuery, Query, NoFacets, Facets, FacetKind
<1> QED
  BY <1>1 DEF Fresh, PageOK, Page, RegistrationScope, OnlineScope, Sorting, Column

LEMMA KeyOK ==
    ASSUME NEW p \in Page
    PROVE  KeyOf(p) \in Key
BY DEF Page, KeyOf, Key, trim, Query

LEMMA MaxIndexOK ==
    ASSUME NEW l, IsList(l), NEW p
    PROVE  maxPageIndex(Cardinality(filteredDevices(p, l))) \in Nat
BY FilteredList, ListSize, LastPage

\* What is shown does not depend on the page number.
LEMMA IndexOnly ==
    ASSUME NEW p \in Page, NEW i \in Nat, NEW l
    PROVE  /\ [p EXCEPT !.index = i] \in Page
           /\ [p EXCEPT !.index = i].index = i
           /\ Filters([p EXCEPT !.index = i]) = Filters(p)
           /\ KeyOf([p EXCEPT !.index = i]) = KeyOf(p)
           /\ filteredDevices([p EXCEPT !.index = i], l) = filteredDevices(p, l)
           /\ PageOK(p) => PageOK([p EXCEPT !.index = i])
<1> DEFINE q == [p EXCEPT !.index = i]
<1>1. q \in Page /\ q.index = i
  BY DEF Page
<1>2. /\ q.query = p.query /\ q.debounced = p.debounced /\ q.timers = p.timers
      /\ q.segmentation = p.segmentation /\ q.online = p.online /\ q.facets = p.facets
      /\ q.paused = p.paused
  BY DEF Page
<1> HIDE DEF q
<1>3. Filters(q) = Filters(p) /\ KeyOf(q) = KeyOf(p)
  BY <1>2 DEF Filters, KeyOf
<1>4. filteredDevices(q, l) = filteredDevices(p, l)
  BY <1>2 DEF filteredDevices
<1>5. PageOK(p) => PageOK(q)
  BY <1>1, <1>2 DEF PageOK
<1> QED
  BY <1>1, <1>3, <1>4, <1>5 DEF q

\* The page number the two effects leave behind.
Settles(p, l) ==
    LET max == maxPageIndex(Cardinality(filteredDevices(p, l)))
    IN  IF p.index > max THEN max ELSE IF Filters(p) # Filters(page) THEN 0 ELSE p.index

LEMMA EffectsOK ==
    ASSUME NEW p, PageOK(p), NEW l, IsList(l)
    PROVE  /\ PageOK(Effects(p, l)) /\ InRange(Effects(p, l), l)
           /\ Effects(p, l).index = Settles(p, l)
           /\ Effects(p, l) = [p EXCEPT !.index = Effects(p, l).index]
           /\ Filters(Effects(p, l)) = Filters(p)
           /\ KeyOf(Effects(p, l)) = KeyOf(p)
           /\ filteredDevices(Effects(p, l), l) = filteredDevices(p, l)
<1> DEFINE max == maxPageIndex(Cardinality(filteredDevices(p, l)))
           i == Settles(p, l)
<1>1. max \in Nat /\ p.index \in Nat /\ p \in Page
  BY MaxIndexOK DEF PageOK, Page
<1>2. i \in Nat /\ i \in 0 .. max
  BY <1>1 DEF Settles
<1>3. Effects(p, l) = [p EXCEPT !.index = i]
  BY DEF Effects, Settles, paginationResetKey, Filters
<1> HIDE DEF i
<1>4. InRange([p EXCEPT !.index = i], l)
  BY <1>1, <1>2, IndexOnly DEF InRange
<1> QED
  BY <1>1, <1>2, <1>3, <1>4, IndexOnly DEF i

\* Typing starts the timer of the new text and clears the old one.
LEMMA TypedOK ==
    ASSUME NEW p, PageOK(p), NEW q \in Query
    PROVE  /\ PageOK(WithQuery(p, q)) /\ PageOK(WithSearch(p, q))
           /\ WithQuery(p, q).index = p.index /\ WithSearch(p, q).index = p.index
<1>1. /\ PageOK(WithQuery(p, q)) /\ WithQuery(p, q).query = q /\ WithQuery(p, q).index = p.index
  BY DEF PageOK, Page, WithQuery, Rescheduled
<1> DEFINE r == WithQuery(p, q)
<1> HIDE DEF r
<1>2. PageOK([r EXCEPT !.debounced = q]) /\ [r EXCEPT !.debounced = q].index = r.index
  BY <1>1 DEF PageOK, Page, r
<1> QED
  BY <1>1, <1>2 DEF WithSearch, r

\* Setting another field than the search.
LEMMA FieldsOK ==
    ASSUME NEW p, PageOK(p)
    PROVE  /\ \A s \in RegistrationScope :
                PageOK([p EXCEPT !.segmentation = s]) /\ [p EXCEPT !.segmentation = s].index = p.index
           /\ \A o \in OnlineScope :
                PageOK([p EXCEPT !.online = o]) /\ [p EXCEPT !.online = o].index = p.index
           /\ \A s \in Sorting :
                PageOK([p EXCEPT !.sort = s]) /\ [p EXCEPT !.sort = s].index = p.index
           /\ \A b \in BOOLEAN :
                PageOK([p EXCEPT !.paused = b]) /\ [p EXCEPT !.paused = b].index = p.index
           /\ \A b \in BOOLEAN :
                PageOK([p EXCEPT !.refreshing = b]) /\ [p EXCEPT !.refreshing = b].index = p.index
           /\ \A f \in Facets :
                PageOK([p EXCEPT !.facets = f]) /\ [p EXCEPT !.facets = f].index = p.index
<1>1. ASSUME NEW s \in RegistrationScope
      PROVE  PageOK([p EXCEPT !.segmentation = s]) /\ [p EXCEPT !.segmentation = s].index = p.index
  BY DEF PageOK, Page
<1>2. ASSUME NEW o \in OnlineScope
      PROVE  PageOK([p EXCEPT !.online = o]) /\ [p EXCEPT !.online = o].index = p.index
  BY DEF PageOK, Page
<1>3. ASSUME NEW s \in Sorting
      PROVE  PageOK([p EXCEPT !.sort = s]) /\ [p EXCEPT !.sort = s].index = p.index
  BY DEF PageOK, Page
<1>4. ASSUME NEW b \in BOOLEAN
      PROVE  PageOK([p EXCEPT !.paused = b]) /\ [p EXCEPT !.paused = b].index = p.index
  BY DEF PageOK, Page
<1>5. ASSUME NEW b \in BOOLEAN
      PROVE  PageOK([p EXCEPT !.refreshing = b]) /\ [p EXCEPT !.refreshing = b].index = p.index
  BY DEF PageOK, Page
<1>6. ASSUME NEW f \in Facets
      PROVE  PageOK([p EXCEPT !.facets = f]) /\ [p EXCEPT !.facets = f].index = p.index
  BY DEF PageOK, Page
<1> QED
  BY <1>1, <1>2, <1>3, <1>4, <1>5, <1>6

\* Facets are toggled one value at a time.
Value(kind) ==
    CASE kind = "vendors" -> Vendor \cup {"Unknown"}
      [] kind = "sources" -> Source
      [] OTHER -> Subnet \cup {"Unknown"}

LEMMA ToggledOK ==
    ASSUME NEW p, PageOK(p), NEW kind \in FacetKind, NEW v \in Value(kind)
    PROVE  PageOK(toggleFacet(p, kind, v)) /\ toggleFacet(p, kind, v).index = p.index
<1> DEFINE f == [p.facets EXCEPT ![kind] = toggleArrayValue(@, v)]
<1>1. p \in Page /\ p.facets \in Facets
  BY DEF PageOK, Page
<1>2. f \in Facets
  <2>1. kind \in {"vendors", "sources", "subnets"}
    BY DEF FacetKind
  <2>2. CASE kind = "vendors"
    BY <1>1, <2>2 DEF Facets, Value, toggleArrayValue
  <2>3. CASE kind = "sources"
    BY <1>1, <2>3 DEF Facets, Value, toggleArrayValue
  <2>4. CASE kind = "subnets"
    BY <1>1, <2>4 DEF Facets, Value, toggleArrayValue
  <2> QED
    BY <2>1, <2>2, <2>3, <2>4
<1>3. toggleFacet(p, kind, v) = [p EXCEPT !.facets = f]
  BY <1>1 DEF toggleFacet, Page
<1> HIDE DEF f
<1> QED
  BY <1>2, <1>3, FieldsOK

LEMMA OptionsOK ==
    ASSUME NEW kind \in FacetKind, NEW l, IsList(l), NEW v \in options(kind, l)
    PROVE  v \in Value(kind)
<1>1. \A d \in l : /\ d.vendor \in Vendor \cup {"Unknown"} /\ d.sources \subseteq Source
                   /\ d.subnet \in Subnet \cup {None}
  BY DEF IsList, Device
<1>2. CASE kind = "vendors"
  BY <1>1, <1>2 DEF options, uniqueSorted, Named, Value
<1>3. CASE kind = "sources"
  BY <1>1, <1>3, SourceAssumption DEF options, uniqueSorted, Named, Value
<1>4. CASE kind = "subnets"
  BY <1>1, <1>4 DEF options, uniqueSorted, Named, Value
<1> QED
  BY <1>2, <1>3, <1>4 DEF FacetKind

LEMMA ChipsOK ==
    ASSUME NEW p, PageOK(p), NEW c \in chips(p)
    PROVE  \/ c.kind \in {"query", "segmentation", "online"}
           \/ c.kind \in FacetKind /\ c.value \in Value(c.kind)
<1>1. p.facets \in Facets
  BY DEF PageOK, Page
<1>2. \A kind \in FacetKind : p.facets[kind] \subseteq Value(kind)
  BY <1>1 DEF Facets, FacetKind, Value
<1>3. \A kind, values : \A x \in Chip(kind, values) : x.kind = kind /\ x.value \in values
  BY DEF Chip
<1>4. \/ c \in Chip("query", {trim(p.query)} \ {""})
      \/ c \in Chip("segmentation", {p.segmentation} \ {"all"})
      \/ c \in Chip("online", {p.online} \ {"any"})
      \/ \E kind \in FacetKind : c \in Chip(kind, p.facets[kind])
  BY DEF chips
<1>5. CASE \E kind \in FacetKind : c \in Chip(kind, p.facets[kind])
  <2>1. PICK kind \in FacetKind : c \in Chip(kind, p.facets[kind])
    BY <1>5
  <2>2. c.kind = kind /\ c.value \in p.facets[kind]
    BY <2>1, <1>3
  <2> QED
    BY <2>2, <1>2
<1>6. ASSUME NEW kind, NEW values, c \in Chip(kind, values) PROVE c.kind = kind
  BY <1>6, <1>3
<1> QED
  BY <1>4, <1>5, <1>6

-----------------------------------------------------------------------------
(***************************************************************************)
(* The query cache and what the page shows of it.                          *)
(***************************************************************************)
EntryFields == {"data", "error", "invalid", "fetch", "back"}
Holds(e) ==
    /\ DOMAIN e = EntryFields /\ e.error \in BOOLEAN /\ e.invalid \in BOOLEAN
    /\ Loaded(e) => IsList(e.data)
    /\ e.fetch \notin {Idle, Sent} => IsList(e.fetch[2])
\* A fetch that begins, ends or fails never takes the data away.
Follows(f, e) == Holds(f) /\ (Loaded(e) => Loaded(f))

LEMMA EmptyHolds == Holds(Empty) /\ ~Loaded(Empty)
BY DEF Holds, Empty, EntryFields, Loaded, Idle

LEMMA BeginHolds == ASSUME NEW e, Holds(e) PROVE Follows(Begin(e), e)
BY DEF Follows, Holds, Begin, EntryFields, Loaded

LEMMA StartHolds == ASSUME NEW e, Holds(e) PROVE Follows(Start(e), e) /\ Follows(Restart(e), e)
BY BeginHolds DEF Follows, Start, Restart

LEMMA ReadHolds ==
    ASSUME NEW e, Holds(e), NEW l, IsList(l)
    PROVE  Follows([e EXCEPT !.fetch = Read(l)], e)
BY DEF Follows, Holds, EntryFields, Loaded, Read

LEMMA StopHolds == ASSUME NEW e, Holds(e) PROVE Follows(StopFetch(e), e)
BY DEF Follows, Holds, StopFetch, EntryFields, Loaded

LEMMA AnsweredHolds ==
    ASSUME NEW e, Holds(e), NEW l, IsList(l)
    PROVE  Follows(Answered(e, l), e)
<1> DEFINE f == StopFetch(e)
<1>1. Follows(f, e)
  BY StopHolds
<1> HIDE DEF f
<1>2. Follows(SetData(f, l), e)
  BY <1>1 DEF Follows, Holds, SetData, EntryFields, Loaded
<1> QED
  BY <1>2 DEF Answered, f

LEMMA FailedHolds == ASSUME NEW e, Holds(e) PROVE Follows(Failed(e), e)
<1> DEFINE f == StopFetch(e)
<1>1. Follows(f, e)
  BY StopHolds
<1> HIDE DEF f
<1>2. Follows([f EXCEPT !.error = TRUE, !.invalid = TRUE], e)
  BY <1>1 DEF Follows, Holds, EntryFields, Loaded
<1> QED
  BY <1>2 DEF Failed, f

\* mergeDevicesForList answers with one device per MAC of the answer.
LEMMA MergedList ==
    ASSUME NEW old, IsList(old), NEW new, IsList(new)
    PROVE  IsList(mergeDevicesForList(old, new))
<1> DEFINE same(d) == {o \in old : sameDeviceForList(o, d)}
           M == mergeDevicesForList(old, new)
           f == [d \in new |-> IF same(d) = {} THEN d ELSE CHOOSE o \in same(d) : TRUE]
<1>1. M = {f[d] : d \in new}
  BY DEF mergeDevicesForList
<1>2. ASSUME NEW d \in new PROVE f[d] \in Device /\ f[d].mac = d.mac
  <2>1. CASE same(d) = {}
    BY <2>1 DEF IsList
  <2>2. CASE same(d) # {}
    <3>1. f[d] \in same(d)
      BY <2>2
    <3>2. f[d] \in old /\ sameDeviceForList(f[d], d)
      BY <3>1
    <3> HIDE DEF f
    <3>3. f[d] \in Device
      BY <3>2 DEF IsList
    <3>4. "mac" \in DOMAIN f[d] \ {"link"}
      BY <3>3 DEF Device
    <3> QED
      BY <3>2, <3>3, <3>4 DEF sameDeviceForList
  <2> QED
    BY <2>1, <2>2
<1>3. f \in Surjection(new, M)
  <2>1. DOMAIN f = new
    OBVIOUS
  <2> HIDE DEF f
  <2>2. f \in [new -> M]
    <3>1. f = [d \in new |-> f[d]]
      BY DEF f
    <3> QED
      BY <1>1, <3>1
  <2> QED
    BY <1>1, <2>2 DEF Surjection
<1> HIDE DEF f, M
<1>4. IsFiniteSet(M)
  BY <1>3, FS_Surjection DEF IsList
<1>5. M \subseteq Device
  BY <1>1, <1>2
<1>6. \A x, y \in M : x.mac = y.mac => x = y
  BY <1>1, <1>2 DEF IsList
<1> QED
  BY <1>4, <1>5, <1>6 DEF IsList, M

CacheOK(c) == DOMAIN c \subseteq Key /\ \A k \in DOMAIN c : Holds(c[k])
LastOK(k, c) == k # None => k \in DOMAIN c /\ Loaded(c[k])

\* A cache the page may be rendered from, with the hooks in state p.
Ready(p, c) == CacheOK(c) /\ KeyOf(p) \in DOMAIN c /\ LastOK(last, c)

\* The cache after a step on one entry.
LEMMA EntryChanged ==
    ASSUME NEW c, CacheOK(c), LastOK(last, c), NEW k \in DOMAIN c, NEW e, Follows(e, c[k])
    PROVE  LET d == [c EXCEPT ![k] = e]
           IN  CacheOK(d) /\ LastOK(last, d) /\ DOMAIN d = DOMAIN c
BY DEF CacheOK, LastOK, Follows

LEMMA ObservedOK ==
    ASSUME NEW c, CacheOK(c), NEW k \in Key, NEW stale
    PROVE  LET d == Observed(c, k, stale)
           IN  CacheOK(d) /\ k \in DOMAIN d /\ (LastOK(last, c) => LastOK(last, d))
<1> DEFINE e == IF k \in DOMAIN c THEN c[k] ELSE Empty
           g == IF ~Loaded(e) \/ e.invalid \/ stale THEN Start(e) ELSE e
           d == Observed(c, k, stale)
<1>1. Holds(e) /\ (k \in DOMAIN c => e = c[k])
  BY EmptyHolds DEF CacheOK
<1> HIDE DEF e
<1>2. Follows(g, e)
  BY <1>1, StartHolds DEF Follows
<1>3. DOMAIN d = DOMAIN c \cup {k} /\ \A x \in DOMAIN d : d[x] = IF x # k THEN c[x] ELSE g
  BY DEF Observed, e
<1> HIDE DEF d, g
<1>4. CacheOK(d) /\ k \in DOMAIN d
  BY <1>2, <1>3 DEF CacheOK, Follows
<1>5. LastOK(last, c) => LastOK(last, d)
  BY <1>1, <1>2, <1>3 DEF LastOK, Follows
<1> QED
  BY <1>4, <1>5 DEF d

LEMMA DataIsList ==
    ASSUME NEW p, NEW c, Ready(p, c)
    PROVE  IsList(DataOf(c, KeyOf(p)))
<1>1. KeyOf(p) \in DOMAIN c /\ CacheOK(c) /\ LastOK(last, c)
  BY DEF Ready
<1>2. CASE Loaded(c[KeyOf(p)])
  BY <1>1, <1>2 DEF DataOf, CacheOK, Holds
<1>3. CASE ~Loaded(c[KeyOf(p)]) /\ (c[KeyOf(p)].error \/ last = None)
  BY <1>3, EmptyList DEF DataOf
<1>4. CASE ~Loaded(c[KeyOf(p)]) /\ ~(c[KeyOf(p)].error \/ last = None)
  BY <1>1, <1>4 DEF DataOf, CacheOK, Holds, LastOK
<1> QED
  BY <1>2, <1>3, <1>4

\* What holds after every rendering.
Screen == /\ PageOK(page) /\ IsList(devices) /\ InRange(page, devices)
          /\ CacheOK(cache) /\ Current \in DOMAIN cache /\ LastOK(last, cache)

LEMMA RenderOK ==
    ASSUME NEW p, PageOK(p), NEW c, Ready(p, c), Render(p, c)
    PROVE  /\ Screen'
           /\ page'.index = Settles(p, devices') /\ Filters(page') = Filters(p)
           /\ page' = [p EXCEPT !.index = page'.index]
           /\ filteredDevices(page', devices') = filteredDevices(p, devices')
<1>1. devices' = DataOf(c, KeyOf(p)) /\ IsList(devices')
  BY DataIsList DEF Render
<1>2. page' = Effects(p, devices') /\ cache' = c
  BY <1>1 DEF Render
<1>3. /\ PageOK(page') /\ InRange(page', devices') /\ page'.index = Settles(p, devices')
      /\ Filters(page') = Filters(p) /\ KeyOf(page') = KeyOf(p)
      /\ page' = [p EXCEPT !.index = page'.index]
      /\ filteredDevices(page', devices') = filteredDevices(p, devices')
  BY <1>1, <1>2, EffectsOK
<1>4. CacheOK(cache') /\ Current' \in DOMAIN cache'
  BY <1>2, <1>3 DEF Ready, Current
<1>5. LastOK(last', cache')
  BY <1>2 DEF Render, LastOK, Ready
<1> QED
  BY <1>1, <1>3, <1>4, <1>5 DEF Screen

-----------------------------------------------------------------------------
(***************************************************************************)
(* Saved views.                                                            *)
(***************************************************************************)
Distinct(items) == \A i, j \in DOMAIN items : items[i].id = items[j].id => i = j
ViewList(items) == items \in Seq(View) /\ Len(items) <= MaxViews /\ Distinct(items)
Saved == /\ DOMAIN saved = {"views", "storage", "apart"} /\ saved.apart \in BOOLEAN
         /\ ViewList(saved.views) /\ ViewList(saved.storage)
         /\ ~saved.apart => saved.storage = saved.views

LEMMA FewIds ==
    ASSUME NEW items, ViewList(items)
    PROVE  IsFiniteSet(Ids(items)) /\ Cardinality(Ids(items)) <= MaxViews
<1> DEFINE n == Len(items)
           f == [i \in 1 .. n |-> items[i].id]
<1>1. n \in Nat /\ n <= MaxViews /\ DOMAIN items = 1 .. n
  BY DEF ViewList
<1>2. f \in Surjection(1 .. n, Ids(items))
  BY <1>1 DEF Ids, Surjection
<1>3. IsFiniteSet(1 .. n) /\ Cardinality(1 .. n) = n
  <2> HIDE DEF n
  <2> QED
    BY <1>1, FS_Interval
<1>4. IsFiniteSet(Ids(items)) /\ Cardinality(Ids(items)) <= n
  <2> HIDE DEF f, n
  <2> QED
    BY <1>2, <1>3, FS_Surjection
<1>5. Cardinality(Ids(items)) \in Nat
  BY <1>4, FS_CardinalityType
<1> QED
  BY <1>1, <1>4, <1>5, MaxViewsAssumption

\* There is always an identifier left.
LEMMA IdLeft ==
    ASSUME Saved
    PROVE  UnusedId \in Nat /\ UnusedId \notin Ids(saved.views) /\ UnusedId \notin Ids(saved.storage)
<1> DEFINE V == Ids(saved.views)
           S == Ids(saved.storage)
           N == 0 .. 2 * MaxViews
<1>1. /\ IsFiniteSet(V) /\ Cardinality(V) <= MaxViews
      /\ IsFiniteSet(S) /\ Cardinality(S) <= MaxViews
  BY FewIds DEF Saved
<1> HIDE DEF V, S
<1>2. /\ IsFiniteSet(V \cup S) /\ IsFiniteSet(V \cap S)
      /\ Cardinality(V \cup S) = Cardinality(V) + Cardinality(S) - Cardinality(V \cap S)
  BY <1>1, FS_Union, FS_Intersection
<1>3. Cardinality(V) \in Nat /\ Cardinality(S) \in Nat /\ Cardinality(V \cap S) \in Nat
  BY <1>1, <1>2, FS_CardinalityType
<1>4. IsFiniteSet(N) /\ Cardinality(N) = 2 * MaxViews + 1
  BY MaxViewsAssumption, FS_Interval
<1>5. \E n \in N : n \notin V \cup S
  <2> SUFFICES ASSUME N \subseteq V \cup S PROVE FALSE
    OBVIOUS
  <2>1. Cardinality(N) <= Cardinality(V \cup S)
    <3> HIDE DEF N
    <3> QED
      BY <1>2, FS_Subset
  <2> HIDE DEF N
  <2> QED
    BY <1>1, <1>2, <1>3, <1>4, <2>1, MaxViewsAssumption
<1>6. UnusedId \in N /\ UnusedId \notin V \cup S
  BY <1>5 DEF UnusedId, V, S
<1> QED
  BY <1>6, MaxViewsAssumption DEF V, S

LEMMA KeptOK ==
    ASSUME NEW items \in Seq(View), Distinct(items)
    PROVE  ViewList(Kept(items))
<1> DEFINE n == IF Len(items) > MaxViews THEN MaxViews ELSE Len(items)
           k == SubSeq(items, 1, n)
<1>1. n \in Nat /\ n <= Len(items) /\ n <= MaxViews /\ Len(items) \in Nat
  BY MaxViewsAssumption
<1> HIDE DEF n
<1>2. k \in Seq(View) /\ Len(k) = n /\ \A i \in 1 .. n : k[i] = items[i]
  BY <1>1, SubSeqProperties
<1>3. Distinct(k)
  BY <1>1, <1>2 DEF Distinct
<1> QED
  BY <1>1, <1>2, <1>3 DEF Kept, ViewList, n

\* A view with an identifier of its own is added in front; the oldest goes.
LEMMA AddedOK ==
    ASSUME NEW items, ViewList(items), NEW v \in View, v.id \notin Ids(items)
    PROVE  ViewList(Kept(<<v>> \o items))
<1> DEFINE w == <<v>> \o items
<1>1. items \in Seq(View) /\ Len(items) \in Nat /\ Distinct(items)
  BY DEF ViewList
<1>2. /\ w \in Seq(View) /\ Len(w) = Len(items) + 1
      /\ w[1] = v /\ \A i \in 2 .. Len(items) + 1 : w[i] = items[i - 1]
  BY <1>1
<1>3. Distinct(w)
  <2> HIDE DEF w
  <2> SUFFICES ASSUME NEW i \in 1 .. Len(items) + 1, NEW j \in 1 .. Len(items) + 1,
                      w[i].id = w[j].id
               PROVE  i = j
    BY <1>1, <1>2 DEF Distinct
  <2>1. \A m \in 1 .. Len(items) : items[m].id # v.id
    BY <1>1 DEF Ids
  <2>1a. \A m \in 2 .. Len(items) + 1 : w[m].id # w[1].id
    <3> SUFFICES ASSUME NEW m \in 2 .. Len(items) + 1 PROVE w[m].id # w[1].id
      OBVIOUS
    <3>1. m - 1 \in 1 .. Len(items)
      BY <1>1
    <3> QED
      BY <1>2, <2>1, <3>1
  <2>2. CASE i = 1 /\ j # 1
    BY <1>1, <2>1a, <2>2
  <2>3. CASE i # 1 /\ j = 1
    BY <1>1, <2>1a, <2>3
  <2>4. CASE i # 1 /\ j # 1
    <3>1. i - 1 \in DOMAIN items /\ j - 1 \in DOMAIN items
      BY <1>1, <2>4
    <3>2. items[i - 1].id = items[j - 1].id
      BY <1>1, <1>2, <2>4
    <3> QED
      BY <1>1, <3>1, <3>2 DEF Distinct
  <2> QED
    BY <2>2, <2>3, <2>4
<1> QED
  BY <1>2, <1>3, KeptOK

\* Deleting keeps the others, each once.
LEMMA OthersOK ==
    ASSUME NEW items, ViewList(items), NEW id
    PROVE  ViewList(Others(items, id))
<1> DEFINE kept == {i \in DOMAIN items : items[i].id # id}
           n == Cardinality(kept)
           R == {ij \in kept \X kept : ij[1] < ij[2]}
           at(m) == CHOOSE i \in kept : Cardinality({j \in kept : j < i}) = m - 1
           o == Others(items, id)
<1>1. items \in Seq(View) /\ DOMAIN items = 1 .. Len(items) /\ Len(items) \in Nat
  BY DEF ViewList
<1>2. IsFiniteSet(kept) /\ n \in Nat /\ n <= Len(items)
  <2>1. IsFiniteSet(1 .. Len(items)) /\ Cardinality(1 .. Len(items)) = Len(items)
    BY <1>1, FS_Interval
  <2>2. kept \in SUBSET (1 .. Len(items))
    BY <1>1
  <2> HIDE DEF kept
  <2> QED
    BY <2>1, <2>2, FS_Subset, FS_CardinalityType
<1>3. TotalOrder(R, kept) /\ \A i \in kept : Below(i, R, kept) = {j \in kept : j < i}
  <2>1. kept \subseteq Nat
    BY <1>1
  <2> HIDE DEF kept
  <2> QED
    BY <2>1 DEF TotalOrder, Below
<1>4. ASSUME NEW m \in 1 .. n
      PROVE  at(m) \in kept /\ Cardinality({j \in kept : j < at(m)}) = m - 1
  <2>1. m - 1 \in 0 .. Cardinality(kept) - 1
    BY <1>2
  <2>2. \E i \in kept : Cardinality(Below(i, R, kept)) = m - 1
    <3> HIDE DEF kept, R
    <3> QED
      BY <1>2, <1>3, <2>1, EveryRankTaken
  <2>3. \E i \in kept : Cardinality({j \in kept : j < i}) = m - 1
    <3> HIDE DEF kept, R
    <3> QED
      BY <1>3, <2>2
  <2> HIDE DEF kept
  <2> QED
    BY <2>3
<1>5. o = [m \in 1 .. n |-> items[at(m)]]
  BY DEF Others
<1> HIDE DEF o, at, n
<1>6. \A m \in 1 .. n : at(m) \in DOMAIN items
  BY <1>4
<1> HIDE DEF kept
<1>7. o \in Seq(View) /\ Len(o) = n /\ \A m \in 1 .. n : o[m] = items[at(m)]
  BY <1>1, <1>2, <1>5, <1>6
<1>8. ASSUME NEW i \in 1 .. n, NEW j \in 1 .. n, o[i].id = o[j].id PROVE i = j
  <2>1. at(i) = at(j)
    BY <1>6, <1>7, <1>8 DEF ViewList, Distinct
  <2>2. i - 1 = j - 1
    BY <1>4, <2>1
  <2> QED
    BY <1>2, <2>2
<1>9. Distinct(o)
  BY <1>2, <1>7, <1>8 DEF Distinct
<1> QED
  BY <1>1, <1>2, <1>7, <1>9, MaxViewsAssumption DEF ViewList, o

-----------------------------------------------------------------------------
(***************************************************************************)
(* One step of the page.                                                   *)
(***************************************************************************)
Inv == Screen /\ Saved /\ server \in World /\ unconfigured \subseteq Key /\ budget \in Budget

\* What every step keeps besides the screen.
Frame == Saved' /\ server' \in World /\ unconfigured' \subseteq Key /\ budget' \in Budget

\* A step either renders the page from new hooks and a new cache, leaves what
\* is shown alone, or opens the page afresh.  Only the user's choice of another
\* page changes the page number before the effects run.
Renders ==
    \E p, c : /\ PageOK(p) /\ Ready(p, c) /\ Render(p, c)
              /\ \/ p.index = page.index
                 \/ budget'.moves # budget.moves /\ \E i \in Nat : p = [page EXCEPT !.index = i]
Stays ==
    /\ UNCHANGED <<devices, last>> /\ page' \in {page, [page EXCEPT !.refreshing = FALSE]}
    /\ CacheOK(cache') /\ DOMAIN cache' = DOMAIN cache /\ LastOK(last, cache')
Opens ==
    /\ page' = Fresh /\ IsList(devices') /\ budget'.moves # budget.moves
    /\ CacheOK(cache') /\ KeyOf(Fresh) \in DOMAIN cache' /\ LastOK(last', cache')
Kind == Frame /\ (Renders \/ Stays \/ Opens)

LEMMA MoveOK ==
    ASSUME budget \in Budget, NEW step, Move(step)
    PROVE  budget' \in Budget /\ budget'.moves # budget.moves
BY DEF Budget, Move

LEMMA SavedKept == Saved /\ saved' = saved => Saved'
BY DEF Saved, ViewList, Distinct

LEMMA SetRenders ==
    ASSUME Screen, NEW p, PageOK(p), Set(p)
    PROVE  \E c : Ready(p, c) /\ Render(p, c)
<1>1. CacheOK(cache) /\ Current \in DOMAIN cache /\ LastOK(last, cache)
  BY DEF Screen
<1>2. CASE KeyOf(p) = Current
  BY <1>1, <1>2 DEF Set, Ready
<1>3. CASE KeyOf(p) # Current
  <2>1. PICK stale \in BOOLEAN : Render(p, Observed(cache, KeyOf(p), stale))
    BY <1>3 DEF Set
  <2>2. Ready(p, Observed(cache, KeyOf(p), stale))
    <3>1. KeyOf(p) \in Key
      BY KeyOK DEF PageOK
    <3> QED
      BY <1>1, <3>1, ObservedOK DEF Ready
  <2> QED
    BY <2>1, <2>2
<1> QED
  BY <1>2, <1>3

LEMMA UserSetsKind ==
    ASSUME Inv, NEW step, NEW p, PageOK(p), UserSets(step, p),
           p.index = page.index \/ \E i \in Nat : p = [page EXCEPT !.index = i]
    PROVE  Kind
<1>1. Screen /\ Saved /\ server \in World /\ unconfigured \subseteq Key /\ budget \in Budget
  BY DEF Inv
<1>2. Move(step) /\ Set(p) /\ server' = server /\ unconfigured' = unconfigured /\ saved' = saved
  BY DEF UserSets
<1>3. budget' \in Budget /\ budget'.moves # budget.moves
  BY <1>1, <1>2, MoveOK
<1>4. PICK c : Ready(p, c) /\ Render(p, c)
  BY <1>1, <1>2, SetRenders
<1>5. Frame
  BY <1>1, <1>2, <1>3, SavedKept DEF Frame
<1> QED
  BY <1>3, <1>4, <1>5 DEF Kind, Renders

\* A refetch of the current query, by a poll, the focus or Refresh.
LEMMA RefetchRenders ==
    ASSUME Screen, NEW p, PageOK(p), KeyOf(p) = Current, NEW e, Follows(e, cache[Current])
    PROVE  Ready(p, [cache EXCEPT ![Current] = e])
<1>1. CacheOK(cache) /\ Current \in DOMAIN cache /\ LastOK(last, cache)
  BY DEF Screen
<1> DEFINE k == Current
           d == [cache EXCEPT ![k] = e]
<1> HIDE DEF k
<1>2. CacheOK(d) /\ LastOK(last, d) /\ DOMAIN d = DOMAIN cache
  BY <1>1, EntryChanged DEF k
<1> QED
  BY <1>1, <1>2 DEF Ready, k

LEMMA PersistKind ==
    ASSUME Inv, NEW step, NEW s, Persist(step, s),
           DOMAIN s = {"views", "storage", "apart"}, s.apart = FALSE, s.storage = s.views,
           ViewList(s.views)
    PROVE  Kind
<1>1. Screen /\ Saved /\ server \in World /\ unconfigured \subseteq Key /\ budget \in Budget
  BY DEF Inv
<1>2. /\ Move(step) /\ UNCHANGED <<server, cache, unconfigured, last, devices, page>>
      /\ saved' = s \/ saved' = [s EXCEPT !.storage = saved.storage, !.apart = TRUE]
  BY DEF Persist
<1>3. Saved'
  <2>1. CASE saved' = s
    <3>1. ViewList(saved.views)' /\ ViewList(saved.storage)'
      BY <2>1 DEF ViewList, Distinct
    <3> QED
      BY <2>1, <3>1 DEF Saved
  <2>2. CASE saved' = [s EXCEPT !.storage = saved.storage, !.apart = TRUE]
    <3>1. /\ DOMAIN saved' = {"views", "storage", "apart"} /\ saved'.apart = TRUE
          /\ saved'.views = s.views /\ saved'.storage = saved.storage
      BY <2>2
    <3> QED
      BY <1>1, <3>1 DEF Saved, ViewList, Distinct
  <2> QED
    BY <1>2, <2>1, <2>2
<1>4. Frame
  BY <1>1, <1>2, <1>3, MoveOK DEF Frame
<1>5. Stays
  BY <1>1, <1>2 DEF Stays, Screen
<1> QED
  BY <1>4, <1>5 DEF Kind

LEMMA SaveKind == Inv /\ onSaveCurrentView => Kind
<1> SUFFICES ASSUME Inv, onSaveCurrentView PROVE Kind
  OBVIOUS
<1> DEFINE v == [id |-> UnusedId, search |-> page.query, segmentation |-> page.segmentation,
                 online |-> page.online, facets |-> page.facets]
           s == saveView(saved, v)
<1>1. Saved /\ page \in Page
  BY DEF Inv, Screen, PageOK
<1>2. v \in View /\ v.id \notin Ids(saved.views)
  BY <1>1, IdLeft DEF View, Page
<1>3. Persist("save", s)
  BY DEF onSaveCurrentView
<1> HIDE DEF v
<1>4. /\ DOMAIN s = {"views", "storage", "apart"} /\ s.apart = FALSE /\ s.storage = s.views
      /\ s.views = Kept(<<v>> \o saved.views)
  BY DEF saveView
<1>5. ViewList(s.views)
  BY <1>1, <1>2, <1>4, AddedOK DEF Saved
<1> HIDE DEF s
<1> QED
  BY <1>3, <1>4, <1>5, PersistKind

LEMMA DeleteKind == Inv /\ onDeleteView => Kind
<1> SUFFICES ASSUME Inv, onDeleteView PROVE Kind
  OBVIOUS
<1>1. PICK id \in Ids(saved.views) : Persist("delete", removeView(saved, id))
  BY DEF onDeleteView
<1> DEFINE s == removeView(saved, id)
<1>2. /\ DOMAIN s = {"views", "storage", "apart"} /\ s.apart = FALSE /\ s.storage = s.views
      /\ s.views = Others(saved.views, id)
  BY DEF removeView
<1>3. ViewList(s.views)
  BY <1>2, OthersOK DEF Inv, Saved
<1>4. Persist("delete", s)
  BY <1>1
<1> HIDE DEF s
<1> QED
  BY <1>2, <1>3, <1>4, PersistKind

LEMMA OtherTabKind == Inv /\ OtherTab => Kind
<1> SUFFICES ASSUME Inv, OtherTab PROVE Kind
  OBVIOUS
<1> DEFINE v == [id |-> UnusedId, search |-> NoQuery, segmentation |-> "new", online |-> "any",
                 facets |-> NoFacets]
<1>1. Screen /\ Saved /\ server \in World /\ unconfigured \subseteq Key /\ budget \in Budget
  BY DEF Inv
<1>2. v \in View /\ v.id \notin Ids(saved.storage)
  <2>1. NoQuery \in Query /\ NoFacets \in Facets
    BY FreshOK DEF Fresh, PageOK, Page
  <2> QED
    BY <1>1, <2>1, IdLeft DEF View, RegistrationScope, OnlineScope
<1>3. PICK s : /\ \/ s = saveView([saved EXCEPT !.views = saved.storage], v)
                  \/ \E id : s = removeView([saved EXCEPT !.views = saved.storage], id)
               /\ saved' = [saved EXCEPT !.storage = s.storage, !.apart = TRUE]
  BY DEF OtherTab
<1> HIDE DEF v
<1>4. \/ s.storage = Kept(<<v>> \o saved.storage)
      \/ \E id : s.storage = Others(saved.storage, id)
  <2>1. [saved EXCEPT !.views = saved.storage].views = saved.storage
    BY <1>1 DEF Saved
  <2> QED
    BY <1>3, <2>1 DEF saveView, removeView
<1>5. ViewList(s.storage)
  BY <1>1, <1>2, <1>4, AddedOK, OthersOK DEF Saved
<1>6. Saved'
  <2>1. /\ DOMAIN saved' = {"views", "storage", "apart"} /\ saved'.apart = TRUE
        /\ saved'.views = saved.views /\ saved'.storage = s.storage
    BY <1>1, <1>3 DEF Saved
  <2> QED
    BY <1>1, <1>5, <2>1 DEF Saved, ViewList, Distinct
<1>7. UNCHANGED <<server, cache, unconfigured, last, devices, page>> /\ Move("tab")
  BY DEF OtherTab
<1>8. Frame
  BY <1>1, <1>6, <1>7, MoveOK DEF Frame
<1>9. Stays
  BY <1>1, <1>7 DEF Stays, Screen
<1> QED
  BY <1>8, <1>9 DEF Kind

LEMMA MountKind == Inv /\ Mount => Kind
<1> SUFFICES ASSUME Inv, Mount PROVE Kind
  OBVIOUS
<1> DEFINE F == KeyOf(Fresh)
<1>1. Screen /\ Saved /\ server \in World /\ unconfigured \subseteq Key /\ budget \in Budget
  BY DEF Inv
<1>2. PICK kept \in {cache, [k \in {} |-> Empty]}, stale \in BOOLEAN :
        LET c == Observed(kept, F, stale)
        IN  /\ cache' = c /\ page' = Fresh
            /\ last' = IF Loaded(c[F]) THEN F ELSE None
            /\ devices' = IF Loaded(c[F]) THEN c[F].data ELSE {}
  BY DEF Mount
<1>3. CacheOK(kept)
  BY <1>1, <1>2 DEF Screen, CacheOK
<1>4. F \in Key
  BY FreshOK, KeyOK DEF PageOK
<1>5. CacheOK(cache') /\ F \in DOMAIN cache'
  <2> HIDE DEF F
  <2> QED
    BY <1>2, <1>3, <1>4, ObservedOK
<1> HIDE DEF F
<1>6. LastOK(last', cache') /\ IsList(devices')
  BY <1>2, <1>5, EmptyList DEF LastOK, CacheOK, Holds
<1>7. Saved'
  <2>1. saved' = [views |-> saved.storage, storage |-> saved.storage, apart |-> FALSE]
    BY DEF Mount
  <2>2. /\ DOMAIN saved' = {"views", "storage", "apart"} /\ saved'.apart = FALSE
        /\ saved'.views = saved.storage /\ saved'.storage = saved.storage
    BY <2>1
  <2> QED
    BY <1>1, <2>2 DEF Saved, ViewList, Distinct
<1>8. Move("mount") /\ server' = server /\ unconfigured' = unconfigured
  BY DEF Mount
<1>9. budget' \in Budget /\ budget'.moves # budget.moves
  BY <1>1, <1>8, MoveOK
<1>10. Frame
  BY <1>1, <1>7, <1>8, <1>9 DEF Frame
<1>11. Opens
  BY <1>2, <1>5, <1>6, <1>9 DEF Opens, F
<1> QED
  BY <1>10, <1>11 DEF Kind

LEMMA RefreshKind == Inv /\ (handleRefresh \/ Focus \/ Poll) => Kind
<1> SUFFICES ASSUME Inv, handleRefresh \/ Focus \/ Poll PROVE Kind
  OBVIOUS
<1>1. Screen /\ Saved /\ server \in World /\ unconfigured \subseteq Key /\ budget \in Budget
  BY DEF Inv
<1>2. PageOK(page) /\ page \in Page /\ Holds(cache[Current])
  BY <1>1 DEF Screen, CacheOK, PageOK
<1>3. CASE handleRefresh
  <2> DEFINE p == [page EXCEPT !.refreshing = TRUE]
             c == [cache EXCEPT ![Current] = Restart(cache[Current])]
  <2>1. PageOK(p) /\ p.index = page.index
    BY <1>2, FieldsOK
  <2>2. KeyOf(p) = Current
    BY <1>2 DEF KeyOf, Current, Page
  <2>3. Follows(Restart(cache[Current]), cache[Current])
    BY <1>2, StartHolds
  <2>4. Ready(p, c)
    <3> HIDE DEF p
    <3> QED
      BY <1>1, <2>1, <2>2, <2>3, RefetchRenders
  <2>5. /\ Render(p, c) /\ Move("refresh")
        /\ server' = server /\ unconfigured' = unconfigured /\ saved' = saved
    BY <1>3 DEF handleRefresh
  <2> HIDE DEF p, c
  <2>6. Frame
    BY <1>1, <2>5, MoveOK, SavedKept DEF Frame
  <2> QED
    BY <2>1, <2>4, <2>5, <2>6 DEF Kind, Renders
<1>4. CASE Focus \/ Poll
  <2> DEFINE c == [cache EXCEPT ![Current] = Start(cache[Current])]
  <2>1. Follows(Start(cache[Current]), cache[Current])
    BY <1>2, StartHolds
  <2>2. Ready(page, c)
    BY <1>1, <1>2, <2>1, RefetchRenders DEF Current
  <2>3. Render(page, c) /\ server' = server /\ unconfigured' = unconfigured /\ saved' = saved
    BY <1>4 DEF Focus, Poll, Refetch
  <2> HIDE DEF c
  <2>4. budget' \in Budget
    BY <1>1, <1>4, MoveOK DEF Focus, Poll
  <2>5. Frame
    BY <1>1, <2>3, <2>4, SavedKept DEF Frame
  <2> QED
    BY <1>2, <2>2, <2>3, <2>5 DEF Kind, Renders
<1> QED
  BY <1>3, <1>4

LEMMA ApplyKind == Inv /\ applySavedView => Kind
<1> SUFFICES ASSUME Inv, applySavedView PROVE Kind
  OBVIOUS
<1>1. PICK i \in DOMAIN saved.views :
        UserSets("apply", [WithSearch(page, saved.views[i].search) EXCEPT
                             !.segmentation = saved.views[i].segmentation,
                             !.online = saved.views[i].online, !.facets = saved.views[i].facets])
  BY DEF applySavedView
<1> DEFINE v == saved.views[i]
           p == WithSearch(page, v.search)
           r == [p EXCEPT !.segmentation = v.segmentation, !.online = v.online, !.facets = v.facets]
<1>2. v \in View
  BY <1>1 DEF Inv, Saved, ViewList
<1>3. /\ v.search \in Query /\ v.segmentation \in RegistrationScope /\ v.online \in OnlineScope
      /\ v.facets \in Facets
  BY <1>2 DEF View
<1>4. PageOK(p) /\ p.index = page.index
  BY <1>3, TypedOK DEF Inv, Screen
<1>5. UserSets("apply", r)
  BY <1>1
<1> HIDE DEF p, v
<1>6. PageOK(r) /\ r.index = page.index
  BY <1>3, <1>4 DEF PageOK, Page
<1> HIDE DEF r
<1> QED
  BY <1>5, <1>6, UserSetsKind

LEMMA ClearKind == Inv /\ clearAllFilters => Kind
<1> SUFFICES ASSUME Inv, clearAllFilters PROVE Kind
  OBVIOUS
<1> DEFINE p == WithSearch(page, NoQuery)
           r == [p EXCEPT !.segmentation = "all", !.online = "any", !.facets = NoFacets]
<1>1. NoQuery \in Query /\ NoFacets \in Facets
  BY FreshOK DEF Fresh, PageOK, Page
<1>2. PageOK(p) /\ p.index = page.index
  BY <1>1, TypedOK DEF Inv, Screen
<1>3. UserSets("clear", r)
  BY DEF clearAllFilters
<1> HIDE DEF p
<1>4. PageOK(r) /\ r.index = page.index
  BY <1>1, <1>2 DEF PageOK, Page, RegistrationScope, OnlineScope
<1> HIDE DEF r
<1> QED
  BY <1>3, <1>4, UserSetsKind

LEMMA ChipKind == Inv /\ handleRemoveChip => Kind
<1> SUFFICES ASSUME Inv, handleRemoveChip PROVE Kind
  OBVIOUS
<1>1. PICK c \in chips(page) :
        UserSets("chip", CASE c.kind = "query" -> WithSearch(page, NoQuery)
                           [] c.kind = "segmentation" -> [page EXCEPT !.segmentation = "all"]
                           [] c.kind = "online" -> [page EXCEPT !.online = "any"]
                           [] OTHER -> toggleFacet(page, c.kind, c.value))
  BY DEF handleRemoveChip
<1> DEFINE p == CASE c.kind = "query" -> WithSearch(page, NoQuery)
                  [] c.kind = "segmentation" -> [page EXCEPT !.segmentation = "all"]
                  [] c.kind = "online" -> [page EXCEPT !.online = "any"]
                  [] OTHER -> toggleFacet(page, c.kind, c.value)
<1>2. PageOK(page)
  BY DEF Inv, Screen
<1>3. PageOK(p) /\ p.index = page.index
  <2>1. CASE c.kind = "query"
    <3>1. NoQuery \in Query
      BY FreshOK DEF Fresh, PageOK, Page
    <3>2. p = WithSearch(page, NoQuery)
      BY <2>1
    <3> QED
      BY <1>2, <3>1, <3>2, TypedOK
  <2>2. CASE c.kind = "segmentation"
    <3>1. p = [page EXCEPT !.segmentation = "all"]
      BY <2>2
    <3>2. "all" \in RegistrationScope
      BY DEF RegistrationScope
    <3>3. PageOK([page EXCEPT !.segmentation = "all"]) /\ [page EXCEPT !.segmentation = "all"].index = page.index
      BY <1>2, <3>2, FieldsOK
    <3> QED
      BY <3>1, <3>3
  <2>3. CASE c.kind = "online"
    <3>1. p = [page EXCEPT !.online = "any"]
      BY <2>3
    <3>2. "any" \in OnlineScope
      BY DEF OnlineScope
    <3>3. PageOK([page EXCEPT !.online = "any"]) /\ [page EXCEPT !.online = "any"].index = page.index
      BY <1>2, <3>2, FieldsOK
    <3> QED
      BY <3>1, <3>3
  <2>4. CASE c.kind \notin {"query", "segmentation", "online"}
    <3>1. p = toggleFacet(page, c.kind, c.value)
      BY <2>4
    <3>2. c.kind \in FacetKind /\ c.value \in Value(c.kind)
      BY <1>2, <2>4, ChipsOK
    <3> QED
      BY <1>2, <3>1, <3>2, ToggledOK
  <2> QED
    BY <2>1, <2>2, <2>3, <2>4
<1>4. UserSets("chip", p)
  BY <1>1
<1> HIDE DEF p
<1> QED
  BY <1>3, <1>4, UserSetsKind

LEMMA PageKind == Inv /\ setPageIndex => Kind
<1> SUFFICES ASSUME Inv, setPageIndex PROVE Kind
  OBVIOUS
<1> DEFINE n == pageCount(Cardinality(filteredDevices(page, devices)))
<1>1. PageOK(page) /\ page \in Page /\ IsList(devices)
  BY DEF Inv, Screen, PageOK
<1>2. PICK i \in buildPageItems(page.index, n) \cup ({page.index - 1, page.index + 1} \cap (0 .. n - 1)) :
        UserSets("page", [page EXCEPT !.index = i])
  BY DEF setPageIndex
<1>3. n - 1 \in Nat
  BY <1>1, MaxIndexOK DEF pageCount
<1> HIDE DEF n
<1>4. i \in Nat
  BY <1>2, <1>3 DEF buildPageItems
<1>5. PageOK([page EXCEPT !.index = i])
  BY <1>1, <1>4, IndexOnly
<1> QED
  BY <1>2, <1>4, <1>5, UserSetsKind

LEMMA SortKind == Inv /\ toggleSorting => Kind
<1> SUFFICES ASSUME Inv, toggleSorting PROVE Kind
  OBVIOUS
<1>1. PICK c \in {"last_ip", "last_seen"} :
        UserSets("sort", [page EXCEPT !.sort = [id |-> c, desc |-> @ = [id |-> c, desc |-> FALSE]]])
  BY DEF toggleSorting
<1> DEFINE s == [id |-> c, desc |-> page.sort = [id |-> c, desc |-> FALSE]]
<1>2. s \in Sorting
  BY DEF Sorting, Column
<1>3. UserSets("sort", [page EXCEPT !.sort = s])
  BY <1>1
<1> HIDE DEF s
<1>4. PageOK([page EXCEPT !.sort = s]) /\ [page EXCEPT !.sort = s].index = page.index
  BY <1>2, FieldsOK DEF Inv, Screen
<1> QED
  BY <1>3, <1>4, UserSetsKind

LEMMA UsersKind == Inv /\ Users => Kind
<1> SUFFICES ASSUME Inv, Users PROVE Kind
  OBVIOUS
<1>0. PageOK(page) /\ page \in Page /\ IsList(devices) /\ NoQuery \in Query
  BY FreshOK DEF Inv, Screen, PageOK, Fresh, Page
<1>1. CASE setQuery
  BY <1>0, <1>1, TypedOK, UserSetsKind, SearchesAssumption DEF setQuery
<1>2. CASE onClearQuery
  BY <1>0, <1>2, TypedOK, UserSetsKind DEF onClearQuery
<1>3. CASE SegmentationMenu
  BY <1>0, <1>3, FieldsOK, UserSetsKind DEF SegmentationMenu
<1>4. CASE KpiFilters
  <2>1. PICK s \in RegistrationScope :
          UserSets("segmentation", [page EXCEPT !.segmentation = IF s = @ THEN "all" ELSE s])
    BY <1>4 DEF KpiFilters
  <2> DEFINE t == IF s = page.segmentation THEN "all" ELSE s
  <2>2. t \in RegistrationScope
    BY DEF RegistrationScope
  <2>3. UserSets("segmentation", [page EXCEPT !.segmentation = t])
    BY <2>1
  <2> HIDE DEF t
  <2> QED
    BY <1>0, <2>2, <2>3, FieldsOK, UserSetsKind
<1>5. CASE OnlineScopeMenu
  BY <1>0, <1>5, FieldsOK, UserSetsKind DEF OnlineScopeMenu
<1>6. CASE FacetPopover
  BY <1>0, <1>6, OptionsOK, ToggledOK, UserSetsKind DEF FacetPopover
<1>7. CASE toggle
  <2>1. (~page.paused) \in BOOLEAN
    OBVIOUS
  <2>2. UserSets("pause", [page EXCEPT !.paused = ~page.paused])
    BY <1>7 DEF toggle
  <2>3. PageOK([page EXCEPT !.paused = ~page.paused])
        /\ [page EXCEPT !.paused = ~page.paused].index = page.index
    BY <1>0, <2>1, FieldsOK
  <2> QED
    BY <2>2, <2>3, UserSetsKind
<1> QED
  BY <1>1, <1>2, <1>3, <1>4, <1>5, <1>6, <1>7, ChipKind, ClearKind, SortKind, PageKind, RefreshKind,
     MountKind, SaveKind, DeleteKind, ApplyKind, OtherTabKind DEF Users

LEMMA FetchOverKind ==
    ASSUME Inv, NEW k \in DOMAIN cache, NEW e, Follows(e, cache[k]), FetchOver(k, e),
           budget' \in Budget, unconfigured' \subseteq Key
    PROVE  Kind
<1>1. Screen /\ Saved /\ server \in World
  BY DEF Inv
<1> DEFINE c == [cache EXCEPT ![k] = e]
<1>2. CacheOK(c) /\ LastOK(last, c) /\ DOMAIN c = DOMAIN cache
  BY <1>1, EntryChanged DEF Screen
<1>3. Frame
  BY <1>1, SavedKept DEF Frame, FetchOver
<1>4. CASE k = Current
  <2>1. Render(page, c)
    BY <1>4 DEF FetchOver
  <2>2. Ready(page, c) /\ PageOK(page)
    BY <1>1, <1>2 DEF Ready, Screen, Current
  <2> HIDE DEF c
  <2> QED
    BY <1>3, <2>1, <2>2 DEF Kind, Renders
<1>5. CASE k # Current
  BY <1>1, <1>2, <1>3, <1>5 DEF FetchOver, Kind, Stays
<1> QED
  BY <1>4, <1>5

LEMMA NextKind == Inv /\ [Next]_vars => Kind
<1> SUFFICES ASSUME Inv, [Next]_vars PROVE Kind
  OBVIOUS
<1>0. /\ Screen /\ Saved /\ server \in World /\ unconfigured \subseteq Key /\ budget \in Budget
      /\ PageOK(page) /\ CacheOK(cache) /\ LastOK(last, cache)
  BY DEF Inv, Screen
<1>1. CASE DebounceFires
  <2>1. PICK q \in page.timers : Set([page EXCEPT !.debounced = q, !.timers = @ \ {q}])
    BY <1>1 DEF DebounceFires
  <2> DEFINE p == [page EXCEPT !.debounced = q, !.timers = @ \ {q}]
  <2>2. q = page.query
    BY <1>0 DEF PageOK
  <2>3. PageOK(p) /\ p.index = page.index
    BY <1>0, <2>2 DEF PageOK, Page
  <2>4. Set(p)
    BY <2>1
  <2> HIDE DEF p
  <2>5. Frame
    BY <1>0, <1>1, SavedKept DEF DebounceFires, Frame
  <2> QED
    BY <1>0, <2>3, <2>4, <2>5, SetRenders DEF Kind, Renders
<1>2. CASE RefreshEnds
  <2>1. Frame
    BY <1>0, <1>2, SavedKept DEF RefreshEnds, Frame
  <2> QED
    BY <1>0, <1>2, <2>1 DEF RefreshEnds, Kind, Stays
<1>3. ASSUME NEW k \in DOMAIN cache, ServerReads(k) PROVE Kind
  <2>1. IsList(fetchDevices(k))
    <3>1. IsList(server)
      BY <1>0, WorldAssumption DEF IsList
    <3>2. fetchDevices(k) \in SUBSET server
      BY DEF fetchDevices
    <3> QED
      BY <3>1, <3>2, SubList
  <2> DEFINE l == fetchDevices(k)
             e == [cache[k] EXCEPT !.fetch = Read(l)]
             c == [cache EXCEPT ![k] = e]
  <2>2. Follows(e, cache[k])
    <3> HIDE DEF l
    <3> QED
      BY <1>0, <2>1, ReadHolds DEF CacheOK, l
  <2>3. cache' = c
    BY <1>3 DEF ServerReads
  <2> HIDE DEF e
  <2>4. CacheOK(c) /\ LastOK(last, c) /\ DOMAIN c = DOMAIN cache
    BY <1>0, <2>2, EntryChanged
  <2> HIDE DEF c
  <2>5. UNCHANGED <<server, unconfigured, last, devices, page, saved, budget>>
    BY <1>3 DEF ServerReads
  <2>6. Frame
    BY <1>0, <2>5, SavedKept DEF Frame
  <2> QED
    BY <2>3, <2>4, <2>5, <2>6 DEF Kind, Stays
<1>4. ASSUME NEW k \in DOMAIN cache, FetchSucceeds(k) PROVE Kind
  <2> DEFINE old == IF Loaded(cache[k]) THEN cache[k].data ELSE {}
             l == mergeDevicesForList(old, cache[k].fetch[2])
  <2>1. Holds(cache[k]) /\ cache[k].fetch \notin {Idle, Sent}
    BY <1>0, <1>4 DEF FetchSucceeds, CacheOK
  <2>2. IsList(old) /\ IsList(cache[k].fetch[2])
    BY <2>1, EmptyList DEF Holds
  <2>3. FetchOver(k, Answered(cache[k], l))
    BY <1>4 DEF FetchSucceeds
  <2> HIDE DEF old
  <2>4. IsList(l)
    BY <2>2, MergedList
  <2> HIDE DEF l
  <2>5. Follows(Answered(cache[k], l), cache[k])
    BY <2>1, <2>4, AnsweredHolds
  <2>6. budget' \in Budget /\ unconfigured' \subseteq Key
    BY <1>0, <1>4 DEF FetchSucceeds
  <2> QED
    BY <2>3, <2>5, <2>6, FetchOverKind
<1>5. ASSUME NEW k \in DOMAIN cache, FetchFails(k) PROVE Kind
  <2>1. Follows(Failed(cache[k]), cache[k])
    BY <1>0, FailedHolds DEF CacheOK
  <2>2. budget' \in Budget
    BY <1>0, <1>5 DEF FetchFails, Budget
  <2>3. unconfigured' \subseteq Key
    BY <1>0, <1>5 DEF FetchFails, CacheOK
  <2> QED
    BY <1>5, <2>1, <2>2, <2>3, FetchOverKind DEF FetchFails
<1>6. CASE Outside
  <2>1. budget' \in Budget
    BY <1>0, <1>6 DEF Outside, Budget
  <2>2. Frame
    BY <1>0, <1>6, <2>1, SavedKept DEF Outside, Frame
  <2> QED
    BY <1>0, <1>6, <2>2 DEF Outside, Kind, Stays
<1>7. CASE UNCHANGED vars
  <2>1. Frame
    BY <1>0, <1>7, SavedKept DEF vars, Frame
  <2> QED
    BY <1>0, <1>7, <2>1 DEF vars, Kind, Stays
<1> QED
  BY <1>1, <1>2, <1>3, <1>4, <1>5, <1>6, <1>7, UsersKind, RefreshKind DEF Next, Answers

LEMMA RefreshingOnly ==
    ASSUME NEW p \in Page, NEW l
    PROVE  LET q == [p EXCEPT !.refreshing = FALSE]
           IN  /\ KeyOf(q) = KeyOf(p) /\ Filters(q) = Filters(p) /\ q.index = p.index
               /\ filteredDevices(q, l) = filteredDevices(p, l)
<1> DEFINE q == [p EXCEPT !.refreshing = FALSE]
<1>1. /\ q.debounced = p.debounced /\ q.segmentation = p.segmentation /\ q.online = p.online
      /\ q.facets = p.facets /\ q.paused = p.paused /\ q.index = p.index
  BY DEF Page
<1> HIDE DEF q
<1> QED
  BY <1>1 DEF KeyOf, Filters, filteredDevices, q

\* Every kind of step leaves a page that exists, of a list that is one.
LEMMA KindKeeps == Inv /\ Kind => Inv'
<1> SUFFICES ASSUME Inv, Kind PROVE Screen'
  BY DEF Inv, Kind, Frame
<1>1. CASE Renders
  BY <1>1, RenderOK DEF Renders
<1>2. CASE Stays
  <2>1. PageOK(page) /\ page \in Page /\ IsList(devices) /\ InRange(page, devices) /\ Current \in DOMAIN cache
    BY DEF Inv, Screen, PageOK
  <2>2. PageOK(page')
    BY <1>2, <2>1, FieldsOK DEF Stays
  <2>3. /\ KeyOf(page') = KeyOf(page) /\ page'.index = page.index /\ devices' = devices
        /\ filteredDevices(page', devices') = filteredDevices(page, devices)
    BY <1>2, <2>1, RefreshingOnly DEF Stays
  <2>4. InRange(page', devices') /\ IsList(devices') /\ KeyOf(page') \in DOMAIN cache'
    BY <1>2, <2>1, <2>3 DEF InRange, Stays, Current
  <2>5. CacheOK(cache') /\ LastOK(last', cache')
    BY <1>2 DEF Stays
  <2> QED
    BY <2>2, <2>4, <2>5 DEF Screen, Current
<1>3. CASE Opens
  <2>1. page' = Fresh /\ IsList(devices')
    BY <1>3 DEF Opens
  <2>2. InRange(page', devices')
    BY <2>1, FreshOK, MaxIndexOK DEF InRange
  <2> QED
    BY <1>3, <2>1, <2>2, FreshOK DEF Opens, Screen, Current
<1> QED
  BY <1>1, <1>2, <1>3 DEF Kind

LEMMA InitInv == Init => Inv
<1> SUFFICES ASSUME Init PROVE Inv
  OBVIOUS
<1>1. PICK s \in Scenario : server = s.world /\ budget = s.budget
  BY DEF Init
<1>2. server \in World /\ budget \in Budget
  BY <1>1, ScenarioAssumption
<1>3. page = Fresh /\ last = None /\ devices = {} /\ unconfigured = {}
  BY DEF Init
<1>4. PageOK(page) /\ IsList(devices) /\ InRange(page, devices)
  BY <1>3, FreshOK, EmptyList, MaxIndexOK DEF InRange
<1>5. CacheOK([k \in {} |-> Empty])
  BY DEF CacheOK
<1>6. KeyOf(Fresh) \in Key
  BY FreshOK, KeyOK DEF PageOK
<1>7. CacheOK(cache) /\ Current \in DOMAIN cache
  <2>1. cache = Observed([k \in {} |-> Empty], KeyOf(Fresh), TRUE)
    BY DEF Init
  <2> QED
    BY <1>3, <1>5, <1>6, <2>1, ObservedOK DEF Current
<1>8. Screen
  BY <1>3, <1>4, <1>7 DEF Screen, LastOK
<1>9. Saved
  <2>1. saved = [views |-> <<>>, storage |-> <<>>, apart |-> FALSE]
    BY DEF Init
  <2>2. ViewList(<<>>)
    BY MaxViewsAssumption DEF ViewList, Distinct
  <2> QED
    BY <2>1, <2>2 DEF Saved
<1> QED
  BY <1>2, <1>3, <1>8, <1>9 DEF Inv

THEOREM PageInvariant == Spec => []Inv
<1>1. Inv /\ [Next]_vars => Inv'
  BY NextKind, KindKeeps
<1> QED
  BY InitInv, <1>1, PTL DEF Spec

-----------------------------------------------------------------------------
\* Type correctness: in particular the query on screen is always in the cache,
\* and every list the page holds is a finite set of devices.
THEOREM TypeCorrect == Spec => []TypeOK
<1>1. Inv => TypeOK
  <2> SUFFICES ASSUME Inv PROVE TypeOK
    OBVIOUS
  <2>1. server \in World /\ unconfigured \subseteq Key /\ budget \in Budget
    BY DEF Inv
  <2>2. devices \subseteq Device /\ page \in Page /\ Current \in DOMAIN cache /\ DOMAIN cache \subseteq Key
    BY DEF Inv, Screen, PageOK, IsList, CacheOK
  <2>3. last \in DOMAIN cache \cup {None}
    BY DEF Inv, Screen, LastOK
  <2>4. \A k \in DOMAIN cache : EntryOK(k)
    BY DEF Inv, Screen, CacheOK, Holds, Loaded, IsList, EntryOK
  <2>5. ViewsOK(saved.views) /\ ViewsOK(saved.storage) /\ saved.apart \in BOOLEAN
    BY DEF Inv, Saved, ViewList, ViewsOK
  <2> QED
    BY <2>1, <2>2, <2>3, <2>4, <2>5 DEF TypeOK
<1> QED
  BY PageInvariant, <1>1, PTL

\* With no timer running the search is the text in the box, whatever was typed,
\* cleared, restored from a view or answered before (the debounce effect of
\* DevicesPage.tsx): for any number of steps, texts and devices.
THEOREM SearchIsInput == Spec => []SearchFollowsInput
<1>1. Inv => SearchFollowsInput
  BY DEF Inv, Screen, PageOK, SearchFollowsInput
<1> QED
  BY PageInvariant, <1>1, PTL

\* Whatever shrinks the list, the open page exists and, when any device
\* matches, shows at least one: for any devices, filters, sorting and page size
\* (the effects on pagination of DevicesPage.tsx).
THEOREM OpenPageExists == Spec => []PageInRange
<1>1. Inv => PageInRange
  <2> SUFFICES ASSUME Inv PROVE PageInRange
    OBVIOUS
  <2>1. InRange(page, devices) /\ IsList(devices) /\ page.sort \in Sorting
    BY DEF Inv, Screen, PageOK, Page
  <2> QED
    BY <2>1, PageHasRows DEF InRange, PageInRange
<1> QED
  BY PageInvariant, <1>1, PTL

\* The saved views of the menu are those a reload brings back unless storing
\* failed or another tab wrote since, and no two share an identifier, for any
\* limit on their number (useSavedViews).
THEOREM ViewsAreKept == Spec => []ViewsPersist
<1>1. Inv => ViewsPersist
  BY DEF Inv, Saved, ViewList, Distinct, ViewsPersist
<1> QED
  BY PageInvariant, <1>1, PTL

\* What a step of each kind does to the page number.
Keeps ==
    /\ page'.index # page.index =>
         \/ budget'.moves # budget.moves /\ page' = [page EXCEPT !.index = page'.index]
         \/ Filters(page') # Filters(page)
         \/ page.index > MaxIndex'
         \/ page' = Fresh
    /\ Filters(page') # Filters(page) /\ page.index <= MaxIndex' => page'.index = 0

LEMMA KindKeepsPage == Inv /\ Kind => Keeps
<1> SUFFICES ASSUME Inv, Kind PROVE Keeps
  OBVIOUS
<1>1. CASE Renders
  <2>1. PICK p, c : /\ PageOK(p) /\ Ready(p, c) /\ Render(p, c)
                    /\ \/ p.index = page.index
                       \/ budget'.moves # budget.moves /\ \E i \in Nat : p = [page EXCEPT !.index = i]
    BY <1>1 DEF Renders
  <2>2. /\ page'.index = Settles(p, devices') /\ Filters(page') = Filters(p)
        /\ page' = [p EXCEPT !.index = page'.index]
        /\ filteredDevices(page', devices') = filteredDevices(p, devices')
    BY <2>1, RenderOK
  <2>3. MaxIndex' = maxPageIndex(Cardinality(filteredDevices(p, devices')))
    BY <2>2 DEF MaxIndex
  <2>4. CASE p.index = page.index
    <3> DEFINE m == maxPageIndex(Cardinality(filteredDevices(p, devices')))
               n == MaxIndex'
    <3>1. page'.index = IF page.index > m THEN m ELSE IF Filters(p) # Filters(page) THEN 0 ELSE page.index
      BY <2>2, <2>4 DEF Settles
    <3>2. m = n
      BY <2>3
    <3> HIDE DEF m, n
    <3>3. \/ page.index > n
          \/ Filters(page') # Filters(page) /\ page'.index = 0
          \/ Filters(page') = Filters(page) /\ page'.index = page.index
      BY <2>2, <3>1, <3>2
    <3>4. ~(page.index > n /\ page.index <= n)
      <4>1. page.index \in Nat
        BY DEF Inv, Screen, PageOK, Page
      <4>2. n \in Nat
        BY <2>1, <2>2, <2>3, RenderOK, MaxIndexOK DEF n, Screen
      <4> QED
        BY <4>1, <4>2
    <3>5. /\ page'.index # page.index => Filters(page') # Filters(page) \/ page.index > n
          /\ Filters(page') # Filters(page) /\ page.index <= n => page'.index = 0
      BY <3>3, <3>4
    <3> QED
      BY <3>5 DEF Keeps, n
  <2>5. CASE budget'.moves # budget.moves /\ \E i \in Nat : p = [page EXCEPT !.index = i]
    <3>1. PICK i \in Nat : p = [page EXCEPT !.index = i]
      BY <2>5
    <3>2. page \in Page
      BY DEF Inv, Screen, PageOK
    <3>3. Filters(page') = Filters(page)
      BY <2>2, <3>1, <3>2, IndexOnly
    <3>4. page' = [page EXCEPT !.index = page'.index]
      BY <2>2, <3>1
    <3> QED
      BY <2>5, <3>3, <3>4 DEF Keeps
  <2> QED
    BY <2>1, <2>4, <2>5
<1>2. CASE Stays
  <2>1. page \in Page
    BY DEF Inv, Screen, PageOK
  <2>2. Filters(page') = Filters(page) /\ page'.index = page.index
    BY <1>2, <2>1, RefreshingOnly DEF Stays
  <2> QED
    BY <2>2 DEF Keeps
<1>3. CASE Opens
  <2>1. page' = Fresh /\ Fresh.index = 0
    BY <1>3 DEF Opens, Fresh
  <2> QED
    BY <2>1 DEF Keeps
<1> QED
  BY <1>1, <1>2, <1>3 DEF Kind

\* Polls, answers, failures and the end of a refresh never move the user to
\* another page that is there, and other filters show their first page unless
\* the open page is beyond their last (autoResetPageIndex and the effects on
\* pagination of DevicesPage.tsx): for any devices, filters and page size.
THEOREM OpenPageKept == Spec => PageKept
<1>1. Inv /\ [Next]_vars => Keeps
  BY NextKind, KindKeepsPage
<1>2. Keeps => [/\ page'.index # page.index =>
                     \/ budget'.moves # budget.moves /\ page' = [page EXCEPT !.index = page'.index]
                     \/ Filters(page') # Filters(page)
                     \/ page.index > MaxIndex'
                     \/ page' = Fresh
                /\ Filters(page') # Filters(page) /\ page.index <= MaxIndex' => page'.index = 0]_vars
  BY DEF Keeps
<1> QED
  BY PageInvariant, <1>1, <1>2, PTL DEF Spec, PageKept
=============================================================================
