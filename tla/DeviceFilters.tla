---------------------------- MODULE DeviceFilters ----------------------------
(***************************************************************************)
(* The pure functions behind the Devices page of the frontend: which       *)
(* devices the filters let through, which filters are on offer, which rows *)
(* and page numbers the table shows, and how an answer of the server is    *)
(* merged into the list on screen (lib/device-semantics.ts, DevicesPage,   *)
(* UnifiedFilterBar, DevicesTable, useDevicesListQuery).                   *)
(*                                                                         *)
(* A device is what these functions look at: words are the search texts    *)
(* its name, MAC, vendor or IP contains, order its place in the sortable   *)
(* columns, link whatever the list does not compare (interfaces, raw       *)
(* sources, updated_at).  A search text that spans two fields is left out. *)
(***************************************************************************)
EXTENDS Integers, FiniteSets

CONSTANTS
    None,
    Mac,                      \* numbers, in the order of the rows of equal rank
    Term,                     \* texts a user may search for; "" is none
    Vendor, Source, Subnet,   \* "Unknown" is the vendor of an unlisted MAC
    Link,
    PageSize                  \* 20 in the code

ASSUME MacAssumption == Mac \subseteq Nat
ASSUME TermAssumption == "" \notin Term
ASSUME SourceAssumption == None \notin Source
ASSUME PageSizeAssumption == PageSize \in Nat \ {0}

Column == {"name", "last_ip", "last_seen"}
RegistrationScope == {"all", "new", "registered", "unregistered"}
OnlineScope == {"any", "online", "offline"}
FacetKind == {"vendors", "sources", "subnets"}
Facets == [vendors : SUBSET (Vendor \cup {"Unknown"}), sources : SUBSET Source,
           subnets : SUBSET (Subnet \cup {"Unknown"})]
NoFacets == [k \in FacetKind |-> {}]

Device ==
    [mac : Mac, words : SUBSET Term, order : [Column -> Nat], status : {"new", "registered"},
     online : BOOLEAN, vendor : Vendor \cup {"Unknown"}, sources : SUBSET Source,
     subnet : Subnet \cup {None}, link : Link]

\* What is in the search box: a text, with or without blanks around it.
Query == [term : Term \cup {""}, padded : BOOLEAN]
NoQuery == [term |-> "", padded |-> FALSE]
trim(q) == q.term
-----------------------------------------------------------------------------
(* Filters.                                                                *)

matchRegistrationScope(d, scope) ==
    CASE scope = "all" -> TRUE
      [] scope = "unregistered" -> d.status # "registered"
      [] OTHER -> d.status = scope

matchOnlineScope(d, scope) == scope = "any" \/ d.online = (scope = "online")

matchSearch(d, q) ==
    trim(q) # "" => trim(q) \in d.words \cup d.sources \cup {d.vendor, d.subnet}

Named(v) == IF v = None THEN "Unknown" ELSE v
matchFacet(v, selected) == selected = {} \/ Named(v) \in selected

\* p: the filters of the page.
filteredDevices(p, devices) ==
    {d \in devices :
        /\ matchRegistrationScope(d, p.segmentation) /\ matchOnlineScope(d, p.online)
        /\ matchSearch(d, p.debounced)
        /\ matchFacet(d.vendor, p.facets.vendors) /\ matchFacet(d.subnet, p.facets.subnets)
        /\ p.facets.sources # {} => d.sources \cap p.facets.sources # {}}

uniqueSorted(values) == {Named(v) : v \in values}
\* The values each filter menu offers.
options(kind, devices) ==
    CASE kind = "vendors" -> uniqueSorted({d.vendor : d \in devices})
      [] kind = "subnets" -> uniqueSorted({d.subnet : d \in devices})
      [] OTHER -> uniqueSorted(UNION {d.sources : d \in devices})

toggleArrayValue(items, v) == IF v \in items THEN items \ {v} ELSE items \cup {v}

Chip(kind, values) == {[kind |-> kind, value |-> v] : v \in values}
\* The chips under the filter bar tell which filters are on.
chips(p) ==
    Chip("query", {trim(p.query)} \ {""}) \cup Chip("segmentation", {p.segmentation} \ {"all"})
        \cup Chip("online", {p.online} \ {"any"}) \cup UNION {Chip(k, p.facets[k]) : k \in FacetKind}
-----------------------------------------------------------------------------
(* Rows and pages.                                                         *)

maxPageIndex(n) == IF n = 0 THEN 0 ELSE (n - 1) \div PageSize
pageCount(n) == maxPageIndex(n) + 1

Before(a, b, sort) ==
    LET x == a.order[sort.id]
        y == b.order[sort.id]
    IN  IF x = y THEN a.mac < b.mac ELSE IF sort.desc THEN y < x ELSE x < y

\* The rows on the page of the table that is open.
rows(p, devices) ==
    LET matching == filteredDevices(p, devices) IN
    {d \in matching :
        Cardinality({e \in matching : Before(e, d, p.sort)}) \div PageSize = p.index}

\* The numbers under the table (counted from 0), and those an ellipsis precedes.
buildPageItems(i, n) ==
    IF n <= 7 THEN 0 .. n - 1 ELSE {0, n - 1, i - 1, i, i + 1} \cap (0 .. n - 1)
Ellipses(i, n) ==
    LET items == buildPageItems(i, n) IN {k \in items : k > 0 /\ k - 1 \notin items}
-----------------------------------------------------------------------------
(* Merging an answer into the list.                                        *)

sameDeviceForList(a, b) == \A f \in DOMAIN a \ {"link"} : a[f] = b[f]

\* A row that looks the same stays the same object, what is not compared included.
mergeDevicesForList(previous, next) ==
    {LET old == {o \in previous : sameDeviceForList(o, d)}
     IN  IF old = {} THEN d ELSE CHOOSE o \in old : TRUE : d \in next}

\* What the list shows of a device.
Listed(d) == [f \in DOMAIN d \ {"link"} |-> d[f]]
=============================================================================
