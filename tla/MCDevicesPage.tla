---------------------------- MODULE MCDevicesPage ----------------------------
(***************************************************************************)
(* Values of DevicesPage's constants for TLC.                              *)
(***************************************************************************)
EXTENDS DevicesPage

Row(mac, words, seen, status, online, vendor, sources, subnet, link) ==
    [mac |-> mac, words |-> words, status |-> status, online |-> online, vendor |-> vendor,
     sources |-> sources, subnet |-> subnet, link |-> link,
     order |-> [c \in Column |-> IF c = "last_seen" THEN seen ELSE IF c = "last_ip" THEN 3 - mac ELSE mac]]

a == Row(1, {"x"}, 2, "registered", TRUE, "acme", {"dhcp"}, "lan", "ether1")
b == Row(2, {"x"}, 1, "new", FALSE, "Unknown", {"arp"}, None, "ether1")
c == Row(3, {}, 2, "new", TRUE, "acme", {"dhcp", "arp"}, "lan", "ether1")
\* Afterwards a has gone offline, b has moved to another port, c is registered.
Before1 == {a, b, c}
After1 == {[a EXCEPT !.online = FALSE], [b EXCEPT !.link = "ether2"], [c EXCEPT !.status = "registered"]}
Worlds == {Before1, After1, {}}

Typed == {NoQuery, [term |-> "", padded |-> TRUE], [term |-> "x", padded |-> FALSE],
          [term |-> "x", padded |-> TRUE], [term |-> "lan", padded |-> FALSE]}

From(world, moves, steps, faults, outside) ==
    [world |-> world, budget |-> [moves |-> moves, steps |-> steps, faults |-> faults, outside |-> outside]]

\* Typing; filters and pages; chips; saved views with a second tab; faults and
\* changes of the server while the page polls, is paused or refreshed.
Scenarios == {
    From(Before1, 3, {"query", "page"}, 0, 0),
    From(Before1, 3, {"segmentation", "online", "page"}, 0, 0),
    From(Before1, 2, {"facet", "chip"}, 0, 0),
    From(Before1, 3, {"query", "clear", "chip"}, 0, 0),
    From(Before1, 4, {"online", "save", "apply", "delete", "tab", "mount"}, 0, 0),
    From(Before1, 3, {"query", "save", "apply"}, 1, 0),
    From(Before1, 2, {"page", "sort", "segmentation"}, 1, 1),
    From({}, 2, {"pause", "refresh", "focus", "online"}, 2, 1)}

\* The numbers under the table against what a reader expects of them: the
\* first, the last, the open page and its neighbours, all of them up to seven
\* pages, and an ellipsis exactly where numbers are missing.
ASSUME PageItemsAssumption ==
    \A n \in 1 .. 12 : \A i \in 0 .. n - 1 :
        LET items == buildPageItems(i, n) IN
        /\ {0, i, n - 1} \subseteq items /\ items \subseteq 0 .. n - 1
        /\ \A j \in 0 .. n - 1 : j \in {i - 1, i + 1} \/ n <= 7 => j \in items
        /\ \A j \in 0 .. n - 1 :
             j \notin items => \E k \in Ellipses(i, n) : k > j /\ \A m \in j .. k - 1 : m \notin items
=============================================================================
