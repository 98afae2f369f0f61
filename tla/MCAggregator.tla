---------------------------- MODULE MCAggregator ----------------------------
(***************************************************************************)
(* Small snapshots for TLC: device a may have two leases and two radios,   *)
(* device b shares the tables so that a mix-up of MACs would show.         *)
(***************************************************************************)
EXTENDS Aggregator

CONSTANTS a, b, ip1, ip2

Stamped(form, v) == [form |-> form, v |-> v]
Stamps == {Stamped("blank", 0), Stamped("units", 0), Stamped("units", DHCPRecent),
           Stamped("clock", DHCPRecent + 1), Stamped("date", Now + 1)}
WiFiStamps == {Stamped("blank", 0), Stamped("units", WiFiIdle), Stamped("units", WiFiIdle + 4)}

Leases ==
    {[mac |-> a, address |-> addr, host |-> addr = None, status |-> st, last |-> s] :
        addr \in {None, ip1}, st \in {"bound", "waiting"}, s \in Stamps}
    \cup {[mac |-> b, address |-> ip2, host |-> FALSE, status |-> "", last |-> Stamped("units", 3)]}
Radios == {[mac |-> a, iface |-> TRUE, last |-> s] : s \in WiFiStamps}
Entries == {[mac |-> a, address |-> addr, complete |-> c] : addr \in {None, ip2}, c \in BOOLEAN}
Hosts == {[mac |-> m, port |-> TRUE] : m \in {a, b}}

UpTo(n, S) == UNION {[1..k -> S] : k \in 0..n}

SnapshotsMC ==
    [dhcp : UpTo(2, Leases), wifi : UpTo(2, Radios), arp : UpTo(1, Entries),
     bridge : UpTo(1, Hosts)]
=============================================================================
