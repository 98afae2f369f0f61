----------------------------- MODULE Aggregator -----------------------------
(***************************************************************************)
(* aggregator.Aggregate: four passes over one router snapshot merge its    *)
(* DHCP, Wi-Fi, ARP and bridge rows into one observation per MAC; a last   *)
(* loop evaluates the presence status.  One action is one iteration of one *)
(* of these loops, so the order of rows and passes is the code's.          *)
(***************************************************************************)
EXTENDS Presence, Sequences

CONSTANTS
    MAC,          \* device addresses
    IP,           \* addresses
    Now,          \* snapshot.FetchedAt
    WiFiIdle,     \* PresenceThresholds.WiFiIdleThreshold
    DHCPRecent,   \* PresenceThresholds.DHCPRecentThreshold
    Snapshots     \* the snapshots the router may return

\* An age column as RouterOS prints it: nothing, a duration in units ("2m10s"),
\* a duration as hh:mm:ss, or a date.
Stamp == [form : {"blank", "units", "clock", "date"}, v : Nat]

DHCPLease == [mac : MAC, address : Opt(IP), host : BOOLEAN,
              status : {"", "bound", "waiting"}, last : Stamp]
WiFiRegistration == [mac : MAC, iface : BOOLEAN, last : Stamp]
ARPEntry == [mac : MAC, address : Opt(IP), complete : BOOLEAN]
BridgeHost == [mac : MAC, port : BOOLEAN]
Tables == {"dhcp", "wifi", "arp", "bridge"}
Snapshot == [dhcp : Seq(DHCPLease), wifi : Seq(WiFiRegistration),
             arp : Seq(ARPEntry), bridge : Seq(BridgeHost)]

ASSUME AggregatorAssumption ==
    /\ Now \in Nat /\ WiFiIdle \in Nat /\ DHCPRecent \in Nat
    /\ None \notin Int /\ None \notin IP
    /\ Snapshots \subseteq Snapshot

Observed == [sources : SUBSET Tables,
             ip : Opt(IP), host : BOOLEAN,
             dhcpStatus : {"", "bound", "waiting"}, dhcpAge : Opt(Nat),
             wifi : BOOLEAN, wifiAge : Opt(Nat),
             arpIP : Opt(IP), arpComplete : BOOLEAN, port : BOOLEAN,
             lastSeen : Opt(Int), status : {""} \cup Status]

ASSUME ObservedAssumption == None \notin Observed

VARIABLES
    snap,         \* the snapshot
    cursor,       \* the next row of each table
    result,       \* observations by MAC
    priorities,   \* which source LastSeenAt came from, by MAC; None if none
    done          \* Aggregate has returned

vars == <<snap, cursor, result, priorities, done>>

-----------------------------------------------------------------------------
\* A date counts by its distance from now, whichever side it is on; a zero
\* duration in units is refused, one in hh:mm:ss is not.
parseRouterOSAge(stamp) ==
    CASE stamp.form = "blank" -> None
      [] stamp.form = "units" -> IF stamp.v = 0 THEN None ELSE stamp.v
      [] stamp.form = "clock" -> stamp.v
      [] stamp.form = "date"  -> IF stamp.v > Now THEN stamp.v - Now ELSE Now - stamp.v

NewObservation ==
    [sources |-> {}, ip |-> None, host |-> FALSE, dhcpStatus |-> "", dhcpAge |-> None,
     wifi |-> FALSE, wifiAge |-> None, arpIP |-> None, arpComplete |-> FALSE,
     port |-> FALSE, lastSeen |-> None, status |-> ""]

getObservation(m) == IF result[m] = None THEN NewObservation ELSE result[m]

\* Mutant: the latest row wins whatever its source.
TakesLastSeen_Always(o, m, priority) == TRUE

\* Whether setLastSeen replaces the time held so far.
TakesLastSeen(o, m, priority) ==
    priorities[m] = None \/ priority < priorities[m] \/ o.lastSeen = None

\* obs after setLastSeen(obs, ts, priority); ts = None stands for no call.
setLastSeen(o, m, ts, priority) ==
    IF ts # None /\ TakesLastSeen(o, m, priority) THEN [o EXCEPT !.lastSeen = ts] ELSE o

SetPriority(o, m, ts, priority) ==
    priorities' = IF ts # None /\ TakesLastSeen(o, m, priority)
                  THEN [priorities EXCEPT ![m] = priority] ELSE priorities

\* Store the merged row and its time.
Merge(m, o, ts, priority) ==
    /\ result' = [result EXCEPT ![m] = setLastSeen(o, m, ts, priority)]
    /\ SetPriority(o, m, ts, priority)

\* The loops over the four tables: whether one is finished, its current row.
Merged(table) == cursor[table] > Len(snap[table])
Row(table) == snap[table][cursor[table]]
Advance(table) ==
    /\ ~Merged(table)
    /\ cursor' = [cursor EXCEPT ![table] = @ + 1]
    /\ UNCHANGED <<snap, done>>

-----------------------------------------------------------------------------
Init ==
    /\ snap \in Snapshots
    /\ cursor = [dhcp |-> 1, wifi |-> 1, arp |-> 1, bridge |-> 1]
    /\ result = [m \in MAC |-> None]
    /\ priorities = [m \in MAC |-> None]
    /\ done = FALSE

\* 1) A lease: the last non-blank address and the last status win, and so
\*    does the last age that could be parsed.
DHCPPass ==
    /\ ~done /\ Advance("dhcp")
    /\ LET lease == Row("dhcp")
           o     == getObservation(lease.mac)
           age   == parseRouterOSAge(lease.last)
           next  == [o EXCEPT !.sources = @ \cup {"dhcp"},
                              !.ip = IF lease.address # None THEN lease.address ELSE @,
                              !.host = @ \/ lease.host,
                              !.dhcpStatus = lease.status,
                              !.dhcpAge = IF age # None THEN age ELSE @]
       IN  Merge(lease.mac, next, IF age # None THEN Now - age ELSE None, 2)

\* 2) A Wi-Fi registration: without an age the client counts as active now.
WiFiPass ==
    /\ ~done /\ Merged("dhcp") /\ Advance("wifi")
    /\ LET reg  == Row("wifi")
           o    == getObservation(reg.mac)
           age  == parseRouterOSAge(reg.last)
           next == [o EXCEPT !.sources = @ \cup {"wifi"},
                             !.wifi = reg.iface,
                             !.wifiAge = IF age # None THEN age ELSE @]
       IN  Merge(reg.mac, next, IF age # None THEN Now - age ELSE Now, 1)

\* 3) An ARP entry: its address counts only when DHCP gave none, and only a
\*    complete entry (this one or an earlier one of the MAC) is a sighting.
ARPPass ==
    /\ ~done /\ Merged("dhcp") /\ Merged("wifi") /\ Advance("arp")
    /\ LET arp  == Row("arp")
           o    == getObservation(arp.mac)
           next == [o EXCEPT !.sources = @ \cup {"arp"},
                             !.arpIP = arp.address,
                             !.arpComplete = @ \/ arp.complete,
                             !.ip = IF @ = None THEN arp.address ELSE @]
       IN  Merge(arp.mac, next, IF next.arpComplete THEN Now ELSE None, 3)

\* 4) A bridge host.
BridgePass ==
    /\ ~done /\ Merged("dhcp") /\ Merged("wifi") /\ Merged("arp") /\ Advance("bridge")
    /\ LET host == Row("bridge")
           next == [getObservation(host.mac) EXCEPT !.sources = @ \cup {"bridge"},
                                                    !.port = host.port]
       IN  Merge(host.mac, next, Now, 4)

-----------------------------------------------------------------------------
wifiActive(o) == o.wifi /\ (o.wifiAge = None \/ o.wifiAge <= WiFiIdle)
dhcpBound(o) == o.dhcpStatus = "bound"

\* Mutants: a strict comparison; any dated lease counts.
dhcpRecent_Strict(o) == dhcpBound(o) /\ o.dhcpAge # None /\ o.dhcpAge < DHCPRecent
dhcpRecent_Undated(o) == dhcpBound(o) /\ (o.dhcpAge = None \/ o.dhcpAge <= DHCPRecent)
dhcpRecent(o) == dhcpBound(o) /\ o.dhcpAge # None /\ o.dhcpAge <= DHCPRecent

arpValid(o) == o.arpComplete /\ o.arpIP # None

hasAnyTrace(o) ==
    \/ o.sources # {} \/ o.ip # None \/ o.host \/ o.dhcpStatus # ""
    \/ o.wifi \/ o.arpIP # None \/ o.port

evaluateObservedStatus(o) ==
    IF wifiActive(o) \/ dhcpRecent(o) \/ arpValid(o) THEN "ONLINE"
    ELSE IF dhcpBound(o) \/ hasAnyTrace(o) THEN "IDLE_RECENT"
    ELSE "UNKNOWN"

\* The closing loop over the merged observations.
EvaluateAll ==
    /\ ~done
    /\ \A table \in Tables : Merged(table)
    /\ result' = [m \in MAC |->
           IF result[m] = None THEN None
           ELSE [result[m] EXCEPT !.status = evaluateObservedStatus(result[m])]]
    /\ done' = TRUE
    /\ UNCHANGED <<snap, cursor, priorities>>

Next == DHCPPass \/ WiFiPass \/ ARPPass \/ BridgePass \/ EvaluateAll

Spec == Init /\ [][Next]_vars

-----------------------------------------------------------------------------
TypeOK ==
    /\ snap \in Snapshot
    /\ cursor \in [Tables -> Nat \ {0}]
    /\ result \in [MAC -> Opt(Observed)]
    /\ priorities \in [MAC -> Opt(1..4)]
    /\ done \in BOOLEAN

\* What the device service is handed: an observation as Presence describes it.
Digest(o) ==
    [status |-> o.status,
     age    |-> IF o.lastSeen = None THEN None ELSE Now - o.lastSeen,
     ip     |-> o.ip # None,
     trace  |-> o.host \/ o.dhcpStatus # "" \/ o.wifi \/ o.arpIP # None \/ o.port,
     host   |-> o.host]

\* Aggregate only ever hands over observations that are ONLINE or
\* IDLE_RECENT, whose LastSeenAt is not in the future, and whose ONLINE
\* verdict comes with a time and a trace, however rows of several leases,
\* radios and ARP entries of one MAC were mixed (aggregator.go 40-208).
HandsOverObservations ==
    done => \A m \in MAC : result[m] # None => Digest(result[m]) \in Observation

(***************************************************************************)
(* Reference definitions, over the snapshot as a whole.                    *)
(***************************************************************************)
RowsOf(table, m) == {i \in DOMAIN snap[table] : snap[table][i].mac = m}
First(S) == CHOOSE i \in S : \A j \in S : i <= j
AgeOf(table, i) == parseRouterOSAge(snap[table][i].last)

\* The best source that gives a time: Wi-Fi, then DHCP, then the presence of
\* a complete ARP entry or of a bridge host; within a source the first row.
LastSeenReference(m) ==
    LET radios == RowsOf("wifi", m)
        leases == {i \in RowsOf("dhcp", m) : AgeOf("dhcp", i) # None}
        live   == \/ \E i \in RowsOf("arp", m) : snap.arp[i].complete
                  \/ RowsOf("bridge", m) # {}
    IN  IF radios # {} THEN
            LET age == AgeOf("wifi", First(radios)) IN IF age = None THEN Now ELSE Now - age
        ELSE IF leases # {} THEN Now - AgeOf("dhcp", First(leases))
        ELSE IF live THEN Now ELSE None

\* LastSeenAt is the time of the most trusted source, per MAC, whatever the
\* order and number of rows (aggregator.go 235-245).
LastSeenByPriority ==
    done => \A m \in MAC : result[m] # None => result[m].lastSeen = LastSeenReference(m)

\* A MAC with at most one row per table is ONLINE exactly when one of those
\* rows by itself shows it: a Wi-Fi client active within the idle threshold,
\* a bound lease seen within the recent threshold, a complete ARP entry with
\* an address (aggregator.go 160-208).
OnlineByEvidence ==
    done => \A m \in MAC :
        (\A table \in Tables : \A i, j \in RowsOf(table, m) : i = j) =>
        (result[m] # None /\ result[m].status = "ONLINE" <=>
            \/ \E i \in RowsOf("wifi", m) :
                  /\ snap.wifi[i].iface
                  /\ AgeOf("wifi", i) = None \/ AgeOf("wifi", i) <= WiFiIdle
            \/ \E i \in RowsOf("dhcp", m) :
                  /\ snap.dhcp[i].status = "bound"
                  /\ AgeOf("dhcp", i) # None /\ AgeOf("dhcp", i) <= DHCPRecent
            \/ \E i \in RowsOf("arp", m) :
                  snap.arp[i].complete /\ snap.arp[i].address # None)
=============================================================================
