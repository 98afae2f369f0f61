-------------------------- MODULE AggregatorProofs --------------------------
(***************************************************************************)
(* Aggregate hands over well-formed observations, dated by their best      *)
(* source and ONLINE by evidence of their own, for every snapshot of any   *)
(* size, any thresholds and any set of devices.                            *)
(***************************************************************************)
EXTENDS Aggregator, TLAPS

\* Every source that can make a device ONLINE has also dated it, and no
\* observation is dated in the future.
Dated(o) ==
    /\ o.sources # {}
    /\ o.wifi => o.lastSeen # None
    /\ o.dhcpAge # None => o.lastSeen # None
    /\ o.arpComplete => o.lastSeen # None
    /\ o.lastSeen # None => o.lastSeen <= Now

Evaluated(o) == o.status = evaluateObservedStatus(o)

IInv ==
    /\ TypeOK
    /\ \A m \in MAC : result[m] # None => Dated(result[m]) /\ (done => Evaluated(result[m]))

-----------------------------------------------------------------------------
\* A parsed age is a natural number (timeparse.go 26-44).
LEMMA AgeTyped ==
    ASSUME NEW stamp \in Stamp
    PROVE  parseRouterOSAge(stamp) \in Opt(Nat)
BY AggregatorAssumption DEF parseRouterOSAge, Stamp, Opt

LEMMA ObservationTyped ==
    ASSUME TypeOK, NEW m \in MAC
    PROVE  /\ getObservation(m) \in Observed
           /\ result[m] # None => getObservation(m) = result[m]
           /\ result[m] = None => getObservation(m) = NewObservation
BY DEF TypeOK, getObservation, NewObservation, Observed, Opt, Status, Tables

\* The current row of a table that is not finished has the table's type.
LEMMA RowTyped ==
    ASSUME TypeOK
    PROVE  /\ ~Merged("dhcp") => Row("dhcp") \in DHCPLease
           /\ ~Merged("wifi") => Row("wifi") \in WiFiRegistration
           /\ ~Merged("arp") => Row("arp") \in ARPEntry
           /\ ~Merged("bridge") => Row("bridge") \in BridgeHost
BY DEF TypeOK, Merged, Row, Snapshot, Tables

\* Merging a row preserves the invariant when the row either dates the
\* observation or adds nothing that would need a date.
LEMMA MergeStep ==
    ASSUME IInv, NEW m \in MAC, NEW o \in Observed, NEW ts \in Opt(Int),
           NEW priority \in 1..4, Merge(m, o, ts, priority), ~done, UNCHANGED <<snap, done>>,
           cursor' \in [Tables -> Nat \ {0}],
           o.sources # {},
           o.lastSeen # None => o.lastSeen <= Now,
           ts # None => ts <= Now,
           ts = None =>
              /\ o.wifi => o.lastSeen # None
              /\ o.dhcpAge # None => o.lastSeen # None
              /\ o.arpComplete => o.lastSeen # None
    PROVE  IInv'
<1> DEFINE next == setLastSeen(o, m, ts, priority)
<1>1. next \in Observed
  <2>1. CASE ts # None /\ TakesLastSeen(o, m, priority)
    <3>1. next = [o EXCEPT !.lastSeen = ts]
        BY <2>1 DEF setLastSeen
    <3> QED
        BY <3>1 DEF Observed, Opt
  <2>2. CASE ~(ts # None /\ TakesLastSeen(o, m, priority))
        BY <2>2 DEF setLastSeen
  <2> QED
        BY <2>1, <2>2
<1>2. Dated(next)
  <2>1. CASE ts # None /\ TakesLastSeen(o, m, priority)
    <3>1. next = [o EXCEPT !.lastSeen = ts]
        BY <2>1 DEF setLastSeen
    <3>2. next.sources = o.sources /\ next.lastSeen = ts
        BY <3>1 DEF Observed
    <3> HIDE DEF next
    <3> QED
        BY <2>1, <3>2 DEF Dated
  <2>2. CASE ~(ts # None /\ TakesLastSeen(o, m, priority))
    <3>1. next = o
        BY <2>2 DEF setLastSeen
    <3>2. ts # None => o.lastSeen # None
        BY <2>2 DEF TakesLastSeen
    <3> QED
        BY <3>1, <3>2 DEF Dated
  <2> QED
      BY <2>1, <2>2
<1>3. result' = [result EXCEPT ![m] = next]
    BY DEF Merge
<1>4. priorities' \in [MAC -> Opt(1..4)]
    BY DEF Merge, SetPriority, IInv, TypeOK, Opt
<1> HIDE DEF next
<1>5. result' \in [MAC -> Opt(Observed)]
    BY <1>1, <1>3 DEF IInv, TypeOK, Opt
<1>6. ASSUME NEW k \in MAC, result'[k] # None
      PROVE  Dated(result'[k])
    BY <1>2, <1>3, <1>6 DEF IInv, TypeOK
<1> QED
    BY <1>4, <1>5, <1>6 DEF IInv, TypeOK, Dated

\* The observation a row is merged into: dated as far as it needs to be.
LEMMA BaseDated ==
    ASSUME IInv, NEW m \in MAC
    PROVE  LET o == getObservation(m)
           IN  /\ o \in Observed
               /\ o.wifi => o.lastSeen # None
               /\ o.dhcpAge # None => o.lastSeen # None
               /\ o.arpComplete => o.lastSeen # None
               /\ o.lastSeen # None => o.lastSeen <= Now
<1>1. CASE result[m] = None
  <2>1. /\ NewObservation.wifi = FALSE /\ NewObservation.dhcpAge = None
        /\ NewObservation.arpComplete = FALSE /\ NewObservation.lastSeen = None
      BY DEF NewObservation
  <2>2. getObservation(m) = NewObservation /\ getObservation(m) \in Observed
      BY <1>1, ObservationTyped DEF IInv
  <2> QED
      BY <2>1, <2>2
<1>2. CASE result[m] # None
    BY <1>2, ObservationTyped DEF IInv, Dated
<1> QED
    BY <1>1, <1>2

LEMMA AdvanceCursor ==
    ASSUME IInv, NEW table \in Tables, Advance(table)
    PROVE  cursor' \in [Tables -> Nat \ {0}] /\ UNCHANGED <<snap, done>>
BY DEF IInv, TypeOK, Advance

LEMMA DHCPStep == IInv /\ DHCPPass => IInv'
<1> SUFFICES ASSUME IInv, DHCPPass PROVE IInv'
    OBVIOUS
<1> DEFINE lease == Row("dhcp")
           o     == getObservation(lease.mac)
           age   == parseRouterOSAge(lease.last)
           next  == [o EXCEPT !.sources = @ \cup {"dhcp"},
                              !.ip = IF lease.address # None THEN lease.address ELSE @,
                              !.host = @ \/ lease.host,
                              !.dhcpStatus = lease.status,
                              !.dhcpAge = IF age # None THEN age ELSE @]
           ts    == IF age # None THEN Now - age ELSE None
<1>1. ~done /\ Advance("dhcp") /\ Merge(lease.mac, next, ts, 2)
    BY DEF DHCPPass
<1>2. lease \in DHCPLease /\ lease.mac \in MAC
    BY <1>1, RowTyped DEF IInv, Advance, DHCPLease
<1>3. age \in Opt(Nat)
    BY <1>2, AgeTyped DEF DHCPLease
<1>4. /\ o \in Observed
      /\ o.wifi => o.lastSeen # None
      /\ o.dhcpAge # None => o.lastSeen # None
      /\ o.arpComplete => o.lastSeen # None
      /\ o.lastSeen # None => o.lastSeen <= Now
    BY <1>2, BaseDated
<1>5. lease.address \in Opt(IP) /\ lease.host \in BOOLEAN
      /\ lease.status \in {"", "bound", "waiting"}
    BY <1>2 DEF DHCPLease
<1>6. cursor' \in [Tables -> Nat \ {0}] /\ UNCHANGED <<snap, done>>
    BY <1>1, AdvanceCursor DEF Tables
<1>7. ts \in Opt(Int) /\ (ts # None => ts <= Now) /\ (ts = None => age = None)
    BY <1>3, AggregatorAssumption DEF Opt
<1> HIDE DEF lease, age, ts
<1>8. next \in Observed
  <2> DEFINE addr == IF lease.address # None THEN lease.address ELSE o.ip
             named == o.host \/ lease.host
             ageOf == IF age # None THEN age ELSE o.dhcpAge
  <2>1. addr \in Opt(IP) /\ ageOf \in Opt(Nat)
      BY <1>3, <1>4, <1>5 DEF Observed
  <2>2. named \in BOOLEAN
      OBVIOUS
  <2>3. next = [o EXCEPT !.sources = o.sources \cup {"dhcp"}, !.ip = addr, !.host = named,
                         !.dhcpStatus = lease.status, !.dhcpAge = ageOf]
      BY <1>4 DEF Observed
  <2> HIDE DEF addr, named, ageOf, next, o
  <2> QED
      BY <1>4, <1>5, <2>1, <2>2, <2>3 DEF Observed, Tables
<1>9. /\ next.sources # {} /\ next.lastSeen = o.lastSeen /\ next.wifi = o.wifi
      /\ next.arpComplete = o.arpComplete
      /\ (age = None => next.dhcpAge = o.dhcpAge)
    BY <1>4 DEF Observed
<1> HIDE DEF o, next
<1> QED
    BY <1>1, <1>2, <1>4, <1>6, <1>7, <1>8, <1>9, MergeStep

LEMMA WiFiStep == IInv /\ WiFiPass => IInv'
<1> SUFFICES ASSUME IInv, WiFiPass PROVE IInv'
    OBVIOUS
<1> DEFINE reg  == Row("wifi")
           o    == getObservation(reg.mac)
           age  == parseRouterOSAge(reg.last)
           next == [o EXCEPT !.sources = @ \cup {"wifi"},
                             !.wifi = reg.iface,
                             !.wifiAge = IF age # None THEN age ELSE @]
           ts   == IF age # None THEN Now - age ELSE Now
<1>1. ~done /\ Advance("wifi") /\ Merge(reg.mac, next, ts, 1)
    BY DEF WiFiPass
<1>2. reg \in WiFiRegistration /\ reg.mac \in MAC
    BY <1>1, RowTyped DEF IInv, Advance, WiFiRegistration
<1>3. age \in Opt(Nat)
    BY <1>2, AgeTyped DEF WiFiRegistration
<1>4. o \in Observed /\ (o.lastSeen # None => o.lastSeen <= Now)
    BY <1>2, BaseDated
<1>5. reg.iface \in BOOLEAN
    BY <1>2 DEF WiFiRegistration
<1>6. cursor' \in [Tables -> Nat \ {0}] /\ UNCHANGED <<snap, done>>
    BY <1>1, AdvanceCursor DEF Tables
<1>7. ts \in Opt(Int) /\ ts <= Now /\ ts # None
    BY <1>3, AggregatorAssumption DEF Opt
<1> HIDE DEF reg, age, ts
<1>8. next \in Observed
    BY <1>3, <1>4, <1>5 DEF Observed, Opt, Tables
<1>9. next.sources # {} /\ next.lastSeen = o.lastSeen
    BY <1>4 DEF Observed
<1> HIDE DEF o, next
<1> QED
    BY <1>1, <1>2, <1>4, <1>6, <1>7, <1>8, <1>9, MergeStep

LEMMA ARPStep == IInv /\ ARPPass => IInv'
<1> SUFFICES ASSUME IInv, ARPPass PROVE IInv'
    OBVIOUS
<1> DEFINE arp  == Row("arp")
           o    == getObservation(arp.mac)
           next == [o EXCEPT !.sources = @ \cup {"arp"},
                             !.arpIP = arp.address,
                             !.arpComplete = @ \/ arp.complete,
                             !.ip = IF @ = None THEN arp.address ELSE @]
           ts   == IF next.arpComplete THEN Now ELSE None
<1>1. ~done /\ Advance("arp") /\ Merge(arp.mac, next, ts, 3)
    BY DEF ARPPass
<1>2. arp \in ARPEntry /\ arp.mac \in MAC
    BY <1>1, RowTyped DEF IInv, Advance, ARPEntry
<1>4. /\ o \in Observed
      /\ o.wifi => o.lastSeen # None
      /\ o.dhcpAge # None => o.lastSeen # None
      /\ o.lastSeen # None => o.lastSeen <= Now
    BY <1>2, BaseDated
<1>5. arp.address \in Opt(IP) /\ arp.complete \in BOOLEAN
    BY <1>2 DEF ARPEntry
<1>6. cursor' \in [Tables -> Nat \ {0}] /\ UNCHANGED <<snap, done>>
    BY <1>1, AdvanceCursor DEF Tables
<1> HIDE DEF arp
<1>8. next \in Observed
  <2> DEFINE addr == IF o.ip = None THEN arp.address ELSE o.ip
             complete == o.arpComplete \/ arp.complete
  <2>1. addr \in Opt(IP)
      BY <1>4, <1>5 DEF Observed
  <2>2. complete \in BOOLEAN
      OBVIOUS
  <2>3. next = [o EXCEPT !.sources = o.sources \cup {"arp"}, !.arpIP = arp.address,
                         !.arpComplete = complete, !.ip = addr]
      BY <1>4 DEF Observed
  <2> HIDE DEF addr, complete, next, o
  <2> QED
      BY <1>4, <1>5, <2>1, <2>2, <2>3 DEF Observed, Tables
<1>9. /\ next.sources # {} /\ next.lastSeen = o.lastSeen /\ next.wifi = o.wifi
      /\ next.dhcpAge = o.dhcpAge
    BY <1>4 DEF Observed
<1> HIDE DEF o, next
<1>10. ts \in Opt(Int) /\ (ts # None => ts <= Now) /\ (ts = None => ~next.arpComplete)
    BY AggregatorAssumption DEF Opt
<1> HIDE DEF ts
<1> QED
    BY <1>1, <1>2, <1>4, <1>6, <1>8, <1>9, <1>10, MergeStep

LEMMA BridgeStep == IInv /\ BridgePass => IInv'
<1> SUFFICES ASSUME IInv, BridgePass PROVE IInv'
    OBVIOUS
<1> DEFINE host == Row("bridge")
           o    == getObservation(host.mac)
           next == [o EXCEPT !.sources = @ \cup {"bridge"}, !.port = host.port]
<1>1. ~done /\ Advance("bridge") /\ Merge(host.mac, next, Now, 4)
    BY DEF BridgePass
<1>2. host \in BridgeHost /\ host.mac \in MAC
    BY <1>1, RowTyped DEF IInv, Advance, BridgeHost
<1>4. o \in Observed /\ (o.lastSeen # None => o.lastSeen <= Now)
    BY <1>2, BaseDated
<1>5. host.port \in BOOLEAN
    BY <1>2 DEF BridgeHost
<1>6. cursor' \in [Tables -> Nat \ {0}] /\ UNCHANGED <<snap, done>>
    BY <1>1, AdvanceCursor DEF Tables
<1>7. Now \in Opt(Int) /\ Now <= Now /\ Now # None
    BY AggregatorAssumption DEF Opt
<1> HIDE DEF host
<1>8. next \in Observed
    BY <1>4, <1>5 DEF Observed, Tables
<1>9. next.sources # {} /\ next.lastSeen = o.lastSeen
    BY <1>4 DEF Observed
<1> HIDE DEF o, next
<1> QED
    BY <1>1, <1>2, <1>4, <1>6, <1>7, <1>8, <1>9, MergeStep

LEMMA EvaluateStep == IInv /\ EvaluateAll => IInv'
<1> SUFFICES ASSUME IInv, EvaluateAll PROVE IInv'
    OBVIOUS
<1>1. ASSUME NEW m \in MAC, result[m] # None
      PROVE  /\ result'[m] \in Observed
             /\ Dated(result'[m])
             /\ Evaluated(result'[m])
  <2> DEFINE o == result[m]
             s == evaluateObservedStatus(o)
  <2>1. o \in Observed /\ Dated(o)
      BY <1>1 DEF IInv, TypeOK, Opt
  <2>2. s \in Status
      BY DEF evaluateObservedStatus, Status
  <2>3. result'[m] = [o EXCEPT !.status = s]
      BY <1>1 DEF EvaluateAll
  <2>4. s = evaluateObservedStatus(o)
      OBVIOUS
  <2> HIDE DEF o, s
  <2>5. result'[m] \in Observed
      BY <2>1, <2>2, <2>3 DEF Observed
  <2>6. Dated(result'[m])
      BY <2>1, <2>3 DEF Observed, Dated
  <2>7. result'[m].status = s
        /\ evaluateObservedStatus(result'[m]) = evaluateObservedStatus(o)
      BY <2>1, <2>3 DEF Observed, evaluateObservedStatus, wifiActive, dhcpRecent, dhcpBound,
                        arpValid, hasAnyTrace
  <2> QED
      BY <2>4, <2>5, <2>6, <2>7 DEF Evaluated
<1>2. \A m \in MAC : result[m] = None => result'[m] = None
    BY DEF EvaluateAll
<1>3. TypeOK'
    BY <1>1, <1>2 DEF EvaluateAll, IInv, TypeOK, Opt
<1>4. ASSUME NEW m \in MAC, result'[m] # None
      PROVE  (Dated(result[m]) /\ Evaluated(result[m]))'
    BY <1>1, <1>2, <1>4 DEF Dated, Evaluated, evaluateObservedStatus, wifiActive,
                            dhcpRecent, dhcpBound, arpValid, hasAnyTrace
<1> QED
    BY <1>3, <1>4 DEF IInv

LEMMA InitStep == Init => IInv
<1> SUFFICES ASSUME Init PROVE IInv
    OBVIOUS
<1>1. cursor \in [Tables -> Nat \ {0}]
    BY DEF Init, Tables
<1> QED
    BY <1>1, AggregatorAssumption DEF Init, IInv, TypeOK, Opt

\* The merged observations are dated and, at the end, evaluated.
THEOREM Inductive == Spec => []IInv
<1>1. IInv /\ UNCHANGED vars => IInv'
  <2> SUFFICES ASSUME IInv, UNCHANGED vars PROVE IInv'
      OBVIOUS
  <2>1. TypeOK'
      BY DEF IInv, TypeOK, vars
  <2>2. ASSUME NEW m \in MAC, result'[m] # None
        PROVE  (Dated(result[m]) /\ (done => Evaluated(result[m])))'
    <3>1. Dated(result[m]) /\ (done => Evaluated(result[m]))
          /\ result' = result /\ done' = done
        BY <2>2 DEF IInv, vars
    <3> QED
        BY <3>1 DEF Dated, Evaluated, evaluateObservedStatus, wifiActive,
                    dhcpRecent, dhcpBound, arpValid, hasAnyTrace
  <2> QED
      BY <2>1, <2>2 DEF IInv
<1>2. IInv /\ [Next]_vars => IInv'
    BY <1>1, DHCPStep, WiFiStep, ARPStep, BridgeStep, EvaluateStep DEF Next
<1> QED
    BY InitStep, <1>2, PTL DEF Spec

\* An evaluated, dated observation is one the device service expects.
LEMMA DigestTyped ==
    ASSUME NEW o \in Observed, Dated(o), Evaluated(o)
    PROVE  Digest(o) \in Observation
<1>1. o.status \in {"ONLINE", "IDLE_RECENT"}
    BY DEF Evaluated, evaluateObservedStatus, hasAnyTrace, Dated
<1>2. o.status = "ONLINE" => o.lastSeen # None
    BY DEF Evaluated, evaluateObservedStatus, wifiActive, dhcpRecent, dhcpBound, arpValid,
           hasAnyTrace, Dated
<1>3. o.status = "ONLINE" => o.dhcpStatus # "" \/ o.wifi \/ o.arpIP # None
    BY DEF Evaluated, evaluateObservedStatus, wifiActive, dhcpRecent, dhcpBound, arpValid,
           hasAnyTrace
<1> DEFINE age == IF o.lastSeen = None THEN None ELSE Now - o.lastSeen
           trace == o.host \/ o.dhcpStatus # "" \/ o.wifi \/ o.arpIP # None \/ o.port
           ip == o.ip # None
<1>4. age \in Opt(Nat) /\ (o.lastSeen # None => age # None)
  <2>1. o.lastSeen \in Int \cup {None} /\ (o.lastSeen # None => o.lastSeen <= Now)
      BY DEF Dated, Observed, Opt
  <2>2. o.lastSeen # None => Now - o.lastSeen \in Nat
      BY <2>1, AggregatorAssumption
  <2> QED
      BY <2>2, AggregatorAssumption DEF Opt
<1>5. trace \in BOOLEAN /\ ip \in BOOLEAN /\ o.host \in BOOLEAN
    BY DEF Observed
<1>6. o.status = "ONLINE" => age # None /\ trace
    BY <1>2, <1>3, <1>4
<1>7. Digest(o) = [status |-> o.status, age |-> age, ip |-> ip, trace |-> trace,
                   host |-> o.host]
    BY Zenon DEF Digest
<1> HIDE DEF age, trace, ip
<1> QED
    BY <1>1, <1>4, <1>5, <1>6, <1>7 DEF Observation

\* Aggregate hands the device service exactly the observations DevicePoll
\* assumes: its SeenAssumption is discharged here.
THEOREM HandsOver == Spec => []HandsOverObservations
<1>1. IInv => HandsOverObservations
  <2> SUFFICES ASSUME IInv, done, NEW m \in MAC, result[m] # None
               PROVE  Digest(result[m]) \in Observation
      BY DEF HandsOverObservations
  <2>1. result[m] \in Observed /\ Dated(result[m]) /\ Evaluated(result[m])
      BY DEF IInv, TypeOK, Opt
  <2> QED
      BY <2>1, DigestTyped
<1> QED
    BY Inductive, <1>1, PTL

-----------------------------------------------------------------------------
(***************************************************************************)
(* Where the fields and the time of an observation come from: the rows of  *)
(* its MAC that have been merged so far.                                   *)
(***************************************************************************)
Read(table, m) == {i \in RowsOf(table, m) : i < cursor[table]}

\* Of a snapshot s: the ages of its rows, the leases and ARP entries that count.
Age(s, table, i) == parseRouterOSAge(s[table][i].last)
DatedLeases(s, D) == {i \in D : Age(s, "dhcp", i) # None}
Complete(s, A) == \E i \in A : s.arp[i].complete

\* The time that the rows D, W, A and B of the four tables give, and its source.
TimeOf(s, D, W, A, B) ==
    IF W # {} THEN LET age == Age(s, "wifi", First(W)) IN IF age = None THEN Now ELSE Now - age
    ELSE IF DatedLeases(s, D) # {} THEN Now - Age(s, "dhcp", First(DatedLeases(s, D)))
    ELSE IF Complete(s, A) \/ B # {} THEN Now ELSE None
SourceOf(s, D, W, A, B) ==
    IF W # {} THEN 1 ELSE IF DatedLeases(s, D) # {} THEN 2
    ELSE IF Complete(s, A) THEN 3 ELSE IF B # {} THEN 4 ELSE None

\* The fields of one table: unset without a row of it, those of the row when
\* there is only one.
DHCPFields(s, o, D) ==
    /\ D = {} => o.dhcpStatus = "" /\ o.dhcpAge = None
    /\ \A i \in D : D = {i} => o.dhcpStatus = s.dhcp[i].status /\ o.dhcpAge = Age(s, "dhcp", i)
WiFiFields(s, o, W) ==
    /\ W = {} => ~o.wifi /\ o.wifiAge = None
    /\ \A i \in W : W = {i} => o.wifi = s.wifi[i].iface /\ o.wifiAge = Age(s, "wifi", i)
ARPFields(s, o, A) ==
    /\ o.arpComplete = Complete(s, A)
    /\ A = {} => o.arpIP = None
    /\ \A i \in A : A = {i} => o.arpIP = s.arp[i].address

\* First picks the first row: there is one as soon as there is any.
HasFirst(S) == S = {} \/ \E i \in S : \A j \in S : i <= j

Traced(s, o, source, D, W, A, B) ==
    /\ HasFirst(W) /\ HasFirst(DatedLeases(s, D))
    /\ DHCPFields(s, o, D) /\ WiFiFields(s, o, W) /\ ARPFields(s, o, A)
    /\ o.lastSeen = TimeOf(s, D, W, A, B) /\ source = SourceOf(s, D, W, A, B)

TracedTo(m) ==
    /\ Traced(snap, getObservation(m), priorities[m],
              Read("dhcp", m), Read("wifi", m), Read("arp", m), Read("bridge", m))
    /\ result[m] = None => \A table \in Tables : Read(table, m) = {}

\* A pass begins when the ones before it are complete.
Ordered ==
    /\ ~Merged("dhcp") => cursor["wifi"] = 1 /\ cursor["arp"] = 1 /\ cursor["bridge"] = 1
    /\ ~Merged("wifi") => cursor["arp"] = 1 /\ cursor["bridge"] = 1
    /\ ~Merged("arp") => cursor["bridge"] = 1
    /\ done => \A table \in Tables : Merged(table)

Provenance == Ordered /\ \A m \in MAC : TracedTo(m)

LEMMA FirstKept ==
    ASSUME NEW S \in SUBSET Int, NEW c \in Int, \A i \in S : i < c, HasFirst(S)
    PROVE  /\ HasFirst(S \cup {c})
           /\ First(S \cup {c}) = IF S = {} THEN c ELSE First(S)
<1>1. CASE S = {}
  <2>1. S \cup {c} = {c} /\ \A i \in {c} : (\A j \in {c} : i <= j) /\ i = c
    BY <1>1
  <2>2. First({c}) = c
    BY <2>1 DEF First
  <2> QED
    BY <1>1, <2>1, <2>2 DEF HasFirst
<1>2. CASE S # {}
  <2>1. PICK i \in S : \A j \in S : i <= j
    BY <1>2 DEF HasFirst
  <2>2. i \in S \cup {c} /\ \A j \in S \cup {c} : i <= j
    BY <2>1
  <2>3. \A k \in S : (\A j \in S : k <= j) => k = i
    BY <2>1
  <2>4. \A k \in S \cup {c} : (\A j \in S \cup {c} : k <= j) => k = i
    BY <2>1
  <2>5. First(S) = i
    BY <2>1, <2>3 DEF First
  <2>6. First(S \cup {c}) = i
    BY <2>2, <2>4 DEF First
  <2> QED
    BY <1>2, <2>2, <2>5, <2>6 DEF HasFirst
<1> QED
  BY <1>1, <1>2

\* The rows that a step of a pass reads: one more of its MAC.
LEMMA ReadsOne ==
    ASSUME TypeOK, NEW table \in Tables, Advance(table), Ordered
    PROVE  /\ \A m \in MAC : Read(table, m) \in SUBSET Int /\ \A i \in Read(table, m) : i < cursor[table]
           /\ cursor[table] \in Int
           /\ \A m \in MAC : Read(table, m)' = IF Row(table).mac = m THEN Read(table, m) \cup {cursor[table]}
                                               ELSE Read(table, m)
           /\ \A other \in Tables \ {table}, m \in MAC : Read(other, m)' = Read(other, m)
           /\ \A other \in Tables \ {table} : Merged(other)' = Merged(other)
<1>1. /\ snap' = snap /\ cursor' = [cursor EXCEPT ![table] = @ + 1]
      /\ cursor \in [Tables -> Nat \ {0}] /\ cursor[table] <= Len(snap[table])
      /\ \A t \in Tables : snap[t] \in Seq(DHCPLease \cup WiFiRegistration \cup ARPEntry \cup BridgeHost)
  BY DEF Advance, TypeOK, Merged, Snapshot, Tables
<1>2. /\ DOMAIN snap[table] = 1..Len(snap[table]) /\ cursor[table] \in Nat \ {0}
      /\ cursor[table] \in DOMAIN snap[table] /\ DOMAIN snap[table] \subseteq Int
  BY <1>1
<1>3. ASSUME NEW m \in MAC
      PROVE  /\ Read(table, m) \in SUBSET Int /\ \A i \in Read(table, m) : i < cursor[table]
             /\ Read(table, m)' = IF Row(table).mac = m THEN Read(table, m) \cup {cursor[table]}
                                  ELSE Read(table, m)
  BY <1>1, <1>2 DEF Read, RowsOf, Row
<1>4. \A other \in Tables \ {table} : cursor'[other] = cursor[other]
  BY <1>1
<1> QED
  BY <1>1, <1>2, <1>3, <1>4 DEF Read, RowsOf, Merged

\* A step that merges one row: the other MACs keep theirs.
LEMMA OneRow ==
    ASSUME IInv, Provenance, NEW table \in Tables, Advance(table), Ordered', NEW m0 \in MAC,
           m0 = Row(table).mac, NEW next \in Observed, NEW ts, NEW priority,
           Merge(m0, next, ts, priority),
           Traced(snap, setLastSeen(next, m0, ts, priority),
                  IF ts # None /\ TakesLastSeen(next, m0, priority) THEN priority ELSE priorities[m0],
                  Read("dhcp", m0)', Read("wifi", m0)', Read("arp", m0)', Read("bridge", m0)'),
           setLastSeen(next, m0, ts, priority) # None
    PROVE  Provenance'
<1> DEFINE new == setLastSeen(next, m0, ts, priority)
           pri == IF ts # None /\ TakesLastSeen(next, m0, priority) THEN priority ELSE priorities[m0]
<1>1. /\ TypeOK /\ Ordered /\ snap' = snap
      /\ result \in [MAC -> Opt(Observed)] /\ priorities \in [MAC -> Opt(1..4)]
  BY DEF IInv, Provenance, TypeOK, Advance
<1>2. result' = [result EXCEPT ![m0] = new] /\ priorities' = [priorities EXCEPT ![m0] = pri]
  BY <1>1 DEF Merge, SetPriority
<1> HIDE DEF new, pri
<1>3. getObservation(m0)' = new /\ priorities'[m0] = pri /\ result'[m0] # None
  BY <1>1, <1>2 DEF getObservation, new
<1>4. TracedTo(m0)'
  BY <1>1, <1>3 DEF TracedTo, new, pri
<1>5. ASSUME NEW m \in MAC, m # m0 PROVE TracedTo(m)'
  <2>1. getObservation(m)' = getObservation(m) /\ priorities'[m] = priorities[m] /\ result'[m] = result[m]
    BY <1>1, <1>2, <1>5 DEF getObservation
  <2>2. \A t \in Tables : Read(t, m)' = Read(t, m)
    BY <1>1, <1>5, ReadsOne
  <2>3. /\ Read("dhcp", m)' = Read("dhcp", m) /\ Read("wifi", m)' = Read("wifi", m)
        /\ Read("arp", m)' = Read("arp", m) /\ Read("bridge", m)' = Read("bridge", m)
    BY <2>2 DEF Tables
  <2> QED
    BY <1>1, <2>1, <2>2, <2>3 DEF Provenance, TracedTo
<1> QED
  BY <1>4, <1>5 DEF Provenance

LEMMA NothingRead ==
    ASSUME TypeOK, NEW table \in Tables, cursor[table] = 1, NEW m \in MAC
    PROVE  Read(table, m) = {}
<1>1. DOMAIN snap[table] = 1..Len(snap[table])
  BY DEF TypeOK, Snapshot, Tables
<1>2. \A i \in 1..Len(snap[table]) : ~(i < 1)
  OBVIOUS
<1> QED
  BY <1>1, <1>2 DEF Read, RowsOf

\* The passes run one after the other.
LEMMA OrderKept ==
    ASSUME TypeOK, Ordered, DHCPPass \/ WiFiPass \/ ARPPass \/ BridgePass
    PROVE  Ordered'
<1>1. \A table \in Tables : Advance(table) =>
        /\ \A other \in Tables \ {table} : Merged(other)' = Merged(other) /\ cursor'[other] = cursor[other]
        /\ ~Merged(table)
  BY ReadsOne DEF Advance, TypeOK
<1>2. ~done /\ done' = done
  BY DEF DHCPPass, WiFiPass, ARPPass, BridgePass, Advance
<1>3. CASE DHCPPass
  <2>1. ~Merged("dhcp") /\ ~done
    BY <1>1, <1>3 DEF DHCPPass, Tables, Ordered
  <2>2. \A other \in Tables \ {"dhcp"} : Merged(other)' = Merged(other) /\ cursor'[other] = cursor[other]
    BY <1>1, <1>3 DEF DHCPPass, Tables
  <2> QED
    BY <1>2, <2>1, <2>2 DEF Ordered, Tables
<1>4. CASE WiFiPass
  <2>1. ~Merged("wifi") /\ Merged("dhcp")
    BY <1>1, <1>4 DEF WiFiPass, Tables
  <2>2. \A other \in Tables \ {"wifi"} : Merged(other)' = Merged(other) /\ cursor'[other] = cursor[other]
    BY <1>1, <1>4 DEF WiFiPass, Tables
  <2> QED
    BY <1>2, <2>1, <2>2 DEF Ordered, Tables
<1>5. CASE ARPPass
  <2>1. ~Merged("arp") /\ Merged("dhcp") /\ Merged("wifi")
    BY <1>1, <1>5 DEF ARPPass, Tables
  <2>2. \A other \in Tables \ {"arp"} : Merged(other)' = Merged(other) /\ cursor'[other] = cursor[other]
    BY <1>1, <1>5 DEF ARPPass, Tables
  <2> QED
    BY <1>2, <2>1, <2>2 DEF Ordered, Tables
<1>6. CASE BridgePass
  <2>1. Merged("dhcp") /\ Merged("wifi") /\ Merged("arp")
    BY <1>6 DEF BridgePass
  <2>2. \A other \in Tables \ {"bridge"} : Merged(other)' = Merged(other) /\ cursor'[other] = cursor[other]
    BY <1>1, <1>6 DEF BridgePass, Tables
  <2> QED
    BY <1>2, <2>1, <2>2 DEF Ordered, Tables
<1> QED
  BY <1>3, <1>4, <1>5, <1>6

\* What setLastSeen leaves of an observation.
LEMMA Seen ==
    ASSUME NEW o \in Observed, NEW m \in MAC, NEW ts \in Opt(Int), NEW priority
    PROVE  LET new == setLastSeen(o, m, ts, priority)
           IN  /\ new # None
               /\ new.dhcpStatus = o.dhcpStatus /\ new.dhcpAge = o.dhcpAge
               /\ new.wifi = o.wifi /\ new.wifiAge = o.wifiAge
               /\ new.arpComplete = o.arpComplete /\ new.arpIP = o.arpIP
               /\ new.lastSeen = IF ts # None /\ TakesLastSeen(o, m, priority) THEN ts ELSE o.lastSeen
<1> DEFINE new == setLastSeen(o, m, ts, priority)
<1>1. new = o \/ new = [o EXCEPT !.lastSeen = ts]
  BY DEF setLastSeen
<1>2. new.lastSeen = IF ts # None /\ TakesLastSeen(o, m, priority) THEN ts ELSE o.lastSeen
  BY DEF setLastSeen, Observed
<1>3. o # None /\ [o EXCEPT !.lastSeen = ts] # None
  <2>1. [o EXCEPT !.lastSeen = ts] \in Observed
    BY DEF Observed, Opt
  <2> QED
    BY <2>1, ObservedAssumption
<1> QED
  BY <1>1, <1>2, <1>3 DEF Observed

LEMMA AgesTyped ==
    ASSUME TypeOK, NEW m \in MAC
    PROVE  /\ \A i \in Read("dhcp", m) : Age(snap, "dhcp", i) \in Opt(Nat)
           /\ \A i \in Read("wifi", m) : Age(snap, "wifi", i) \in Opt(Nat)
<1>1. /\ \A i \in DOMAIN snap["dhcp"] : snap["dhcp"][i].last \in Stamp
      /\ \A i \in DOMAIN snap["wifi"] : snap["wifi"][i].last \in Stamp
  <2>1. /\ \A i \in DOMAIN snap["dhcp"] : snap["dhcp"][i] \in DHCPLease
        /\ \A i \in DOMAIN snap["wifi"] : snap["wifi"][i] \in WiFiRegistration
    BY DEF TypeOK, Snapshot
  <2> QED
    BY <2>1 DEF DHCPLease, WiFiRegistration
<1> QED
  BY <1>1, AgeTyped DEF Read, RowsOf, Age

LEMMA DHCPTraced == IInv /\ Provenance /\ DHCPPass => Provenance'
<1> SUFFICES ASSUME IInv, Provenance, DHCPPass PROVE Provenance'
  OBVIOUS
<1>1. TypeOK /\ Ordered /\ ~done /\ Advance("dhcp") /\ ~Merged("dhcp")
  BY DEF DHCPPass, IInv, Provenance, Advance
<1>2. Row("dhcp") \in DHCPLease /\ Row("dhcp").mac \in MAC /\ Row("dhcp").last \in Stamp
  BY <1>1, RowTyped DEF DHCPLease
<1>3. PICK m \in MAC : m = Row("dhcp").mac
  BY <1>2
<1> DEFINE lease == Row("dhcp")
           c     == cursor["dhcp"]
           o     == getObservation(m)
           age   == parseRouterOSAge(lease.last)
           next  == [o EXCEPT !.sources = @ \cup {"dhcp"},
                              !.ip = IF lease.address # None THEN lease.address ELSE @,
                              !.host = @ \/ lease.host,
                              !.dhcpStatus = lease.status,
                              !.dhcpAge = IF age # None THEN age ELSE @]
           ts    == IF age # None THEN Now - age ELSE None
           new   == setLastSeen(next, m, ts, 2)
           takes == ts # None /\ TakesLastSeen(next, m, 2)
           source == IF takes THEN 2 ELSE priorities[m]
           D     == Read("dhcp", m)
<1>4. Merge(m, next, ts, 2) /\ age \in Opt(Nat) /\ ts \in Opt(Int) /\ (ts # None <=> age # None)
  <2>1. age \in Opt(Nat)
    BY <1>2, AgeTyped
  <2>2. Merge(m, next, ts, 2)
    BY <1>3 DEF DHCPPass
  <2> HIDE DEF age
  <2>3. ts \in Opt(Int) /\ (ts # None <=> age # None)
    BY <2>1, AggregatorAssumption DEF Opt
  <2> QED
    BY <2>1, <2>2, <2>3
<1>5. o \in Observed /\ Ordered'
  BY <1>1, ObservationTyped, OrderKept
<1>6. next \in Observed /\ next.dhcpStatus = lease.status
      /\ next.dhcpAge = (IF age # None THEN age ELSE o.dhcpAge) /\ next.lastSeen = o.lastSeen
      /\ next.wifi = o.wifi /\ next.wifiAge = o.wifiAge
      /\ next.arpComplete = o.arpComplete /\ next.arpIP = o.arpIP
  <2>1. lease.address \in Opt(IP) /\ lease.host \in BOOLEAN /\ lease.status \in {"", "bound", "waiting"}
    BY <1>2 DEF DHCPLease
  <2> HIDE DEF lease, age, o
  <2> DEFINE addr == IF lease.address # None THEN lease.address ELSE o.ip
             named == o.host \/ lease.host
             ageOf == IF age # None THEN age ELSE o.dhcpAge
  <2>2. addr \in Opt(IP) /\ ageOf \in Opt(Nat)
    BY <1>4, <1>5, <2>1 DEF Observed
  <2>3. named \in BOOLEAN
    OBVIOUS
  <2>4. next = [o EXCEPT !.sources = o.sources \cup {"dhcp"}, !.ip = addr, !.host = named,
                         !.dhcpStatus = lease.status, !.dhcpAge = ageOf]
    BY <1>5 DEF Observed
  <2>5. ageOf = IF age # None THEN age ELSE o.dhcpAge
    OBVIOUS
  <2> HIDE DEF addr, named, ageOf, next
  <2> QED
    BY <1>5, <2>1, <2>2, <2>3, <2>4, <2>5 DEF Observed, Tables
<1>7. \A k \in MAC : Read("wifi", k) = {} /\ Read("arp", k) = {} /\ Read("bridge", k) = {}
  BY <1>1, NothingRead DEF Ordered, Tables
<1>8. /\ Read("dhcp", m)' = D \cup {c} /\ Read("wifi", m)' = {} /\ Read("arp", m)' = {}
      /\ Read("bridge", m)' = {} /\ D \in SUBSET Int /\ c \in Int /\ \A i \in D : i < c
  <2>1. "dhcp" \in Tables /\ {"wifi", "arp", "bridge"} \subseteq Tables \ {"dhcp"}
    BY DEF Tables
  <2>2. /\ Read("dhcp", m)' = D \cup {c} /\ D \in SUBSET Int /\ c \in Int /\ \A i \in D : i < c
    BY <1>1, <1>3, <2>1, ReadsOne
  <2>3. \A k \in MAC : /\ Read("wifi", k)' = Read("wifi", k) /\ Read("arp", k)' = Read("arp", k)
                       /\ Read("bridge", k)' = Read("bridge", k)
    BY <1>1, <2>1, ReadsOne
  <2> QED
    BY <1>7, <2>2, <2>3
<1>9. Traced(snap, o, priorities[m], D, {}, {}, {})
  BY <1>7 DEF Provenance, TracedTo
<1>10. age = Age(snap, "dhcp", c) /\ lease.status = snap.dhcp[c].status
  BY DEF Age, Row
<1>11. /\ new # None /\ new.dhcpStatus = lease.status
      /\ new.dhcpAge = (IF age # None THEN age ELSE o.dhcpAge)
      /\ new.wifi = o.wifi /\ new.wifiAge = o.wifiAge
      /\ new.arpComplete = o.arpComplete /\ new.arpIP = o.arpIP
      /\ new.lastSeen = IF takes THEN ts ELSE o.lastSeen
  <2> HIDE DEF lease, o, next, age, ts
  <2> QED
    BY <1>4, <1>6, Seen
<1>12. takes <=> ts # None /\ (priorities[m] = None \/ 2 < priorities[m] \/ o.lastSeen = None)
  BY <1>6 DEF TakesLastSeen
<1>13. ts = IF age # None THEN Now - age ELSE None
  OBVIOUS
<1>14. source = IF takes THEN 2 ELSE priorities[m]
  OBVIOUS
<1>15. \A i \in D : Age(snap, "dhcp", i) \in Opt(Nat)
  BY <1>1, AgesTyped
<1>16. Now \in Nat /\ None \notin Int
  BY AggregatorAssumption
<1> HIDE DEF lease, c, o, age, next, ts, new, takes, source, D
<1> DEFINE L == DatedLeases(snap, D)
<1>17. DatedLeases(snap, D \cup {c}) = IF age # None THEN L \cup {c} ELSE L
  BY <1>10 DEF DatedLeases
<1>18. L \in SUBSET Int /\ (\A i \in L : i < c) /\ HasFirst(L)
  <2>1. L \in SUBSET D
    BY DEF DatedLeases
  <2>2. HasFirst(L)
    BY <1>9 DEF Traced
  <2> QED
    BY <1>8, <2>1, <2>2
<1> HIDE DEF L
<1>19. /\ HasFirst(DatedLeases(snap, D \cup {c}))
       /\ age # None => First(L \cup {c}) = IF L = {} THEN c ELSE First(L)
  BY <1>8, <1>17, <1>18, FirstKept
<1>20. DHCPFields(snap, new, D \cup {c})
  <2>1. DHCPFields(snap, o, D)
    BY <1>9 DEF Traced
  <2>2. D \cup {c} # {} /\ \A i \in D \cup {c} : D \cup {c} = {i} => i = c /\ D = {}
    <3>1. c \notin D
      BY <1>8
    <3> QED
      BY <3>1
  <2>3. D = {} => new.dhcpStatus = snap.dhcp[c].status /\ new.dhcpAge = Age(snap, "dhcp", c)
    BY <1>10, <1>11, <2>1 DEF DHCPFields
  <2> QED
    BY <2>2, <2>3 DEF DHCPFields
<1>21. WiFiFields(snap, new, {}) /\ ARPFields(snap, new, {}) /\ HasFirst({})
  BY <1>9, <1>11 DEF Traced, WiFiFields, ARPFields
<1>22. /\ o.lastSeen = IF L # {} THEN Now - Age(snap, "dhcp", First(L)) ELSE None
       /\ priorities[m] = IF L # {} THEN 2 ELSE None
  BY <1>9 DEF Traced, TimeOf, SourceOf, Complete, L
<1>23. L # {} => o.lastSeen # None
  <2>1. ASSUME L # {} PROVE First(L) \in L
    BY <1>18, <2>1 DEF HasFirst, First
  <2>2. \A i \in L : Age(snap, "dhcp", i) \in Nat
    BY <1>15 DEF L, DatedLeases, Opt
  <2> QED
    BY <1>16, <1>22, <2>1, <2>2
<1>24. /\ new.lastSeen = TimeOf(snap, D \cup {c}, {}, {}, {})
       /\ source = SourceOf(snap, D \cup {c}, {}, {}, {})
  <2>1. CASE age = None
    BY <1>4, <1>11, <1>12, <1>13, <1>14, <1>17, <1>22, <2>1 DEF TimeOf, SourceOf, Complete
  <2>2. CASE age # None /\ L = {}
    <3>1. takes /\ First(L \cup {c}) = c /\ L \cup {c} # {}
      BY <1>4, <1>12, <1>19, <1>22, <2>2
    <3> QED
      BY <1>10, <1>11, <1>13, <1>14, <1>17, <2>2, <3>1 DEF TimeOf, SourceOf, Complete
  <2>3. CASE age # None /\ L # {}
    <3>1. ~takes /\ First(L \cup {c}) = First(L)
      BY <1>4, <1>12, <1>16, <1>19, <1>22, <1>23, <2>3
    <3> QED
      BY <1>11, <1>14, <1>17, <1>22, <2>3, <3>1 DEF TimeOf, SourceOf, Complete
  <2> QED
    BY <2>1, <2>2, <2>3
<1>25. Traced(snap, new, source, D \cup {c}, {}, {}, {})
  BY <1>19, <1>20, <1>21, <1>24 DEF Traced
<1>26. Traced(snap, setLastSeen(next, m, ts, 2),
              IF ts # None /\ TakesLastSeen(next, m, 2) THEN 2 ELSE priorities[m],
              Read("dhcp", m)', Read("wifi", m)', Read("arp", m)', Read("bridge", m)')
  BY <1>8, <1>25 DEF new, source, takes
<1>27. setLastSeen(next, m, ts, 2) # None
  BY <1>11 DEF new
<1> QED
  BY <1>1, <1>3, <1>4, <1>5, <1>6, <1>26, <1>27, OneRow DEF Tables

LEMMA WiFiTraced == IInv /\ Provenance /\ WiFiPass => Provenance'
<1> SUFFICES ASSUME IInv, Provenance, WiFiPass PROVE Provenance'
  OBVIOUS
<1>1. TypeOK /\ Ordered /\ ~done /\ Advance("wifi") /\ ~Merged("wifi")
  BY DEF WiFiPass, IInv, Provenance, Advance
<1>2. Row("wifi") \in WiFiRegistration /\ Row("wifi").mac \in MAC /\ Row("wifi").last \in Stamp
      /\ Row("wifi").iface \in BOOLEAN
  BY <1>1, RowTyped DEF WiFiRegistration
<1>3. PICK m \in MAC : m = Row("wifi").mac
  BY <1>2
<1> DEFINE reg   == Row("wifi")
           c     == cursor["wifi"]
           o     == getObservation(m)
           age   == parseRouterOSAge(reg.last)
           next  == [o EXCEPT !.sources = @ \cup {"wifi"}, !.wifi = reg.iface,
                              !.wifiAge = IF age # None THEN age ELSE @]
           ts    == IF age # None THEN Now - age ELSE Now
           new   == setLastSeen(next, m, ts, 1)
           takes == ts # None /\ TakesLastSeen(next, m, 1)
           source == IF takes THEN 1 ELSE priorities[m]
           D     == Read("dhcp", m)
           W     == Read("wifi", m)
<1>4. Merge(m, next, ts, 1) /\ age \in Opt(Nat) /\ ts \in Opt(Int) /\ ts # None
  <2>1. age \in Opt(Nat)
    BY <1>2, AgeTyped
  <2>2. Merge(m, next, ts, 1)
    BY <1>3 DEF WiFiPass
  <2> HIDE DEF age
  <2>3. ts \in Opt(Int) /\ ts # None
    BY <2>1, AggregatorAssumption DEF Opt
  <2> QED
    BY <2>1, <2>2, <2>3
<1>5. o \in Observed /\ Ordered'
  BY <1>1, ObservationTyped, OrderKept
<1>6. next \in Observed /\ next.wifi = reg.iface
      /\ next.wifiAge = (IF age # None THEN age ELSE o.wifiAge) /\ next.lastSeen = o.lastSeen
      /\ next.dhcpStatus = o.dhcpStatus /\ next.dhcpAge = o.dhcpAge
      /\ next.arpComplete = o.arpComplete /\ next.arpIP = o.arpIP
  <2>1. reg.iface \in BOOLEAN
    BY <1>2
  <2> HIDE DEF reg, age, o
  <2> QED
    BY <1>4, <1>5, <2>1 DEF Observed, Opt, Tables
<1>7. \A k \in MAC : Read("arp", k) = {} /\ Read("bridge", k) = {}
  BY <1>1, NothingRead DEF Ordered, Tables
<1>8. /\ Read("dhcp", m)' = D /\ Read("wifi", m)' = W \cup {c} /\ Read("arp", m)' = {}
      /\ Read("bridge", m)' = {} /\ W \in SUBSET Int /\ c \in Int /\ \A i \in W : i < c
  <2>1. "wifi" \in Tables /\ {"dhcp", "arp", "bridge"} \subseteq Tables \ {"wifi"}
    BY DEF Tables
  <2>2. /\ Read("wifi", m)' = W \cup {c} /\ W \in SUBSET Int /\ c \in Int /\ \A i \in W : i < c
    BY <1>1, <1>3, <2>1, ReadsOne
  <2>3. \A k \in MAC : /\ Read("dhcp", k)' = Read("dhcp", k) /\ Read("arp", k)' = Read("arp", k)
                       /\ Read("bridge", k)' = Read("bridge", k)
    BY <1>1, <2>1, ReadsOne
  <2> QED
    BY <1>7, <2>2, <2>3
<1>9. Traced(snap, o, priorities[m], D, W, {}, {})
  BY <1>7 DEF Provenance, TracedTo
<1>10. age = Age(snap, "wifi", c) /\ reg.iface = snap.wifi[c].iface
  BY DEF Age, Row
<1>11. /\ new # None /\ new.wifi = reg.iface
       /\ new.wifiAge = (IF age # None THEN age ELSE o.wifiAge)
       /\ new.dhcpStatus = o.dhcpStatus /\ new.dhcpAge = o.dhcpAge
       /\ new.arpComplete = o.arpComplete /\ new.arpIP = o.arpIP
       /\ new.lastSeen = IF takes THEN ts ELSE o.lastSeen
  <2> HIDE DEF reg, o, next, age, ts
  <2> QED
    BY <1>4, <1>6, Seen
<1>12. takes <=> priorities[m] = None \/ 1 < priorities[m] \/ o.lastSeen = None
  BY <1>4, <1>6 DEF TakesLastSeen
<1>13. ts = (IF age # None THEN Now - age ELSE Now) /\ source = IF takes THEN 1 ELSE priorities[m]
  OBVIOUS
<1>14. \A i \in W : Age(snap, "wifi", i) \in Opt(Nat)
  BY <1>1, AgesTyped
<1>15. Now \in Nat /\ None \notin Int
  BY AggregatorAssumption
<1> HIDE DEF reg, c, o, age, next, ts, new, takes, source, D, W
<1>16. /\ HasFirst(W \cup {c}) /\ HasFirst(DatedLeases(snap, D))
       /\ First(W \cup {c}) = IF W = {} THEN c ELSE First(W)
  BY <1>8, <1>9, FirstKept DEF Traced
<1>17. WiFiFields(snap, new, W \cup {c})
  BY <1>8, <1>9, <1>10, <1>11 DEF Traced, WiFiFields
<1>18. DHCPFields(snap, new, D) /\ ARPFields(snap, new, {})
  BY <1>9, <1>11 DEF Traced, DHCPFields, ARPFields
<1>19. /\ new.lastSeen = TimeOf(snap, D, W \cup {c}, {}, {})
       /\ source = SourceOf(snap, D, W \cup {c}, {}, {})
  <2>1. CASE W = {}
    <3>1. priorities[m] \in {2, None}
      BY <1>9, <2>1 DEF Traced, SourceOf, Complete
    <3>2. takes /\ First(W \cup {c}) = c
      BY <1>12, <1>16, <2>1, <3>1
    <3> QED
      BY <1>10, <1>11, <1>13, <3>2 DEF TimeOf, SourceOf
  <2>2. CASE W # {}
    <3>1. First(W) \in W
      BY <1>9, <2>2 DEF Traced, HasFirst, First
    <3>2. Age(snap, "wifi", First(W)) \in Opt(Nat)
      BY <1>14, <3>1
    <3>3. priorities[m] = 1 /\ o.lastSeen = TimeOf(snap, D, W, {}, {})
      BY <1>9, <2>2 DEF Traced, SourceOf
    <3>4. o.lastSeen # None
      BY <1>15, <2>2, <3>2, <3>3 DEF TimeOf, Opt
    <3>5. ~takes /\ First(W \cup {c}) = First(W)
      BY <1>12, <1>15, <1>16, <2>2, <3>3, <3>4
    <3> QED
      BY <1>11, <1>13, <2>2, <3>3, <3>5 DEF TimeOf, SourceOf
  <2> QED
    BY <2>1, <2>2
<1>20. Traced(snap, new, source, D, W \cup {c}, {}, {})
  BY <1>16, <1>17, <1>18, <1>19 DEF Traced
<1>21. Traced(snap, setLastSeen(next, m, ts, 1),
              IF ts # None /\ TakesLastSeen(next, m, 1) THEN 1 ELSE priorities[m],
              Read("dhcp", m)', Read("wifi", m)', Read("arp", m)', Read("bridge", m)')
  BY <1>8, <1>20 DEF new, source, takes
<1>22. setLastSeen(next, m, ts, 1) # None
  BY <1>11 DEF new
<1> QED
  BY <1>1, <1>3, <1>4, <1>5, <1>6, <1>21, <1>22, OneRow DEF Tables

\* A source that has been recorded has given a time.
LEMMA SourceGivesTime ==
    ASSUME TypeOK, NEW m \in MAC, NEW o, NEW source, NEW A, NEW B,
           Traced(snap, o, source, Read("dhcp", m), Read("wifi", m), A, B)
    PROVE  source # None => o.lastSeen # None
<1> DEFINE W == Read("wifi", m)
           L == DatedLeases(snap, Read("dhcp", m))
<1>1. Now \in Nat /\ None \notin Int
  BY AggregatorAssumption
<1>2. (\A i \in W : Age(snap, "wifi", i) \in Opt(Nat)) /\ (\A i \in L : Age(snap, "dhcp", i) \in Nat)
  BY AgesTyped DEF DatedLeases, Opt
<1>3. (W # {} => First(W) \in W) /\ (L # {} => First(L) \in L)
  BY DEF Traced, HasFirst, First
<1> HIDE DEF W, L
<1>4. /\ W # {} => Age(snap, "wifi", First(W)) \in Opt(Nat)
      /\ L # {} => Age(snap, "dhcp", First(L)) \in Nat
  BY <1>2, <1>3
<1> QED
  BY <1>1, <1>4 DEF Traced, TimeOf, SourceOf, Opt, W, L

LEMMA ARPTraced == IInv /\ Provenance /\ ARPPass => Provenance'
<1> SUFFICES ASSUME IInv, Provenance, ARPPass PROVE Provenance'
  OBVIOUS
<1>1. TypeOK /\ Ordered /\ ~done /\ Advance("arp") /\ ~Merged("arp")
  BY DEF ARPPass, IInv, Provenance, Advance
<1>2. Row("arp") \in ARPEntry /\ Row("arp").mac \in MAC
      /\ Row("arp").address \in Opt(IP) /\ Row("arp").complete \in BOOLEAN
  BY <1>1, RowTyped DEF ARPEntry
<1>3. PICK m \in MAC : m = Row("arp").mac
  BY <1>2
<1> DEFINE arp   == Row("arp")
           c     == cursor["arp"]
           o     == getObservation(m)
           next  == [o EXCEPT !.sources = @ \cup {"arp"}, !.arpIP = arp.address,
                              !.arpComplete = @ \/ arp.complete,
                              !.ip = IF @ = None THEN arp.address ELSE @]
           ts    == IF next.arpComplete THEN Now ELSE None
           new   == setLastSeen(next, m, ts, 3)
           takes == ts # None /\ TakesLastSeen(next, m, 3)
           source == IF takes THEN 3 ELSE priorities[m]
           D     == Read("dhcp", m)
           W     == Read("wifi", m)
           A     == Read("arp", m)
<1>4. o \in Observed /\ Ordered' /\ Merge(m, next, ts, 3)
  BY <1>1, <1>3, ObservationTyped, OrderKept DEF ARPPass
<1>5. next \in Observed /\ next.arpIP = arp.address /\ next.arpComplete = (o.arpComplete \/ arp.complete)
      /\ next.lastSeen = o.lastSeen /\ next.wifi = o.wifi /\ next.wifiAge = o.wifiAge
      /\ next.dhcpStatus = o.dhcpStatus /\ next.dhcpAge = o.dhcpAge
  <2> DEFINE addr == IF o.ip = None THEN arp.address ELSE o.ip
             complete == o.arpComplete \/ arp.complete
  <2>1. addr \in Opt(IP) /\ arp.address \in Opt(IP)
    BY <1>2, <1>4 DEF Observed
  <2>2. complete \in BOOLEAN
    OBVIOUS
  <2>3. next = [o EXCEPT !.sources = o.sources \cup {"arp"}, !.arpIP = arp.address,
                         !.arpComplete = complete, !.ip = addr]
    BY <1>4 DEF Observed
  <2> HIDE DEF addr, next, o, arp, complete
  <2>4. next \in Observed /\ next.arpIP = arp.address /\ next.arpComplete = complete
        /\ next.lastSeen = o.lastSeen /\ next.wifi = o.wifi /\ next.wifiAge = o.wifiAge
        /\ next.dhcpStatus = o.dhcpStatus /\ next.dhcpAge = o.dhcpAge
    BY <1>4, <2>1, <2>2, <2>3 DEF Observed, Tables
  <2> QED
    BY <2>4 DEF complete
<1>6. \A k \in MAC : Read("bridge", k) = {}
  BY <1>1, NothingRead DEF Ordered, Tables
<1>7. /\ Read("dhcp", m)' = D /\ Read("wifi", m)' = W /\ Read("arp", m)' = A \cup {c}
      /\ Read("bridge", m)' = {} /\ A \in SUBSET Int /\ c \in Int /\ \A i \in A : i < c
  <2>1. "arp" \in Tables /\ {"dhcp", "wifi", "bridge"} \subseteq Tables \ {"arp"}
    BY DEF Tables
  <2>2. /\ Read("arp", m)' = A \cup {c} /\ A \in SUBSET Int /\ c \in Int /\ \A i \in A : i < c
    BY <1>1, <1>3, <2>1, ReadsOne
  <2>3. \A k \in MAC : /\ Read("dhcp", k)' = Read("dhcp", k) /\ Read("wifi", k)' = Read("wifi", k)
                       /\ Read("bridge", k)' = Read("bridge", k)
    BY <1>1, <2>1, ReadsOne
  <2> QED
    BY <1>6, <2>2, <2>3
<1>8. Traced(snap, o, priorities[m], D, W, A, {}) /\ (priorities[m] # None => o.lastSeen # None)
  BY <1>1, <1>6, SourceGivesTime DEF Provenance, TracedTo
<1>9. arp.complete = snap.arp[c].complete /\ arp.address = snap.arp[c].address
  BY DEF Row
<1>10. Now \in Nat /\ None \notin Int /\ (ts = IF next.arpComplete THEN Now ELSE None)
       /\ ts \in Opt(Int)
  BY AggregatorAssumption DEF Opt
<1>11. /\ new # None /\ new.arpIP = arp.address /\ new.arpComplete = next.arpComplete
       /\ new.dhcpStatus = o.dhcpStatus /\ new.dhcpAge = o.dhcpAge
       /\ new.wifi = o.wifi /\ new.wifiAge = o.wifiAge
       /\ new.lastSeen = IF takes THEN ts ELSE o.lastSeen
  <2> HIDE DEF arp, o, next, ts
  <2> QED
    BY <1>5, <1>10, Seen
<1>12. takes <=> ts # None /\ (priorities[m] = None \/ 3 < priorities[m] \/ o.lastSeen = None)
  BY <1>5 DEF TakesLastSeen
<1>13. source = IF takes THEN 3 ELSE priorities[m]
  OBVIOUS
<1> HIDE DEF arp, c, o, next, ts, new, takes, source, D, W, A
<1>14. Complete(snap, A \cup {c}) = (Complete(snap, A) \/ arp.complete) /\ next.arpComplete = Complete(snap, A \cup {c})
  BY <1>2, <1>5, <1>8, <1>9 DEF Complete, Traced, ARPFields
<1>15. ARPFields(snap, new, A \cup {c})
  BY <1>7, <1>8, <1>9, <1>11, <1>14 DEF Traced, ARPFields
<1>16. DHCPFields(snap, new, D) /\ WiFiFields(snap, new, W)
  BY <1>8, <1>11 DEF Traced, DHCPFields, WiFiFields
<1>17. /\ new.lastSeen = TimeOf(snap, D, W, A \cup {c}, {})
       /\ source = SourceOf(snap, D, W, A \cup {c}, {})
  <2>1. CASE ~next.arpComplete
    BY <1>8, <1>10, <1>11, <1>12, <1>13, <1>14, <2>1 DEF Traced, TimeOf, SourceOf
  <2>2. CASE next.arpComplete
    <3>1. takes <=> priorities[m] = None
      <4>1. priorities[m] \in {1, 2, 3, None}
        BY <1>8 DEF Traced, SourceOf
      <4> QED
        BY <1>8, <1>10, <1>12, <2>2, <4>1
    <3>2. CASE priorities[m] = None
      <4>1. W = {} /\ DatedLeases(snap, D) = {}
        BY <1>8, <1>10, <3>2 DEF Traced, SourceOf
      <4> QED
        BY <1>10, <1>11, <1>13, <1>14, <2>2, <3>1, <3>2, <4>1 DEF TimeOf, SourceOf
    <3>3. CASE priorities[m] # None
      <4>1. o.lastSeen = TimeOf(snap, D, W, A, {}) /\ priorities[m] = SourceOf(snap, D, W, A, {})
        BY <1>8 DEF Traced
      <4>2. W # {} \/ DatedLeases(snap, D) # {} \/ Complete(snap, A)
        BY <3>3, <4>1 DEF SourceOf
      <4>3. TimeOf(snap, D, W, A \cup {c}, {}) = TimeOf(snap, D, W, A, {})
        BY <1>14, <4>2 DEF TimeOf
      <4>4. SourceOf(snap, D, W, A \cup {c}, {}) = SourceOf(snap, D, W, A, {})
        BY <1>14, <4>2 DEF SourceOf
      <4> QED
        BY <1>11, <1>13, <3>1, <3>3, <4>1, <4>3, <4>4
    <3> QED
      BY <3>2, <3>3
  <2> QED
    BY <2>1, <2>2
<1>18. Traced(snap, new, source, D, W, A \cup {c}, {})
  BY <1>8, <1>15, <1>16, <1>17 DEF Traced
<1>19. Traced(snap, setLastSeen(next, m, ts, 3),
              IF ts # None /\ TakesLastSeen(next, m, 3) THEN 3 ELSE priorities[m],
              Read("dhcp", m)', Read("wifi", m)', Read("arp", m)', Read("bridge", m)')
  BY <1>7, <1>18 DEF new, source, takes
<1>20. setLastSeen(next, m, ts, 3) # None
  BY <1>11 DEF new
<1> QED
  BY <1>1, <1>3, <1>4, <1>5, <1>19, <1>20, OneRow DEF Tables

LEMMA BridgeTraced == IInv /\ Provenance /\ BridgePass => Provenance'
<1> SUFFICES ASSUME IInv, Provenance, BridgePass PROVE Provenance'
  OBVIOUS
<1>1. TypeOK /\ Ordered /\ ~done /\ Advance("bridge") /\ ~Merged("bridge")
  BY DEF BridgePass, IInv, Provenance, Advance
<1>2. Row("bridge") \in BridgeHost /\ Row("bridge").mac \in MAC /\ Row("bridge").port \in BOOLEAN
  BY <1>1, RowTyped DEF BridgeHost
<1>3. PICK m \in MAC : m = Row("bridge").mac
  BY <1>2
<1> DEFINE port  == Row("bridge").port
           c     == cursor["bridge"]
           o     == getObservation(m)
           next  == [o EXCEPT !.sources = @ \cup {"bridge"}, !.port = port]
           new   == setLastSeen(next, m, Now, 4)
           takes == Now # None /\ TakesLastSeen(next, m, 4)
           source == IF takes THEN 4 ELSE priorities[m]
           D     == Read("dhcp", m)
           W     == Read("wifi", m)
           A     == Read("arp", m)
           B     == Read("bridge", m)
<1>4. o \in Observed /\ Ordered' /\ Merge(m, next, Now, 4)
  BY <1>1, <1>3, ObservationTyped, OrderKept DEF BridgePass
<1>5. next \in Observed /\ next.lastSeen = o.lastSeen /\ next.wifi = o.wifi /\ next.wifiAge = o.wifiAge
      /\ next.dhcpStatus = o.dhcpStatus /\ next.dhcpAge = o.dhcpAge
      /\ next.arpComplete = o.arpComplete /\ next.arpIP = o.arpIP
  <2>1. port \in BOOLEAN
    BY <1>2
  <2> HIDE DEF port, o
  <2> QED
    BY <1>4, <2>1 DEF Observed, Tables
<1>6. /\ Read("dhcp", m)' = D /\ Read("wifi", m)' = W /\ Read("arp", m)' = A
      /\ Read("bridge", m)' = B \cup {c}
  <2>1. "bridge" \in Tables /\ {"dhcp", "wifi", "arp"} \subseteq Tables \ {"bridge"}
    BY DEF Tables
  <2>2. Read("bridge", m)' = B \cup {c}
    BY <1>1, <1>3, <2>1, ReadsOne
  <2>3. \A k \in MAC : /\ Read("dhcp", k)' = Read("dhcp", k) /\ Read("wifi", k)' = Read("wifi", k)
                       /\ Read("arp", k)' = Read("arp", k)
    BY <1>1, <2>1, ReadsOne
  <2> QED
    BY <2>2, <2>3
<1>7. Traced(snap, o, priorities[m], D, W, A, B) /\ (priorities[m] # None => o.lastSeen # None)
  BY <1>1, SourceGivesTime DEF Provenance, TracedTo
<1>8. Now \in Nat /\ None \notin Int /\ Now \in Opt(Int)
  BY AggregatorAssumption DEF Opt
<1>9. /\ new # None /\ new.dhcpStatus = o.dhcpStatus /\ new.dhcpAge = o.dhcpAge
      /\ new.wifi = o.wifi /\ new.wifiAge = o.wifiAge
      /\ new.arpComplete = o.arpComplete /\ new.arpIP = o.arpIP
      /\ new.lastSeen = IF takes THEN Now ELSE o.lastSeen
  <2> HIDE DEF port, o, next
  <2> QED
    BY <1>5, <1>8, Seen
<1>10. takes <=> priorities[m] = None \/ 4 < priorities[m] \/ o.lastSeen = None
  BY <1>5, <1>8 DEF TakesLastSeen
<1>11. source = IF takes THEN 4 ELSE priorities[m]
  OBVIOUS
<1> HIDE DEF port, c, o, next, new, takes, source, D, W, A, B
<1>12. /\ new.lastSeen = TimeOf(snap, D, W, A, B \cup {c})
       /\ source = SourceOf(snap, D, W, A, B \cup {c})
  <2>1. takes <=> priorities[m] = None
    <3>1. priorities[m] \in {1, 2, 3, 4, None}
      BY <1>7 DEF Traced, SourceOf
    <3> QED
      BY <1>7, <1>10, <3>1
  <2>2. CASE priorities[m] = None
    <3>1. W = {} /\ DatedLeases(snap, D) = {} /\ ~Complete(snap, A)
      BY <1>7, <1>8, <2>2 DEF Traced, SourceOf
    <3> QED
      BY <1>9, <1>11, <2>1, <2>2, <3>1 DEF TimeOf, SourceOf
  <2>3. CASE priorities[m] # None
    <3>1. o.lastSeen = TimeOf(snap, D, W, A, B) /\ priorities[m] = SourceOf(snap, D, W, A, B)
      BY <1>7 DEF Traced
    <3>2. W # {} \/ DatedLeases(snap, D) # {} \/ Complete(snap, A) \/ B # {}
      BY <2>3, <3>1 DEF SourceOf
    <3>3. TimeOf(snap, D, W, A, B \cup {c}) = TimeOf(snap, D, W, A, B)
      BY <3>2 DEF TimeOf
    <3>4. SourceOf(snap, D, W, A, B \cup {c}) = SourceOf(snap, D, W, A, B)
      BY <3>2 DEF SourceOf
    <3> QED
      BY <1>9, <1>11, <2>1, <2>3, <3>1, <3>3, <3>4
  <2> QED
    BY <2>2, <2>3
<1>13. DHCPFields(snap, new, D) /\ WiFiFields(snap, new, W) /\ ARPFields(snap, new, A)
  BY <1>7, <1>9 DEF Traced, DHCPFields, WiFiFields, ARPFields
<1>14. Traced(snap, new, source, D, W, A, B \cup {c})
  BY <1>7, <1>12, <1>13 DEF Traced
<1>15. Traced(snap, setLastSeen(next, m, Now, 4),
              IF Now # None /\ TakesLastSeen(next, m, 4) THEN 4 ELSE priorities[m],
              Read("dhcp", m)', Read("wifi", m)', Read("arp", m)', Read("bridge", m)')
  BY <1>6, <1>14 DEF new, source, takes
<1>16. setLastSeen(next, m, Now, 4) # None
  BY <1>9 DEF new
<1> QED
  BY <1>1, <1>3, <1>4, <1>5, <1>15, <1>16, OneRow DEF Tables

\* The closing loop changes the status only.
LEMMA EvaluationTraced == IInv /\ Provenance /\ EvaluateAll => Provenance'
<1> SUFFICES ASSUME IInv, Provenance, EvaluateAll PROVE Provenance'
  OBVIOUS
<1>1. /\ TypeOK /\ snap' = snap /\ cursor' = cursor /\ priorities' = priorities
      /\ \A table \in Tables : Merged(table)
      /\ result' = [m \in MAC |-> IF result[m] = None THEN None
                     ELSE [result[m] EXCEPT !.status = evaluateObservedStatus(result[m])]]
  BY DEF EvaluateAll, IInv
<1>2. Ordered'
  BY <1>1 DEF Provenance, Ordered, Merged, Tables
<1>3. ASSUME NEW m \in MAC PROVE TracedTo(m)'
  <2>1. \A table : Read(table, m)' = Read(table, m)
    BY <1>1 DEF Read, RowsOf
  <2> DEFINE o == getObservation(m)
             new == [o EXCEPT !.status = evaluateObservedStatus(o)]
  <2>2. CASE result[m] = None
    <3>1. result'[m] = None
      BY <1>1, <2>2
    <3>2. getObservation(m)' = o
      BY <2>2, <3>1 DEF getObservation, NewObservation
    <3> QED
      BY <1>1, <2>1, <2>2, <3>1, <3>2 DEF Provenance, TracedTo
  <2>3. CASE result[m] # None
    <3>1. o = result[m] /\ o \in Observed
      BY <1>1, <2>3, ObservationTyped
    <3>2. result'[m] = new
      BY <1>1, <2>3, <3>1
    <3>3. /\ new # None /\ new.lastSeen = o.lastSeen
          /\ new.dhcpStatus = o.dhcpStatus /\ new.dhcpAge = o.dhcpAge
          /\ new.wifi = o.wifi /\ new.wifiAge = o.wifiAge
          /\ new.arpComplete = o.arpComplete /\ new.arpIP = o.arpIP
      <4> DEFINE st == evaluateObservedStatus(o)
      <4>1. st \in Status
        BY DEF evaluateObservedStatus, Status
      <4> HIDE DEF st, o
      <4>2. [o EXCEPT !.status = st] \in Observed
        BY <3>1, <4>1 DEF Observed
      <4>3. new = [o EXCEPT !.status = st]
        BY DEF st
      <4> QED
        BY <3>1, <4>2, <4>3, ObservedAssumption DEF Observed
    <3>4. getObservation(m)' = new
      BY <3>2, <3>3 DEF getObservation
    <3> DEFINE D == Read("dhcp", m)
               W == Read("wifi", m)
               A == Read("arp", m)
               B == Read("bridge", m)
    <3>5. Traced(snap, o, priorities[m], D, W, A, B)
      BY DEF Provenance, TracedTo
    <3> HIDE DEF o, new, D, W, A, B
    <3>6. Traced(snap, new, priorities[m], D, W, A, B)
      BY <3>3, <3>5 DEF Traced, DHCPFields, WiFiFields, ARPFields
    <3>7. result'[m] # None
      BY <3>2, <3>3
    <3> QED
      BY <1>1, <2>1, <3>4, <3>6, <3>7 DEF TracedTo, D, W, A, B
  <2> QED
    BY <2>2, <2>3
<1> QED
  BY <1>2, <1>3 DEF Provenance

LEMMA NothingTraced == Init => Provenance
<1> SUFFICES ASSUME Init PROVE Provenance
  OBVIOUS
<1>1. TypeOK /\ \A table \in Tables : cursor[table] = 1
  BY InitStep DEF IInv, Init, Tables
<1>2. \A table \in Tables, m \in MAC : Read(table, m) = {}
  BY <1>1, NothingRead
<1>3. ASSUME NEW m \in MAC PROVE TracedTo(m)
  <2>1. getObservation(m) = NewObservation /\ priorities[m] = None
    BY DEF Init, getObservation
  <2>2. Traced(snap, NewObservation, None, {}, {}, {}, {})
    BY DEF Traced, HasFirst, DatedLeases, DHCPFields, WiFiFields, ARPFields, Complete, TimeOf,
           SourceOf, NewObservation
  <2>3. /\ Read("dhcp", m) = {} /\ Read("wifi", m) = {} /\ Read("arp", m) = {} /\ Read("bridge", m) = {}
    BY <1>2 DEF Tables
  <2> QED
    BY <1>2, <2>1, <2>2, <2>3 DEF TracedTo
<1>4. Ordered
  BY DEF Init, Ordered
<1> QED
  BY <1>3, <1>4 DEF Provenance

LEMMA AlwaysTraced == Spec => []Provenance
<1>1. IInv /\ Provenance /\ UNCHANGED vars => Provenance'
  <2> SUFFICES ASSUME IInv, Provenance, UNCHANGED vars PROVE Provenance'
    OBVIOUS
  <2>1. /\ snap' = snap /\ cursor' = cursor /\ result' = result /\ priorities' = priorities /\ done' = done
    BY DEF vars
  <2>2. Ordered'
    BY <2>1 DEF Provenance, Ordered, Merged
  <2>3. ASSUME NEW m \in MAC PROVE TracedTo(m)'
    <3>1. (\A table : Read(table, m)' = Read(table, m)) /\ getObservation(m)' = getObservation(m)
      BY <2>1 DEF Read, RowsOf, getObservation, NewObservation
    <3> QED
      BY <2>1, <3>1 DEF Provenance, TracedTo
  <2> QED
    BY <2>2, <2>3 DEF Provenance
<1>2. IInv /\ Provenance /\ [Next]_vars => Provenance'
  BY <1>1, DHCPTraced, WiFiTraced, ARPTraced, BridgeTraced, EvaluationTraced DEF Next
<1> QED
  BY Inductive, NothingTraced, <1>2, PTL DEF Spec

\* In the end every row of a MAC has been read.
LEMMA AllRead ==
    ASSUME TypeOK, Ordered, done, NEW m \in MAC, NEW table \in Tables
    PROVE  Read(table, m) = RowsOf(table, m)
<1>1. Len(snap[table]) < cursor[table] /\ cursor[table] \in Nat /\ Len(snap[table]) \in Nat
      /\ DOMAIN snap[table] = 1..Len(snap[table])
  BY DEF Ordered, Merged, TypeOK, Snapshot, Tables
<1> QED
  BY <1>1 DEF Read, RowsOf

\* LastSeenAt is the time of the most trusted source, and of its first row, for
\* any number of rows in any order: the times are not compared, only the sources.
THEOREM LastSeenIsBestSource == Spec => []LastSeenByPriority
<1>1. IInv /\ Provenance => LastSeenByPriority
  <2> SUFFICES ASSUME IInv, Provenance, done, NEW m \in MAC, result[m] # None
               PROVE  result[m].lastSeen = LastSeenReference(m)
    BY DEF LastSeenByPriority
  <2>1. /\ Read("dhcp", m) = RowsOf("dhcp", m) /\ Read("wifi", m) = RowsOf("wifi", m)
        /\ Read("arp", m) = RowsOf("arp", m) /\ Read("bridge", m) = RowsOf("bridge", m)
    BY AllRead DEF IInv, Provenance, Tables
  <2>2. result[m].lastSeen = TimeOf(snap, RowsOf("dhcp", m), RowsOf("wifi", m), RowsOf("arp", m),
                                    RowsOf("bridge", m))
    BY <2>1, ObservationTyped DEF IInv, Provenance, TracedTo, Traced
  <2> QED
    BY <2>2 DEF TimeOf, LastSeenReference, DatedLeases, Complete, Age, AgeOf
<1> QED
  BY Inductive, AlwaysTraced, <1>1, PTL

\* With one row of a MAC in each table, ONLINE is what one of the rows shows by
\* itself, for any thresholds: merging neither adds evidence nor loses any.
THEOREM OnlineNeedsEvidence == Spec => []OnlineByEvidence
<1>1. IInv /\ Provenance => OnlineByEvidence
  <2> SUFFICES ASSUME IInv, Provenance, done, NEW m \in MAC,
                      \A table \in Tables : \A i, j \in RowsOf(table, m) : i = j
               PROVE  (result[m] # None /\ result[m].status = "ONLINE" <=>
                         \/ \E i \in RowsOf("wifi", m) :
                               /\ snap.wifi[i].iface
                               /\ AgeOf("wifi", i) = None \/ AgeOf("wifi", i) <= WiFiIdle
                         \/ \E i \in RowsOf("dhcp", m) :
                               /\ snap.dhcp[i].status = "bound"
                               /\ AgeOf("dhcp", i) # None /\ AgeOf("dhcp", i) <= DHCPRecent
                         \/ \E i \in RowsOf("arp", m) :
                               snap.arp[i].complete /\ snap.arp[i].address # None)
    BY DEF OnlineByEvidence
  <2> DEFINE o == getObservation(m)
             D == RowsOf("dhcp", m)
             W == RowsOf("wifi", m)
             A == RowsOf("arp", m)
  <2>1. Read("dhcp", m) = D /\ Read("wifi", m) = W /\ Read("arp", m) = A
    BY AllRead DEF IInv, Provenance, Tables
  <2>2. DHCPFields(snap, o, D) /\ WiFiFields(snap, o, W) /\ ARPFields(snap, o, A)
        /\ (result[m] = None => D = {} /\ W = {} /\ A = {})
    BY <2>1 DEF Provenance, TracedTo, Traced, Tables
  <2>3. (\A i, j \in D : i = j) /\ (\A i, j \in W : i = j) /\ (\A i, j \in A : i = j)
    BY DEF Tables
  <2>4. result[m] # None => o = result[m] /\ o.status = evaluateObservedStatus(o)
    BY ObservationTyped DEF IInv, Evaluated
  <2> HIDE DEF o, D, W, A
  <2>5. wifiActive(o) <=> \E i \in W :
                            /\ snap.wifi[i].iface
                            /\ AgeOf("wifi", i) = None \/ AgeOf("wifi", i) <= WiFiIdle
    <3>1. CASE W = {}
      BY <2>2, <3>1 DEF WiFiFields, wifiActive
    <3>2. CASE W # {}
      <4>1. PICK i \in W : W = {i}
        BY <2>3, <3>2
      <4> QED
        BY <2>2, <4>1 DEF WiFiFields, wifiActive, Age, AgeOf
    <3> QED
      BY <3>1, <3>2
  <2>6. dhcpRecent(o) <=> \E i \in D :
                            /\ snap.dhcp[i].status = "bound"
                            /\ AgeOf("dhcp", i) # None /\ AgeOf("dhcp", i) <= DHCPRecent
    <3>1. CASE D = {}
      BY <2>2, <3>1 DEF DHCPFields, dhcpRecent, dhcpBound
    <3>2. CASE D # {}
      <4>1. PICK i \in D : D = {i}
        BY <2>3, <3>2
      <4> QED
        BY <2>2, <4>1 DEF DHCPFields, dhcpRecent, dhcpBound, Age, AgeOf
    <3> QED
      BY <3>1, <3>2
  <2>7. arpValid(o) <=> \E i \in A : snap.arp[i].complete /\ snap.arp[i].address # None
    <3>1. CASE A = {}
      BY <2>2, <3>1 DEF ARPFields, arpValid, Complete
    <3>2. CASE A # {}
      <4>1. PICK i \in A : A = {i}
        BY <2>3, <3>2
      <4> QED
        BY <2>2, <4>1 DEF ARPFields, arpValid, Complete
    <3> QED
      BY <3>1, <3>2
  <2>8. CASE result[m] = None
    BY <2>2, <2>8 DEF D, W, A
  <2>9. CASE result[m] # None
    <3>1. result[m].status = "ONLINE" <=> wifiActive(o) \/ dhcpRecent(o) \/ arpValid(o)
      BY <2>4, <2>9 DEF evaluateObservedStatus
    <3> QED
      BY <2>5, <2>6, <2>7, <2>9, <3>1 DEF D, W, A
  <2> QED
    BY <2>8, <2>9
<1> QED
  BY Inductive, AlwaysTraced, <1>1, PTL
=============================================================================
