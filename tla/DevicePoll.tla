----------------------------- MODULE DevicePoll -----------------------------
(***************************************************************************)
(* The device service (services/device): one poll cycle turns a router     *)
(* snapshot into three SQLite tables                                       *)
(*                                                                         *)
(*   devices_state       what presence currently believes of a MAC         *)
(*   devices_registered  what the user said about a MAC                    *)
(*   devices_new_cache   when a MAC was first seen and its display name    *)
(*                                                                         *)
(* persistSnapshot is NOT one transaction: it is three reads followed by   *)
(* up to four separate writes, and HTTP handlers write devices_registered  *)
(* between any two of them.  Each database call is one action here; the    *)
(* poll's local variables (what it has read) are the record `poll`.  Any   *)
(* call may return an error and the process may stop between two calls.    *)
(***************************************************************************)
EXTENDS Presence

CONSTANTS
    MAC,           \* device addresses, in canonical form
    KnownVendor,   \* the MACs whose prefix the OUI table resolves
    Names,         \* names the user may give a device
    Seen,          \* the observations the aggregator can hand over
    OfflineHard,   \* PresenceThresholds.OfflineHardThreshold
    MaxTime,       \* bound: the clock stops here
    QuietAfter,    \* scenario: no device is on the network after this time
    MaxFaults      \* bound: failed database calls, failed fetches, restarts

VARIABLES
    now,         \* wall clock
    states,      \* devices_state, by MAC
    registered,  \* devices_registered, by MAC
    cache,       \* devices_new_cache, by MAC
    poll,        \* the poll in flight and everything it has read
    faults       \* faults so far (bound)

vars == <<now, states, registered, cache, poll, faults>>
tables == <<states, registered, cache>>

\* A row of devices_state.  `trace` stands for the columns an observation
\* overwrites (host name, DHCP status, Wi-Fi interface, ARP address, bridge).
StateRow == [online : BOOLEAN, status : Status, lastSeen : Opt(Int),
             since : Opt(Nat), ip : BOOLEAN, trace : BOOLEAN]

\* A row of devices_new_cache; the name is a host name, "<vendor>-XXXX" or
\* the placeholder "Device-XXXX".
CacheRow == [first : Nat, name : {"device", "vendor", "host"}]

RegRow == [name : Opt(Names)]

ASSUME NoneAssumption ==
    /\ None \notin Int /\ None \notin Names
    /\ None \notin StateRow /\ None \notin CacheRow /\ None \notin RegRow
    /\ None \notin Observation
ASSUME SeenAssumption == Seen \subseteq Observation
ASSUME BoundAssumption ==
    /\ OfflineHard \in Nat /\ MaxTime \in Nat /\ QuietAfter \in Nat /\ MaxFaults \in Nat
    /\ KnownVendor \subseteq MAC

Phase == {"idle", "loadStates", "listRegistered", "listNewCache", "upsertStates",
          "upsertNewCache", "deleteStates", "deleteNewCache", "done"}

NoObs == [m \in MAC |-> None]
Idle == [pc |-> "idle", obs |-> NoObs, prev |-> NoObs, reg |-> {},
         names |-> NoObs, fetched |-> 0, at |-> 0]

Rows(table) == {m \in MAC : table[m] # None}

-----------------------------------------------------------------------------
\* The row persistSnapshot starts from when the MAC has none.
FreshState == [online |-> FALSE, status |-> "UNKNOWN", lastSeen |-> None,
               since |-> None, ip |-> FALSE, trace |-> FALSE]

hasAnyHistoricalTrace(row) == row.lastSeen # None \/ row.ip \/ row.trace

\* Mutant: an inclusive threshold.
deriveStatus_Inclusive(at, row) ==
    IF row.lastSeen # None /\ at - row.lastSeen >= OfflineHard THEN "OFFLINE"
    ELSE IF hasAnyHistoricalTrace(row) THEN "IDLE_RECENT"
    ELSE "UNKNOWN"

\* The status of a device that this poll did not see.
deriveStatusWithoutObservation(at, row) ==
    IF row.lastSeen # None /\ at - row.lastSeen > OfflineHard THEN "OFFLINE"
    ELSE IF hasAnyHistoricalTrace(row) THEN "IDLE_RECENT"
    ELSE "UNKNOWN"

\* Mutant: every online poll restarts the connection time.
ConnectedSince_Always(prev, online, at) ==
    IF online THEN at ELSE IF prev = None THEN None ELSE prev.since

\* ConnectedSinceAt after an observation: set when the device comes online,
\* otherwise whatever the row already holds.
ConnectedSince(prev, online, at) ==
    IF online /\ (prev = None \/ ~prev.online) THEN at
    ELSE IF prev = None THEN None ELSE prev.since

\* The next row of a MAC the snapshot contains.
ObservedRow(prev, o, fetched, at) ==
    LET base   == IF prev = None THEN FreshState ELSE prev
        online == o.status = "ONLINE"
    IN  [online   |-> online,
         status   |-> o.status,
         lastSeen |-> IF o.age # None THEN fetched - o.age ELSE base.lastSeen,
         since    |-> ConnectedSince(prev, online, at),
         ip       |-> o.ip \/ base.ip,
         trace    |-> o.trace]

\* Mutant: the online flag is left set.
SilentRow_KeepsOnline(prev, at) ==
    [prev EXCEPT !.status = deriveStatusWithoutObservation(at, prev)]

\* The next row of a registered MAC the snapshot does not contain.
SilentRow(prev, at) ==
    [prev EXCEPT !.online = FALSE,
                 !.status = deriveStatusWithoutObservation(at, prev)]

\* The devices_new_cache row computed for an observed MAC: its name is the
\* host name if there is one, and a better generated name replaces only a
\* placeholder.
ObservedCache(m, old, o, at) ==
    LET generated == IF m \in KnownVendor THEN "vendor" ELSE "device"
    IN  [first |-> IF old = None THEN at ELSE old.first,
         name  |-> IF o.host THEN "host"
                   ELSE IF old = None THEN generated
                   ELSE IF old.name = "device" THEN generated ELSE old.name]

\* Mutant: devices known only from the table are forgotten.
allMACs_ObservedOnly(p) == Rows(p.obs)

\* The MACs persistSnapshot iterates over, and how it sorts them out.
allMACs(p) == Rows(p.prev) \cup Rows(p.obs)

\* Mutant: registration is not looked at.
deleteMACs_IgnoresRegistered(p) == {m \in allMACs(p) : p.obs[m] = None}
deleteMACs(p) == {m \in allMACs(p) : m \notin p.reg /\ p.obs[m] = None}
upsertMACs(p) == allMACs(p) \ deleteMACs(p)

NextRow(p, m) ==
    IF p.obs[m] # None THEN ObservedRow(p.prev[m], p.obs[m], p.fetched, p.at)
    ELSE SilentRow(p.prev[m], p.at)

\* The write calls still to make, in the code's order; a call without rows is
\* skipped, except UpsertStates.
AfterUpsertNewCache(p) == IF deleteMACs(p) # {} THEN "deleteStates" ELSE "done"
AfterUpsertStates(p) ==
    IF Rows(p.obs) # {} THEN "upsertNewCache" ELSE AfterUpsertNewCache(p)

-----------------------------------------------------------------------------
Init ==
    /\ now = 0
    /\ states = [m \in MAC |-> None]
    /\ registered = [m \in MAC |-> None]
    /\ cache = [m \in MAC |-> None]
    /\ poll = Idle
    /\ faults = 0

Tick ==
    /\ now < MaxTime
    /\ now' = now + 1
    /\ UNCHANGED <<tables, poll, faults>>

\* PollOnce up to persistSnapshot: FetchSnapshot succeeded and was aggregated.
FetchSnapshot ==
    /\ poll.pc = "idle"
    /\ \E obs \in [MAC -> Opt(Seen)] :
        /\ now > QuietAfter => obs = NoObs
        /\ poll' = [poll EXCEPT !.pc = "loadStates", !.obs = obs, !.fetched = now]
    /\ UNCHANGED <<now, tables, faults>>

LoadAllStates ==
    /\ poll.pc = "loadStates"
    /\ poll' = [poll EXCEPT !.pc = "listRegistered", !.prev = states]
    /\ UNCHANGED <<now, tables, faults>>

ListRegistered ==
    /\ poll.pc = "listRegistered"
    /\ poll' = [poll EXCEPT !.pc = "listNewCache", !.reg = Rows(registered)]
    /\ UNCHANGED <<now, tables, faults>>

\* The last read; the poll takes its timestamp right after it.
ListNewCache ==
    /\ poll.pc = "listNewCache"
    /\ poll' = [poll EXCEPT !.pc = "upsertStates", !.names = cache, !.at = now]
    /\ UNCHANGED <<now, tables, faults>>

\* One transaction over all rows computed from what was read.
UpsertStates ==
    /\ poll.pc = "upsertStates"
    /\ states' = [m \in MAC |-> IF m \in upsertMACs(poll) THEN NextRow(poll, m)
                                ELSE states[m]]
    /\ poll' = [poll EXCEPT !.pc = AfterUpsertStates(poll)]
    /\ UNCHANGED <<now, registered, cache, faults>>

\* One transaction; on a conflict the stored first_seen_at wins.
UpsertNewCache ==
    /\ poll.pc = "upsertNewCache"
    /\ cache' = [m \in MAC |->
           IF poll.obs[m] = None THEN cache[m]
           ELSE LET row == ObservedCache(m, poll.names[m], poll.obs[m], poll.at)
                IN  IF cache[m] = None THEN row
                    ELSE [row EXCEPT !.first = cache[m].first]]
    /\ poll' = [poll EXCEPT !.pc = AfterUpsertNewCache(poll)]
    /\ UNCHANGED <<now, states, registered, faults>>

DeleteStates ==
    /\ poll.pc = "deleteStates"
    /\ states' = [m \in MAC |-> IF m \in deleteMACs(poll) THEN None ELSE states[m]]
    /\ poll' = [poll EXCEPT !.pc = "deleteNewCache"]
    /\ UNCHANGED <<now, registered, cache, faults>>

DeleteNewCache ==
    /\ poll.pc = "deleteNewCache"
    /\ cache' = [m \in MAC |-> IF m \in deleteMACs(poll) THEN None ELSE cache[m]]
    /\ poll' = [poll EXCEPT !.pc = "done"]
    /\ UNCHANGED <<now, states, registered, faults>>

\* persistSnapshot returned nil; the poller waits for its next cycle.
PollReturns ==
    /\ poll.pc = "done"
    /\ poll' = Idle
    /\ UNCHANGED <<now, tables, faults>>

\* The database call that is next returns an error (a transaction rolls back),
\* or the process stops and is restarted: what was read is gone, what was
\* written stays.
PollAborts ==
    /\ poll.pc \notin {"idle", "done"}
    /\ faults < MaxFaults
    /\ faults' = faults + 1
    /\ poll' = Idle
    /\ UNCHANGED <<now, tables>>

\* POST /api/devices/{mac}/register: insert, or update the given fields.
RegisterDevice(m, name) ==
    /\ registered' = [registered EXCEPT ![m] =
           [name |-> IF name # None \/ registered[m] = None THEN name
                     ELSE registered[m].name]]
    /\ UNCHANGED <<now, states, cache, poll, faults>>

\* PATCH /api/devices/{mac}: only an existing registration is changed.
PatchDevice(m, name) ==
    /\ registered[m] # None
    /\ registered' = [registered EXCEPT ![m].name = name]
    /\ UNCHANGED <<now, states, cache, poll, faults>>

PollStep ==
    \/ FetchSnapshot  \/ LoadAllStates  \/ ListRegistered \/ ListNewCache
    \/ UpsertStates   \/ UpsertNewCache \/ DeleteStates   \/ DeleteNewCache
    \/ PollReturns

Next ==
    \/ Tick
    \/ PollStep
    \/ PollAborts
    \/ \E m \in MAC, name \in Opt(Names) : RegisterDevice(m, name)
    \/ \E m \in MAC, name \in Names : PatchDevice(m, name)

Spec == Init /\ [][Next]_vars

(***************************************************************************)
(* The poller goroutine runs for as long as the process does and each of   *)
(* its calls returns; time passes.  Users need not do anything, and a      *)
(* fault need not happen (there are at most MaxFaults).                    *)
(***************************************************************************)
Fairness == WF_vars(PollStep) /\ WF_vars(Tick)
FairSpec == Spec /\ Fairness

-----------------------------------------------------------------------------
TypeOK ==
    /\ now \in Nat
    /\ states \in [MAC -> Opt(StateRow)]
    /\ registered \in [MAC -> Opt(RegRow)]
    /\ cache \in [MAC -> Opt(CacheRow)]
    /\ poll \in [pc : Phase, obs : [MAC -> Opt(Seen)], prev : [MAC -> Opt(StateRow)],
                 reg : SUBSET MAC, names : [MAC -> Opt(CacheRow)],
                 fetched : Nat, at : Nat]
    /\ faults \in Nat

\* persistSnapshot computes from three earlier reads.  What it read of the
\* tables it will write is still current when it writes them, and its
\* timestamps are not in the future: only the poller writes devices_state
\* and devices_new_cache.  (Registrations may have moved on.)
ReadsCurrent ==
    /\ poll.pc \in {"listRegistered", "listNewCache", "upsertStates"} => poll.prev = states
    /\ poll.pc \in {"upsertStates", "upsertNewCache"} => poll.names = cache
    /\ poll.fetched <= now /\ poll.at <= now

\* A stored row never contradicts itself, whatever polls, faults and restarts
\* produced it: online is exactly status ONLINE, an online row has a
\* connection time and a last-seen time, and no stored time is in the future
\* (service.go 133-180).
RowCoherent(row) ==
    /\ row.online <=> row.status = "ONLINE"
    /\ row.online => row.since # None /\ row.lastSeen # None
    /\ row.since # None => row.since <= now
    /\ row.lastSeen # None => row.lastSeen <= now
RowsCoherent == \A m \in Rows(states) : RowCoherent(states[m])

\* OFFLINE is only said of a device whose last sighting really is older than
\* the hard threshold, and UNKNOWN only of one that never left a trace
\* (presence.go 35-47).
RowJustified(row) ==
    /\ row.status = "OFFLINE" => row.lastSeen # None /\ now - row.lastSeen > OfflineHard
    /\ row.status = "UNKNOWN" => ~hasAnyHistoricalTrace(row)
StatusJustified == \A m \in Rows(states) : RowJustified(states[m])

\* When persistSnapshot has returned nil, a device it neither saw nor found
\* registered has no row left in devices_state, and every device it saw has
\* the observed status and a display name (service.go 117-197), although the
\* tables were read and written in seven separate calls.
PollEffect ==
    poll.pc = "done" =>
        \A m \in MAC :
            /\ poll.obs[m] = None /\ m \notin poll.reg => states[m] = None
            /\ poll.obs[m] # None =>
                  /\ states[m] # None /\ states[m].status = poll.obs[m].status
                  /\ cache[m] # None

\* The companion claim for devices_new_cache, as service_test.go 149-175
\* states it: after a successful poll a stale unregistered device is gone
\* from the new-device cache as well.
StaleCacheDeleted ==
    poll.pc = "done" =>
        \A m \in MAC : poll.obs[m] = None /\ m \notin poll.reg => cache[m] = None

\* connected_since_at is the time of the poll that found the device online
\* after it was not, and stays put while the device stays online.
SinceMarksStreak ==
    [][\A m \in MAC :
         states'[m] # None /\ states'[m].online =>
            IF states[m] # None /\ states[m].online
            THEN states'[m].since = states[m].since
            ELSE states'[m].since = poll.at]_vars

\* A device declared OFFLINE stays OFFLINE until a snapshot contains it again
\* (or its row goes): a poll that does not see it never revives it.
OfflineUntilSeen ==
    [][\A m \in MAC :
         states[m] # None /\ states'[m] # None /\ states[m].status = "OFFLINE" =>
            states'[m].status = "OFFLINE" \/ poll.obs[m] # None]_vars

\* A poll works on the registrations it read.  A device that was registered
\* and had a row while no poll was running keeps its row for ever; only a
\* registration that lands inside a running poll can lose the row to it.
Settled(m) == poll.pc = "idle" /\ registered[m] # None /\ states[m] # None
SettledRowsSurvive == \A m \in MAC : [](Settled(m) => [](states[m] # None))

\* Once the network is quiet, every unregistered device disappears and every
\* registered device that was ever seen at some time ends up OFFLINE.
QuietNetworkSettles ==
    \A m \in MAC :
        <>[](/\ registered[m] = None => states[m] = None
             /\ states[m] # None /\ states[m].lastSeen # None =>
                    states[m].status = "OFFLINE")
=============================================================================
