-------------------------- MODULE DevicePollProofs --------------------------
(***************************************************************************)
(* Proofs about DevicePoll, for any set of devices, any set of             *)
(* observations, any threshold and any bounds, and about PollScheduler,    *)
(* which says when these polls happen, for any set of configurations and   *)
(* any number of changes.                                                  *)
(***************************************************************************)
EXTENDS DevicePoll, PollScheduler, TLAPS

(***************************************************************************)
(* What the computed rows look like.                                       *)
(***************************************************************************)

\* An observation the poll holds is a well-formed observation.
LEMMA ObsTyped ==
    ASSUME TypeOK, NEW m \in MAC, poll.obs[m] # None
    PROVE  poll.obs[m] \in Observation
BY SeenAssumption DEF TypeOK, Opt

\* A device the poll must upsert was either seen or had a row when read.
LEMMA UpsertHasSource ==
    ASSUME TypeOK, NEW m \in upsertMACs(poll), poll.obs[m] = None
    PROVE  m \in MAC /\ poll.prev[m] \in StateRow
BY DEF TypeOK, Opt, upsertMACs, allMACs, Rows

\* deriveStatusWithoutObservation (presence.go 35-47) never answers ONLINE,
\* and what it answers is justified by the row at that time.
LEMMA SilentStatus ==
    ASSUME NEW row \in StateRow, NEW at \in Nat
    PROVE  LET s == deriveStatusWithoutObservation(at, row)
           IN  /\ s \in {"OFFLINE", "IDLE_RECENT", "UNKNOWN"}
               /\ s = "OFFLINE" => row.lastSeen # None /\ at - row.lastSeen > OfflineHard
               /\ s = "UNKNOWN" => ~hasAnyHistoricalTrace(row)
BY DEF deriveStatusWithoutObservation, hasAnyHistoricalTrace, StateRow

\* The row written for a device the poll did not see.
LEMMA SilentRowFacts ==
    ASSUME NEW prev \in StateRow, NEW at \in Nat
    PROVE  LET row == SilentRow(prev, at)
           IN  /\ row \in StateRow
               /\ row.online = FALSE
               /\ row.status = deriveStatusWithoutObservation(at, prev)
               /\ row.lastSeen = prev.lastSeen
               /\ row.since = prev.since
               /\ row.ip = prev.ip
               /\ row.trace = prev.trace
<1>1. deriveStatusWithoutObservation(at, prev) \in Status
    BY SilentStatus DEF Status
<1> QED
    BY <1>1 DEF SilentRow, StateRow

\* The row written for a device the poll saw.
LEMMA ObservedRowFacts ==
    ASSUME NEW prev \in Opt(StateRow), NEW o \in Observation,
           NEW fetched \in Nat, NEW at \in Nat
    PROVE  LET row == ObservedRow(prev, o, fetched, at)
           IN  /\ row \in StateRow
               /\ row.online <=> o.status = "ONLINE"
               /\ row.status = o.status
               /\ row.lastSeen = IF o.age # None THEN fetched - o.age
                                 ELSE IF prev = None THEN None ELSE prev.lastSeen
               /\ row.since = ConnectedSince(prev, o.status = "ONLINE", at)
<1>1. o.status \in {"ONLINE", "IDLE_RECENT"} /\ o.age \in Nat \cup {None}
      /\ o.ip \in BOOLEAN /\ o.trace \in BOOLEAN
    BY DEF Observation, Opt
<1>2. FreshState \in StateRow /\ FreshState.lastSeen = None /\ FreshState.ip = FALSE
    BY DEF FreshState, StateRow, Status, Opt
<1> DEFINE base == IF prev = None THEN FreshState ELSE prev
           online == o.status = "ONLINE"
           seen == IF o.age # None THEN fetched - o.age ELSE base.lastSeen
           row == ObservedRow(prev, o, fetched, at)
<1>3. base \in StateRow
    BY <1>2 DEF Opt
<1>4. seen \in Opt(Int)
  <2>1. base.lastSeen \in Opt(Int)
      BY <1>3 DEF StateRow
  <2> QED
      BY <1>1, <2>1 DEF Opt
<1>5. ConnectedSince(prev, online, at) \in Opt(Nat)
  <2>1. CASE prev = None
      BY <2>1 DEF ConnectedSince, Opt
  <2>2. CASE prev \in StateRow
      BY <2>2, NoneAssumption DEF ConnectedSince, Opt, StateRow
  <2> QED
      BY <2>1, <2>2 DEF Opt
<1>6. (o.ip \/ base.ip) \in BOOLEAN /\ online \in BOOLEAN /\ o.status \in Status
    BY <1>1 DEF Status
<1>7. row = [online |-> online, status |-> o.status, lastSeen |-> seen,
             since |-> ConnectedSince(prev, online, at),
             ip |-> (o.ip \/ base.ip), trace |-> o.trace]
    BY Zenon DEF ObservedRow
<1>8. row \in StateRow
  <2> HIDE DEF online, seen, base, row
  <2> QED
    BY <1>1, <1>4, <1>5, <1>6, <1>7 DEF StateRow
<1>9. /\ row.online = online /\ row.status = o.status /\ row.lastSeen = seen
      /\ row.since = ConnectedSince(prev, online, at)
  <2> HIDE DEF online, seen, base, row
  <2> QED
    BY <1>7
<1>10. seen = IF o.age # None THEN fetched - o.age
              ELSE IF prev = None THEN None ELSE prev.lastSeen
    BY <1>2
<1> QED
    BY <1>8, <1>9, <1>10

-----------------------------------------------------------------------------
(***************************************************************************)
(* The inductive invariant.  A row is coherent and its status justified    *)
(* because it was computed from a row that was; that needs the row read    *)
(* earlier to be the row now stored, which is ReadsCurrent.                *)
(***************************************************************************)
IInv == TypeOK /\ ReadsCurrent /\ RowsCoherent /\ StatusJustified

\* Every row UpsertStates is about to write is well-formed, coherent and
\* justified.
LEMMA NextRowGood ==
    ASSUME IInv, poll.pc = "upsertStates", NEW m \in upsertMACs(poll)
    PROVE  /\ NextRow(poll, m) \in StateRow
           /\ RowCoherent(NextRow(poll, m))
           /\ RowJustified(NextRow(poll, m))
<1>1. m \in MAC /\ poll.at \in Nat /\ poll.fetched \in Nat /\ now \in Nat
      /\ poll.prev[m] \in Opt(StateRow) /\ poll.prev[m] = states[m]
      /\ poll.at <= now /\ poll.fetched <= now
    BY DEF IInv, TypeOK, ReadsCurrent, upsertMACs, allMACs, Rows
<1>2. poll.prev[m] # None =>
         poll.prev[m] \in StateRow /\ RowCoherent(poll.prev[m]) /\ RowJustified(poll.prev[m])
    BY <1>1 DEF IInv, RowsCoherent, StatusJustified, Rows, Opt
<1>3. CASE poll.obs[m] # None
  <2> DEFINE o == poll.obs[m]
             prev == poll.prev[m]
             row == ObservedRow(prev, o, poll.fetched, poll.at)
  <2>1. o \in Observation
      BY <1>1, <1>3, ObsTyped DEF IInv
  <2>2. NextRow(poll, m) = row
      BY <1>3 DEF NextRow
  <2>3. /\ row \in StateRow
        /\ row.online <=> o.status = "ONLINE"
        /\ row.status = o.status
        /\ row.lastSeen = IF o.age # None THEN poll.fetched - o.age
                          ELSE IF prev = None THEN None ELSE prev.lastSeen
        /\ row.since = ConnectedSince(prev, o.status = "ONLINE", poll.at)
      BY <1>1, <2>1, ObservedRowFacts
  <2>4. /\ o.status \in {"ONLINE", "IDLE_RECENT"}
        /\ o.age \in Nat \cup {None}
        /\ o.status = "ONLINE" => o.age # None
      BY <2>1 DEF Observation, Opt
  <2> HIDE DEF o, row, prev
  <2>5. prev # None => prev \in StateRow /\ RowCoherent(prev)
      BY <1>2 DEF prev
  <2>6. row.lastSeen # None => row.lastSeen <= now
      BY <1>1, <2>3, <2>4, <2>5 DEF RowCoherent, StateRow, Opt
  <2>7. o.status = "ONLINE" => row.lastSeen # None
      BY <1>1, <2>3, <2>4, NoneAssumption
  <2>8. row.since # None => row.since <= now
      BY <1>1, <2>3, <2>5 DEF RowCoherent, ConnectedSince, StateRow, Opt
  <2>9. o.status = "ONLINE" => row.since # None
      BY <1>1, <2>3, <2>5, NoneAssumption DEF RowCoherent, ConnectedSince
  <2> QED
      BY <2>2, <2>3, <2>4, <2>6, <2>7, <2>8, <2>9 DEF RowCoherent, RowJustified
<1>4. CASE poll.obs[m] = None
  <2> DEFINE prev == poll.prev[m]
             row == SilentRow(prev, poll.at)
  <2>1. prev \in StateRow
      BY <1>4, UpsertHasSource DEF IInv
  <2>2. NextRow(poll, m) = row
      BY <1>4 DEF NextRow
  <2>3. /\ row \in StateRow
        /\ row.online = FALSE
        /\ row.status = deriveStatusWithoutObservation(poll.at, prev)
        /\ row.lastSeen = prev.lastSeen
        /\ row.since = prev.since
        /\ row.ip = prev.ip
        /\ row.trace = prev.trace
      BY <1>1, <2>1, SilentRowFacts
  <2>4. /\ row.status \in {"OFFLINE", "IDLE_RECENT", "UNKNOWN"}
        /\ row.status = "OFFLINE" =>
              prev.lastSeen # None /\ poll.at - prev.lastSeen > OfflineHard
        /\ row.status = "UNKNOWN" => ~hasAnyHistoricalTrace(prev)
      BY <1>1, <2>1, <2>3, SilentStatus
  <2>5. prev # None
      BY <2>1, NoneAssumption
  <2>6. RowCoherent(prev) /\ prev.lastSeen \in Opt(Int)
      BY <1>2, <2>1, <2>5 DEF StateRow
  <2> HIDE DEF row, prev
  <2>7. RowCoherent(row)
      BY <2>3, <2>4, <2>6 DEF RowCoherent
  <2>8. row.status = "OFFLINE" => row.lastSeen # None /\ now - row.lastSeen > OfflineHard
      BY <1>1, <2>3, <2>4, <2>6, BoundAssumption DEF Opt
  <2>9. row.status = "UNKNOWN" => ~hasAnyHistoricalTrace(row)
      BY <2>3, <2>4 DEF hasAnyHistoricalTrace
  <2> QED
      BY <2>2, <2>3, <2>7, <2>8, <2>9 DEF RowJustified
<1> QED
    BY <1>3, <1>4

\* The row UpsertNewCache computes is a cache row.
LEMMA ObservedCacheTyped ==
    ASSUME NEW m \in MAC, NEW old \in Opt(CacheRow), NEW o \in Observation, NEW at \in Nat
    PROVE  ObservedCache(m, old, o, at) \in CacheRow
<1>1. CASE old = None
    BY <1>1 DEF ObservedCache, CacheRow
<1>2. CASE old \in CacheRow
    BY <1>2, NoneAssumption DEF ObservedCache, CacheRow
<1> QED
    BY <1>1, <1>2 DEF Opt

LEMMA InitIInv == Init => IInv
<1> SUFFICES ASSUME Init PROVE IInv
    OBVIOUS
<1>1. TypeOK
    BY DEF Init, TypeOK, Idle, NoObs, Phase, Opt
<1>2. ReadsCurrent
    BY DEF Init, ReadsCurrent, Idle
<1>3. Rows(states) = {}
    BY DEF Init, Rows
<1> QED
    BY <1>1, <1>2, <1>3 DEF IInv, RowsCoherent, StatusJustified

\* The clock only ages the rows: what was not in the future still is not, and
\* what was older than the threshold is older still.
LEMMA TickIInv == IInv /\ Tick => IInv'
<1> SUFFICES ASSUME IInv, Tick PROVE IInv'
    OBVIOUS
<1>0. now' = now + 1 /\ now \in Nat /\ UNCHANGED <<states, registered, cache, poll, faults>>
    BY DEF IInv, TypeOK, Tick, tables
<1>1. TypeOK'
    BY <1>0 DEF IInv, TypeOK
<1>2. ReadsCurrent'
    BY <1>0 DEF IInv, TypeOK, ReadsCurrent
<1>3. ASSUME NEW m \in Rows(states)
      PROVE  RowCoherent(states[m])' /\ RowJustified(states[m])'
  <2>1. RowCoherent(states[m]) /\ RowJustified(states[m]) /\ states[m] \in StateRow
      BY <1>3 DEF IInv, TypeOK, RowsCoherent, StatusJustified, Rows, Opt
  <2>2. states[m].lastSeen \in Int \cup {None} /\ states[m].since \in Nat \cup {None}
      BY <2>1 DEF StateRow, Opt
  <2>3. states'[m] = states[m]
      BY <1>0
  <2> QED
      BY <1>0, <2>1, <2>2, <2>3, BoundAssumption
         DEF RowCoherent, RowJustified, hasAnyHistoricalTrace
<1>4. Rows(states)' = Rows(states)
    BY <1>0 DEF Rows
<1> QED
    BY <1>1, <1>2, <1>3, <1>4 DEF IInv, RowsCoherent, StatusJustified

\* A step that leaves the clock and devices_state alone leaves the row
\* invariants alone.
LEMMA RowsUntouched ==
    ASSUME IInv, UNCHANGED <<now, states>>, TypeOK', ReadsCurrent'
    PROVE  IInv'
BY DEF IInv, RowsCoherent, StatusJustified, RowCoherent, RowJustified, Rows,
       hasAnyHistoricalTrace

\* UpsertStates writes good rows and keeps the others.
LEMMA UpsertStatesIInv == IInv /\ UpsertStates => IInv'
<1> SUFFICES ASSUME IInv, UpsertStates PROVE IInv'
    OBVIOUS
<1>0. /\ poll.pc = "upsertStates"
      /\ states' = [m \in MAC |-> IF m \in upsertMACs(poll) THEN NextRow(poll, m)
                                  ELSE states[m]]
      /\ poll' = [poll EXCEPT !.pc = AfterUpsertStates(poll)]
      /\ UNCHANGED <<now, registered, cache, faults>>
    BY DEF UpsertStates
<1>1. ASSUME NEW m \in MAC
      PROVE  /\ states'[m] \in Opt(StateRow)
             /\ states'[m] # None => RowCoherent(states'[m]) /\ RowJustified(states'[m])
  <2>1. CASE m \in upsertMACs(poll)
      BY <1>0, <2>1, NextRowGood DEF Opt
  <2>2. CASE m \notin upsertMACs(poll)
      BY <1>0, <2>2 DEF IInv, TypeOK, RowsCoherent, StatusJustified, Rows
  <2> QED
      BY <2>1, <2>2
<1>2. AfterUpsertStates(poll) \in {"upsertNewCache", "deleteStates", "done"}
    BY DEF AfterUpsertStates, AfterUpsertNewCache
<1>3. TypeOK'
  <2>1. states' \in [MAC -> Opt(StateRow)]
      BY <1>0, <1>1
  <2> QED
      BY <1>0, <1>2, <2>1 DEF IInv, TypeOK, Phase
<1>4. ReadsCurrent'
    BY <1>0, <1>2 DEF IInv, TypeOK, ReadsCurrent
<1>5. RowsCoherent' /\ StatusJustified'
    BY <1>0, <1>1 DEF RowsCoherent, StatusJustified, Rows, RowCoherent, RowJustified,
                      hasAnyHistoricalTrace
<1> QED
    BY <1>3, <1>4, <1>5 DEF IInv

\* DeleteStates only removes rows.
LEMMA DeleteStatesIInv == IInv /\ DeleteStates => IInv'
<1> SUFFICES ASSUME IInv, DeleteStates PROVE IInv'
    OBVIOUS
<1>0. /\ states' = [m \in MAC |-> IF m \in deleteMACs(poll) THEN None ELSE states[m]]
      /\ poll' = [poll EXCEPT !.pc = "deleteNewCache"]
      /\ UNCHANGED <<now, registered, cache, faults>>
    BY DEF DeleteStates
<1>1. \A m \in MAC : states'[m] = None \/ states'[m] = states[m]
    BY <1>0
<1>2. TypeOK'
    BY <1>0, <1>1 DEF IInv, TypeOK, Phase, Opt
<1>3. ReadsCurrent'
    BY <1>0 DEF IInv, TypeOK, ReadsCurrent
<1>4. RowsCoherent' /\ StatusJustified'
    BY <1>0, <1>1 DEF IInv, RowsCoherent, StatusJustified, Rows, RowCoherent,
                      RowJustified, hasAnyHistoricalTrace
<1> QED
    BY <1>2, <1>3, <1>4 DEF IInv

\* The steps that read, or write only the other two tables.
LEMMA OtherStepsIInv ==
    ASSUME IInv,
           \/ FetchSnapshot \/ LoadAllStates \/ ListRegistered \/ ListNewCache
           \/ UpsertNewCache \/ DeleteNewCache \/ PollReturns \/ PollAborts
           \/ \E m \in MAC, name \in Opt(Names) : RegisterDevice(m, name)
           \/ \E m \in MAC, name \in Names : PatchDevice(m, name)
    PROVE  IInv'
<1>1. CASE FetchSnapshot
  <2>1. PICK obs \in [MAC -> Opt(Seen)] :
           poll' = [poll EXCEPT !.pc = "loadStates", !.obs = obs, !.fetched = now]
      BY <1>1 DEF FetchSnapshot
  <2>2. TypeOK'
      BY <1>1, <2>1 DEF FetchSnapshot, tables, IInv, TypeOK, Phase
  <2>3. poll'.pc = "loadStates" /\ poll'.fetched = now /\ poll'.at = poll.at
      BY <2>1 DEF IInv, TypeOK
  <2>4. now' = now /\ now \in Nat /\ poll.at <= now
      BY <1>1 DEF FetchSnapshot, IInv, TypeOK, ReadsCurrent
  <2>5. ReadsCurrent'
      BY <2>3, <2>4 DEF ReadsCurrent
  <2> QED
      BY <1>1, <2>2, <2>5, RowsUntouched DEF FetchSnapshot, tables
<1>2. CASE LoadAllStates
  <2>1. TypeOK' /\ ReadsCurrent'
      BY <1>2 DEF LoadAllStates, tables, IInv, TypeOK, ReadsCurrent, Phase
  <2> QED
      BY <1>2, <2>1, RowsUntouched DEF LoadAllStates, tables
<1>3. CASE ListRegistered
  <2>1. TypeOK' /\ ReadsCurrent'
      BY <1>3 DEF ListRegistered, tables, IInv, TypeOK, ReadsCurrent, Phase, Rows
  <2> QED
      BY <1>3, <2>1, RowsUntouched DEF ListRegistered, tables
<1>4. CASE ListNewCache
  <2>1. TypeOK'
      BY <1>4 DEF ListNewCache, tables, IInv, TypeOK, Phase
  <2>2. /\ poll'.pc = "upsertStates" /\ poll'.fetched = poll.fetched /\ poll'.at = now
        /\ poll'.prev = poll.prev /\ poll'.names = cache
      BY <1>4 DEF ListNewCache, IInv, TypeOK
  <2>3. ReadsCurrent'
      BY <1>4, <2>2 DEF ListNewCache, tables, IInv, TypeOK, ReadsCurrent
  <2> QED
      BY <1>4, <2>1, <2>3, RowsUntouched DEF ListNewCache, tables
<1>5. CASE UpsertNewCache
  <2>1. AfterUpsertNewCache(poll) \in {"deleteStates", "done"}
      BY DEF AfterUpsertNewCache
  <2>2. ASSUME NEW m \in MAC
        PROVE  cache'[m] \in Opt(CacheRow)
    <3> DEFINE row == ObservedCache(m, poll.names[m], poll.obs[m], poll.at)
    <3>1. CASE poll.obs[m] = None
        BY <1>5, <3>1 DEF UpsertNewCache, IInv, TypeOK
    <3>2. CASE poll.obs[m] # None
      <4>1. row \in CacheRow
          BY <3>2, ObsTyped, ObservedCacheTyped DEF IInv, TypeOK
      <4>2. cache[m] \in Opt(CacheRow)
          BY DEF IInv, TypeOK
      <4>3. cache'[m] = IF cache[m] = None THEN row ELSE [row EXCEPT !.first = cache[m].first]
          BY <1>5, <3>2 DEF UpsertNewCache
      <4> HIDE DEF row
      <4> QED
          BY <4>1, <4>2, <4>3 DEF CacheRow, Opt
    <3> QED
        BY <3>1, <3>2
  <2>3. cache' \in [MAC -> Opt(CacheRow)]
      BY <1>5, <2>2 DEF UpsertNewCache
  <2>4. TypeOK' /\ ReadsCurrent'
      BY <1>5, <2>1, <2>3 DEF UpsertNewCache, IInv, TypeOK, ReadsCurrent, Phase
  <2> QED
      BY <1>5, <2>4, RowsUntouched DEF UpsertNewCache
<1>6. CASE DeleteNewCache
  <2>1. TypeOK' /\ ReadsCurrent'
      BY <1>6 DEF DeleteNewCache, IInv, TypeOK, ReadsCurrent, Phase, Opt
  <2> QED
      BY <1>6, <2>1, RowsUntouched DEF DeleteNewCache
<1>7. CASE PollReturns
  <2>1. TypeOK' /\ ReadsCurrent'
      BY <1>7 DEF PollReturns, tables, IInv, TypeOK, ReadsCurrent, Phase, Idle, NoObs, Opt
  <2> QED
      BY <1>7, <2>1, RowsUntouched DEF PollReturns, tables
<1>8. CASE PollAborts
  <2>1. TypeOK' /\ ReadsCurrent'
      BY <1>8 DEF PollAborts, tables, IInv, TypeOK, ReadsCurrent, Phase, Idle, NoObs, Opt
  <2> QED
      BY <1>8, <2>1, RowsUntouched DEF PollAborts, tables
<1>9. CASE \E m \in MAC, name \in Opt(Names) : RegisterDevice(m, name)
  <2>1. PICK m \in MAC, name \in Opt(Names) : RegisterDevice(m, name)
      BY <1>9
  <2>2. registered' \in [MAC -> Opt(RegRow)]
      BY <2>1 DEF RegisterDevice, IInv, TypeOK, RegRow, Opt
  <2>3. TypeOK' /\ ReadsCurrent'
      BY <2>1, <2>2 DEF RegisterDevice, IInv, TypeOK, ReadsCurrent
  <2> QED
      BY <2>1, <2>3, RowsUntouched DEF RegisterDevice
<1>10. CASE \E m \in MAC, name \in Names : PatchDevice(m, name)
  <2>1. PICK m \in MAC, name \in Names : PatchDevice(m, name)
      BY <1>10
  <2>2. registered' \in [MAC -> Opt(RegRow)]
      BY <2>1 DEF PatchDevice, IInv, TypeOK, RegRow, Opt
  <2>3. TypeOK' /\ ReadsCurrent'
      BY <2>1, <2>2 DEF PatchDevice, IInv, TypeOK, ReadsCurrent
  <2> QED
      BY <2>1, <2>3, RowsUntouched DEF PatchDevice
<1> QED
    BY <1>1, <1>2, <1>3, <1>4, <1>5, <1>6, <1>7, <1>8, <1>9, <1>10

LEMMA StutterIInv == IInv /\ UNCHANGED vars => IInv'
<1> SUFFICES ASSUME IInv, UNCHANGED vars PROVE IInv'
    OBVIOUS
<1>1. TypeOK' /\ ReadsCurrent'
    BY DEF vars, IInv, TypeOK, ReadsCurrent
<1> QED
    BY <1>1, RowsUntouched DEF vars

\* Every reachable state satisfies the inductive invariant.
THEOREM Inductive == Spec => []IInv
<1>1. IInv /\ [Next]_vars => IInv'
    BY TickIInv, UpsertStatesIInv, DeleteStatesIInv, OtherStepsIInv, StutterIInv
       DEF Next, PollStep
<1> QED
    BY InitIInv, <1>1, PTL DEF Spec

\* Type correctness of the three tables and of the poll's local variables.
THEOREM TypeCorrect == Spec => []TypeOK
<1>1. IInv => TypeOK
    BY DEF IInv
<1> QED
    BY Inductive, <1>1, PTL

\* What persistSnapshot read of its own tables is current when it writes.
THEOREM PollReadsCurrent == Spec => []ReadsCurrent
<1>1. IInv => ReadsCurrent
    BY DEF IInv
<1> QED
    BY Inductive, <1>1, PTL

\* No interleaving, failed call or restart leaves a self-contradictory row in
\* devices_state.
THEOREM PresenceRowsSound == Spec => []RowsCoherent
<1>1. IInv => RowsCoherent
    BY DEF IInv
<1> QED
    BY Inductive, <1>1, PTL

\* Every verdict deriveStatusWithoutObservation leaves in devices_state is
\* justified by the dates and traces of its row: for any thresholds, clock and
\* interleaving of polls with registrations.
THEOREM StatusIsJustified == Spec => []StatusJustified
<1>1. IInv => StatusJustified
    BY DEF IInv
<1> QED
    BY Inductive, <1>1, PTL

-----------------------------------------------------------------------------
(***************************************************************************)
(* What the poll does to devices_state, step by step.                      *)
(***************************************************************************)

\* Only two steps write devices_state, and nothing deletes a registration.
LEMMA StatesWriters ==
    ASSUME TypeOK, [Next]_vars
    PROVE  /\ UpsertStates \/ DeleteStates \/ states' = states
           /\ \A m \in MAC : registered[m] # None => registered'[m] # None
<1>1. CASE \E m \in MAC, name \in Opt(Names) : RegisterDevice(m, name)
  <2>1. PICK m \in MAC, name \in Opt(Names) : RegisterDevice(m, name)
      BY <1>1
  <2> DEFINE reg == [name |-> IF name # None \/ registered[m] = None THEN name
                              ELSE registered[m].name]
  <2>2. registered' = [registered EXCEPT ![m] = reg] /\ states' = states
      BY <2>1 DEF RegisterDevice
  <2>3. reg \in RegRow
      BY DEF TypeOK, RegRow, Opt
  <2>4. reg # None
      BY <2>3, NoneAssumption
  <2> QED
      BY <2>2, <2>4 DEF TypeOK
<1>2. CASE \E m \in MAC, name \in Names : PatchDevice(m, name)
  <2>1. PICK m \in MAC, name \in Names : PatchDevice(m, name)
      BY <1>2
  <2> DEFINE reg == [registered[m] EXCEPT !.name = name]
  <2>2. registered' = [registered EXCEPT ![m] = reg] /\ states' = states
      BY <2>1 DEF PatchDevice
  <2>3. reg \in RegRow
      BY <2>1 DEF PatchDevice, TypeOK, RegRow, Opt
  <2>4. reg # None
      BY <2>3, NoneAssumption
  <2> QED
      BY <2>2, <2>4 DEF TypeOK
<1>3. CASE UpsertStates \/ DeleteStates
    BY <1>3 DEF UpsertStates, DeleteStates
<1>4. CASE Tick \/ PollAborts \/ FetchSnapshot \/ LoadAllStates \/ ListRegistered
           \/ ListNewCache \/ UpsertNewCache \/ DeleteNewCache \/ PollReturns
           \/ UNCHANGED vars
    BY <1>4 DEF Tick, PollAborts, FetchSnapshot, LoadAllStates, ListRegistered,
                ListNewCache, UpsertNewCache, DeleteNewCache, PollReturns, tables, vars
<1> QED
    BY <1>1, <1>2, <1>3, <1>4 DEF Next, PollStep

\* The connection time is set exactly when a device comes online.
LEMMA SinceStep ==
    ASSUME IInv, [Next]_vars, NEW m \in MAC, states'[m] # None, states'[m].online
    PROVE  IF states[m] # None /\ states[m].online
           THEN states'[m].since = states[m].since
           ELSE states'[m].since = poll.at
<1>1. CASE states' = states
    BY <1>1
<1>2. CASE DeleteStates
    BY <1>2 DEF DeleteStates
<1>3. CASE UpsertStates /\ m \notin upsertMACs(poll)
    BY <1>3 DEF UpsertStates
<1>4. CASE UpsertStates /\ m \in upsertMACs(poll)
  <2>1. states'[m] = NextRow(poll, m) /\ poll.prev[m] = states[m]
        /\ poll.prev[m] \in Opt(StateRow) /\ poll.fetched \in Nat /\ poll.at \in Nat
      BY <1>4 DEF UpsertStates, IInv, ReadsCurrent, TypeOK
  <2>2. CASE poll.obs[m] = None
    <3>1. poll.prev[m] \in StateRow
        BY <1>4, <2>2, UpsertHasSource DEF IInv
    <3>2. SilentRow(poll.prev[m], poll.at).online = FALSE
        BY <2>1, <3>1, SilentRowFacts
    <3> QED
        BY <2>1, <2>2, <3>2 DEF NextRow
  <2>3. CASE poll.obs[m] # None
    <3> DEFINE o == poll.obs[m]
               row == ObservedRow(states[m], o, poll.fetched, poll.at)
    <3>1. o \in Observation
        BY <2>3, ObsTyped DEF IInv
    <3>2. states'[m] = row
        BY <2>1, <2>3 DEF NextRow
    <3>3. /\ row.online <=> o.status = "ONLINE"
          /\ row.since = ConnectedSince(states[m], o.status = "ONLINE", poll.at)
        BY <2>1, <3>1, ObservedRowFacts
    <3> HIDE DEF o, row
    <3> QED
        BY <3>2, <3>3 DEF ConnectedSince
  <2> QED
      BY <2>2, <2>3
<1> QED
    BY <1>1, <1>2, <1>3, <1>4, StatesWriters DEF IInv

\* connected_since_at marks the start of the current online streak
\* (service.go 151-154), in every behaviour.
THEOREM ConnectedSinceCorrect == Spec => SinceMarksStreak
<1>1. IInv /\ [Next]_vars =>
        [\A m \in MAC :
           states'[m] # None /\ states'[m].online =>
              IF states[m] # None /\ states[m].online
              THEN states'[m].since = states[m].since
              ELSE states'[m].since = poll.at]_vars
    BY SinceStep
<1> QED
    BY Inductive, <1>1, PTL DEF Spec, SinceMarksStreak

-----------------------------------------------------------------------------
(***************************************************************************)
(* A registered row, once settled, survives every later poll.              *)
(***************************************************************************)

\* The poll in flight, if it has read the registrations, knows of this one.
Anchored(m) ==
    /\ registered[m] # None /\ states[m] # None
    /\ poll.pc \in {"idle", "loadStates", "listRegistered"} \/ m \in poll.reg

LEMMA AnchoredStep ==
    ASSUME IInv, [Next]_vars, NEW m \in MAC, Anchored(m)
    PROVE  Anchored(m)'
<1>1. registered'[m] # None
    BY StatesWriters DEF IInv, Anchored
<1>2. states'[m] # None
  <2>1. CASE states' = states
      BY <2>1 DEF Anchored
  <2>2. CASE UpsertStates
    <3>1. CASE m \in upsertMACs(poll)
      <4>1. states'[m] = NextRow(poll, m) /\ NextRow(poll, m) \in StateRow
          BY <2>2, <3>1, NextRowGood DEF UpsertStates
      <4> QED
          BY <4>1, NoneAssumption
    <3>2. CASE m \notin upsertMACs(poll)
        BY <2>2, <3>2 DEF UpsertStates, Anchored
    <3> QED
        BY <3>1, <3>2
  <2>3. CASE DeleteStates
    <3>1. m \notin deleteMACs(poll)
        BY <2>3 DEF DeleteStates, Anchored, deleteMACs
    <3> QED
        BY <2>3, <3>1 DEF DeleteStates, Anchored
  <2> QED
      BY <2>1, <2>2, <2>3, StatesWriters DEF IInv
<1>3. poll'.pc \in {"idle", "loadStates", "listRegistered"} \/ m \in poll'.reg
  <2>1. CASE Tick \/ UNCHANGED vars
             \/ (\E k \in MAC, name \in Opt(Names) : RegisterDevice(k, name))
             \/ (\E k \in MAC, name \in Names : PatchDevice(k, name))
    <3>1. poll' = poll
        BY <2>1 DEF Tick, vars, RegisterDevice, PatchDevice
    <3> QED
        BY <3>1 DEF Anchored
  <2>2. CASE PollAborts \/ PollReturns
      BY <2>2 DEF PollAborts, PollReturns, Idle
  <2>3. CASE FetchSnapshot \/ LoadAllStates
      BY <2>3 DEF FetchSnapshot, LoadAllStates, IInv, TypeOK
  <2>4. CASE ListRegistered
      BY <2>4 DEF ListRegistered, Anchored, Rows, IInv, TypeOK
  <2>5. CASE ListNewCache \/ UpsertStates \/ UpsertNewCache \/ DeleteStates \/ DeleteNewCache
    <3>1. m \in poll.reg
        BY <2>5 DEF ListNewCache, UpsertStates, UpsertNewCache, DeleteStates,
                    DeleteNewCache, Anchored
    <3>2. poll'.reg = poll.reg
        BY <2>5 DEF ListNewCache, UpsertStates, UpsertNewCache, DeleteStates,
                    DeleteNewCache, IInv, TypeOK
    <3> QED
        BY <3>1, <3>2
  <2> QED
      BY <2>1, <2>2, <2>3, <2>4, <2>5 DEF Next, PollStep
<1> QED
    BY <1>1, <1>2, <1>3 DEF Anchored

\* A device that was registered and had a row while no poll was running never
\* loses that row again (service.go 117-120, 193).
THEOREM RegisteredRowsSurvive == Spec => SettledRowsSurvive
<1> SUFFICES ASSUME NEW m \in MAC
             PROVE  Spec => [](Settled(m) => [](states[m] # None))
    BY DEF SettledRowsSurvive
<1>1. IInv /\ [Next]_vars /\ Anchored(m) => Anchored(m)'
    BY AnchoredStep
<1>2. Settled(m) => Anchored(m)
    BY DEF Settled, Anchored
<1>3. Anchored(m) => states[m] # None
    BY DEF Anchored
<1> QED
    BY Inductive, <1>1, <1>2, <1>3, PTL DEF Spec

-----------------------------------------------------------------------------
(***************************************************************************)
(* The effect of a successful poll: how far the tables have got is tied to *)
(* the call that is next.                                                  *)
(***************************************************************************)

\* The devices_state rows have been upserted (and nothing else was there).
Upserted(m) ==
    /\ poll.obs[m] # None => states[m] # None /\ states[m].status = poll.obs[m].status
    /\ m \notin allMACs(poll) => states[m] = None

Progress ==
    \A m \in MAC :
        /\ poll.pc \in {"upsertNewCache", "deleteStates", "deleteNewCache", "done"} =>
              Upserted(m)
        /\ poll.pc \in {"deleteStates", "deleteNewCache", "done"} =>
              (poll.obs[m] # None => cache[m] # None)
        /\ poll.pc \in {"deleteNewCache", "done"} =>
              (m \in deleteMACs(poll) => states[m] = None)
        /\ poll.pc = "upsertStates" /\ states[m] # None /\ states[m].status = "OFFLINE" =>
              states[m].lastSeen # None /\ poll.at - states[m].lastSeen > OfflineHard

\* The sets the poll works on depend only on what it read.
LEMMA SameReads ==
    ASSUME TypeOK, NEW c, poll' = [poll EXCEPT !.pc = c]
    PROVE  /\ poll'.pc = c /\ poll'.obs = poll.obs /\ poll'.at = poll.at
           /\ allMACs(poll') = allMACs(poll)
           /\ deleteMACs(poll') = deleteMACs(poll)
BY DEF TypeOK, allMACs, deleteMACs, Rows

LEMMA ProgressStep ==
    ASSUME IInv, Progress, [Next]_vars
    PROVE  Progress'
<1>1. CASE Tick \/ UNCHANGED vars
           \/ (\E k \in MAC, name \in Opt(Names) : RegisterDevice(k, name))
           \/ (\E k \in MAC, name \in Names : PatchDevice(k, name))
  <2>1. UNCHANGED <<states, cache, poll>>
      BY <1>1 DEF Tick, vars, tables, RegisterDevice, PatchDevice
  <2> QED
      BY <2>1 DEF Progress, Upserted, allMACs, deleteMACs, Rows
<1>2. CASE FetchSnapshot \/ LoadAllStates \/ ListRegistered \/ PollReturns \/ PollAborts
  <2>1. poll'.pc \in {"idle", "loadStates", "listRegistered", "listNewCache"}
    <3>1. CASE FetchSnapshot
        BY <3>1 DEF FetchSnapshot, IInv, TypeOK
    <3>2. CASE LoadAllStates \/ ListRegistered
        BY <3>2 DEF LoadAllStates, ListRegistered, IInv, TypeOK
    <3>3. CASE PollReturns \/ PollAborts
        BY <3>3 DEF PollReturns, PollAborts, Idle
    <3> QED
        BY <1>2, <3>1, <3>2, <3>3
  <2> QED
      BY <2>1 DEF Progress
<1>3. CASE ListNewCache
  <2>1. poll'.pc = "upsertStates" /\ poll'.at = now /\ states' = states
      BY <1>3 DEF ListNewCache, IInv, TypeOK, tables
  <2>2. \A m \in MAC : states[m] # None /\ states[m].status = "OFFLINE" =>
            states[m].lastSeen # None /\ now - states[m].lastSeen > OfflineHard
      BY DEF IInv, StatusJustified, RowJustified, Rows
  <2> QED
      BY <2>1, <2>2 DEF Progress
<1>4. CASE UpsertStates
  <2> DEFINE c == AfterUpsertStates(poll)
  <2>1. poll' = [poll EXCEPT !.pc = c] /\ cache' = cache /\ poll.pc = "upsertStates"
      BY <1>4 DEF UpsertStates
  <2> HIDE DEF c
  <2>2. /\ poll'.pc = c /\ poll'.obs = poll.obs
        /\ allMACs(poll') = allMACs(poll) /\ deleteMACs(poll') = deleteMACs(poll)
      BY <2>1, SameReads DEF IInv
  <2>3. c \in {"upsertNewCache", "deleteStates", "done"}
      BY DEF c, AfterUpsertStates, AfterUpsertNewCache
  <2>4. ASSUME NEW m \in MAC PROVE Upserted(m)'
    <3>1. states'[m] = IF m \in upsertMACs(poll) THEN NextRow(poll, m) ELSE states[m]
        BY <1>4 DEF UpsertStates
    <3>2. CASE poll.obs[m] # None
      <4>1. m \in upsertMACs(poll) /\ m \in allMACs(poll)
          BY <3>2 DEF upsertMACs, allMACs, deleteMACs, Rows
      <4>2. states'[m] # None
          BY <2>1, <3>1, <4>1, NextRowGood, NoneAssumption
      <4>3. poll.obs[m] \in Observation
          BY <3>2, ObsTyped DEF IInv
      <4>4. ObservedRow(poll.prev[m], poll.obs[m], poll.fetched, poll.at).status
              = poll.obs[m].status
          BY <4>3, ObservedRowFacts DEF IInv, TypeOK
      <4> QED
          BY <2>2, <3>1, <3>2, <4>1, <4>2, <4>4 DEF Upserted, NextRow
    <3>3. CASE poll.obs[m] = None
      <4>1. m \notin allMACs(poll) => states'[m] = None
          BY <2>1, <3>1 DEF upsertMACs, allMACs, Rows, IInv, ReadsCurrent
      <4> QED
          BY <2>2, <3>3, <4>1 DEF Upserted
    <3> QED
        BY <3>2, <3>3
  <2>5. ASSUME NEW m \in MAC, c # "upsertNewCache" PROVE poll.obs[m] = None
      BY <2>5 DEF c, AfterUpsertStates, Rows
  <2>6. c = "done" => deleteMACs(poll) = {}
      BY DEF c, AfterUpsertStates, AfterUpsertNewCache
  <2> QED
      BY <2>2, <2>3, <2>4, <2>5, <2>6 DEF Progress
<1>5. CASE UpsertNewCache
  <2> DEFINE c == AfterUpsertNewCache(poll)
  <2>1. poll' = [poll EXCEPT !.pc = c] /\ states' = states /\ poll.pc = "upsertNewCache"
      BY <1>5 DEF UpsertNewCache
  <2> HIDE DEF c
  <2>2. /\ poll'.pc = c /\ poll'.obs = poll.obs
        /\ allMACs(poll') = allMACs(poll) /\ deleteMACs(poll') = deleteMACs(poll)
      BY <2>1, SameReads DEF IInv
  <2>3. c \in {"deleteStates", "done"} /\ (c = "done" => deleteMACs(poll) = {})
      BY DEF c, AfterUpsertNewCache
  <2>4. ASSUME NEW m \in MAC, poll.obs[m] # None PROVE cache'[m] # None
    <3> DEFINE row == ObservedCache(m, poll.names[m], poll.obs[m], poll.at)
    <3>1. row \in CacheRow
        BY <2>4, ObsTyped, ObservedCacheTyped DEF IInv, TypeOK
    <3>2. cache'[m] = IF cache[m] = None THEN row ELSE [row EXCEPT !.first = cache[m].first]
        BY <1>5, <2>4 DEF UpsertNewCache
    <3>3. cache[m] \in Opt(CacheRow)
        BY DEF IInv, TypeOK
    <3> HIDE DEF row
    <3>4. cache'[m] \in CacheRow
        BY <3>1, <3>2, <3>3 DEF CacheRow, Opt
    <3> QED
        BY <3>4, NoneAssumption
  <2>5. \A m \in MAC : Upserted(m)'
      BY <2>1, <2>2 DEF Progress, Upserted
  <2> QED
      BY <2>2, <2>3, <2>4, <2>5 DEF Progress
<1>6. CASE DeleteStates
  <2>1. poll' = [poll EXCEPT !.pc = "deleteNewCache"] /\ cache' = cache
        /\ poll.pc = "deleteStates"
      BY <1>6 DEF DeleteStates
  <2>2. /\ poll'.pc = "deleteNewCache" /\ poll'.obs = poll.obs
        /\ allMACs(poll') = allMACs(poll) /\ deleteMACs(poll') = deleteMACs(poll)
      BY <2>1, SameReads DEF IInv
  <2>3. ASSUME NEW m \in MAC
        PROVE  Upserted(m)' /\ (m \in deleteMACs(poll) => states'[m] = None)
    <3>1. states'[m] = IF m \in deleteMACs(poll) THEN None ELSE states[m]
        BY <1>6 DEF DeleteStates
    <3>2. m \in deleteMACs(poll) => poll.obs[m] = None /\ m \in allMACs(poll)
        BY DEF deleteMACs
    <3> QED
        BY <2>1, <2>2, <3>1, <3>2 DEF Progress, Upserted
  <2> QED
      BY <2>1, <2>2, <2>3 DEF Progress
<1>7. CASE DeleteNewCache
  <2>1. poll' = [poll EXCEPT !.pc = "done"] /\ states' = states
        /\ poll.pc = "deleteNewCache"
      BY <1>7 DEF DeleteNewCache
  <2>2. /\ poll'.pc = "done" /\ poll'.obs = poll.obs
        /\ allMACs(poll') = allMACs(poll) /\ deleteMACs(poll') = deleteMACs(poll)
      BY <2>1, SameReads DEF IInv
  <2>3. ASSUME NEW m \in MAC, poll.obs[m] # None PROVE cache'[m] # None
    <3>1. m \notin deleteMACs(poll)
        BY <2>3 DEF deleteMACs
    <3> QED
        BY <1>7, <2>1, <2>3, <3>1 DEF DeleteNewCache, Progress
  <2> QED
      BY <2>1, <2>2, <2>3 DEF Progress, Upserted
<1> QED
    BY <1>1, <1>2, <1>3, <1>4, <1>5, <1>6, <1>7 DEF Next, PollStep

THEOREM ProgressHolds == Spec => []Progress
<1>1. Init => Progress
  <2>1. Init => poll.pc = "idle"
      BY DEF Init, Idle
  <2> QED
      BY <2>1 DEF Progress
<1>2. IInv /\ Progress /\ [Next]_vars => Progress'
    BY ProgressStep
<1> QED
    BY Inductive, <1>1, <1>2, PTL DEF Spec

\* A poll that returned nil has published every observation and removed every
\* stale unregistered device from devices_state, whatever else happened in
\* between its seven calls.
THEOREM PollEffectHolds == Spec => []PollEffect
<1>1. IInv /\ Progress => PollEffect
    BY DEF IInv, TypeOK, Progress, Upserted, PollEffect, deleteMACs
<1> QED
    BY Inductive, ProgressHolds, <1>1, PTL

\* OFFLINE is left only through an observation.
LEMMA OfflineStep ==
    ASSUME IInv, Progress, [Next]_vars, NEW m \in MAC,
           states[m] # None, states'[m] # None, states[m].status = "OFFLINE"
    PROVE  states'[m].status = "OFFLINE" \/ poll.obs[m] # None
<1>1. CASE states' = states
    BY <1>1
<1>2. CASE DeleteStates
    BY <1>2 DEF DeleteStates
<1>3. CASE UpsertStates /\ m \notin upsertMACs(poll)
    BY <1>3 DEF UpsertStates
<1>4. CASE UpsertStates /\ m \in upsertMACs(poll) /\ poll.obs[m] = None
  <2>1. /\ states'[m] = SilentRow(states[m], poll.at)
        /\ states[m] \in StateRow /\ poll.at \in Nat
      BY <1>4, UpsertHasSource DEF UpsertStates, NextRow, IInv, ReadsCurrent, TypeOK
  <2>2. states'[m].status = deriveStatusWithoutObservation(poll.at, states[m])
    <3> DEFINE prev == states[m]
    <3>1. prev \in StateRow /\ poll.at \in Nat
        BY <2>1
    <3> HIDE DEF prev
    <3>2. SilentRow(prev, poll.at).status = deriveStatusWithoutObservation(poll.at, prev)
        BY <3>1, SilentRowFacts
    <3> QED
        BY <2>1, <3>2 DEF prev
  <2>3. poll.pc = "upsertStates"
      BY <1>4 DEF UpsertStates
  <2>4. states[m].lastSeen # None /\ poll.at - states[m].lastSeen > OfflineHard
      BY <2>3 DEF Progress
  <2> QED
      BY <2>2, <2>4 DEF deriveStatusWithoutObservation
<1> QED
    BY <1>1, <1>2, <1>3, <1>4, StatesWriters DEF IInv

\* A poll that does not see a device never revives it from OFFLINE.
THEOREM OfflineIsSticky == Spec => OfflineUntilSeen
<1>1. IInv /\ Progress /\ [Next]_vars =>
        [\A m \in MAC :
           states[m] # None /\ states'[m] # None /\ states[m].status = "OFFLINE" =>
              states'[m].status = "OFFLINE" \/ poll.obs[m] # None]_vars
    BY OfflineStep
<1> QED
    BY Inductive, ProgressHolds, <1>1, PTL DEF Spec, OfflineUntilSeen

-----------------------------------------------------------------------------
(***************************************************************************)
(* When the polls happen: the three invariants of the schedule are         *)
(* inductive together.                                                     *)
(***************************************************************************)
USE PollSchedulerAssumption

ScheduleIInv == ScheduleTypeOK /\ RefreshKept /\ ChangeAnnounced

\* What is read from a readable options file is a configuration or none.
LEMMA FetchConfigType ==
    ASSUME NEW o \in Options, o # Unreadable
    PROVE  FetchConfig(o) \in OrNoConfig(Config)
  BY DEF FetchConfig, Options, OrNoConfig

LEMMA ScheduleInitIInv == ScheduleInit => ScheduleIInv
  <1> SUFFICES ASSUME ScheduleInit PROVE ScheduleIInv
    OBVIOUS
  <1>1. config \in OrNoConfig(Config)
    <2>1. CASE options = Unreadable
      BY <2>1 DEF ScheduleInit, OrNoConfig
    <2>2. CASE options # Unreadable
      BY <2>2, FetchConfigType DEF ScheduleInit
    <2> QED
      BY <2>1, <2>2
  <1>2. ScheduleTypeOK
    <2>1. edits \in 0..MaxEdits
      BY DEF ScheduleInit
    <2>2. NoConfig \in OrNoConfig(Config)
      BY DEF OrNoConfig
    <2> QED
      BY <1>1, <2>1, <2>2, Zenon DEF ScheduleInit, ScheduleTypeOK
  <1>3. RefreshKept /\ ChangeAnnounced
    BY DEF ScheduleInit, RefreshKept, ChangeAnnounced
  <1> QED
    BY <1>2, <1>3 DEF ScheduleIInv

LEMMA ScheduleNextIInv == ScheduleIInv /\ [ScheduleNext]_schedule => ScheduleIInv'
  <1> SUFFICES ASSUME ScheduleIInv, [ScheduleNext]_schedule PROVE ScheduleIInv'
    OBVIOUS
  <1> USE DEF ScheduleIInv, ScheduleTypeOK, RefreshKept, ChangeAnnounced
  <1>1. CASE MainTriggers
    BY <1>1 DEF MainTriggers, TriggerRefresh
  <1>2. CASE Refresh
    BY <1>2 DEF Refresh, TriggerRefresh
  <1>3. CASE Shutdown
    BY <1>3 DEF Shutdown
  <1>4. ASSUME NEW o \in Options, EditOptions(o) PROVE ScheduleIInv'
    BY <1>4 DEF EditOptions
  <1>5. CASE TakeRefresh
    BY <1>5 DEF TakeRefresh
  <1>6. CASE TimerFires
    BY <1>6 DEF TimerFires
  <1>7. CASE PollerStops
    BY <1>7 DEF PollerStops
  <1>8. CASE PollOnce
    BY <1>8 DEF PollOnce
  <1>9. CASE PollEnds
    BY <1>9 DEF PollEnds, AfterPoll
  <1>10. CASE ReadOptions
    BY <1>10, FetchConfigType DEF ReadOptions
  <1>11. CASE StoreConfig
    BY <1>11 DEF StoreConfig, Changed, OrNoConfig
  <1>12. CASE RefresherTriggers
    BY <1>12 DEF RefresherTriggers, TriggerRefresh
  <1>13. CASE RefresherStops
    BY <1>13 DEF RefresherStops
  <1>14. CASE UNCHANGED schedule
    BY <1>14 DEF schedule
  <1> QED
    BY <1>1, <1>2, <1>3, <1>4, <1>5, <1>6, <1>7, <1>8, <1>9, <1>10, <1>11, <1>12, <1>13, <1>14
    DEF ScheduleNext, Poller, Refresher

LEMMA ScheduleAlwaysIInv == ScheduleSpec => []ScheduleIInv
  BY ScheduleInitIInv, ScheduleNextIInv, PTL DEF ScheduleSpec

\* The configuration, the channel and the goroutines' local variables always
\* have their types: nothing but a usable configuration is ever stored.
THEOREM ScheduleTyped == ScheduleSpec => []ScheduleTypeOK
  BY ScheduleAlwaysIInv, PTL DEF ScheduleIInv

\* No refresh asked for while a poll runs or another request waits is lost.
THEOREM NoRefreshLost == ScheduleSpec => []RefreshKept
  BY ScheduleAlwaysIInv, PTL DEF ScheduleIInv

\* A configuration other than the one last polled with is always announced to
\* the poller, or about to be.
THEOREM NoChangeLost == ScheduleSpec => []ChangeAnnounced
  BY ScheduleAlwaysIInv, PTL DEF ScheduleIInv
=============================================================================
