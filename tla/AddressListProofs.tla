------------------------- MODULE AddressListProofs -------------------------
(***************************************************************************)
(* The address-list operations are idempotent, hold their mutex correctly  *)
(* and implement atomic operations on a set (AddressSet), for every number *)
(* of callers, clients, entries, attempts and faults.                      *)
(*                                                                         *)
(* The argument is about the ghost seen: it is set whenever an operation's *)
(* goal holds (Tracked), so a look-up that finds the goal reached may      *)
(* return at once.  The one difficult case is a remove that the router     *)
(* refuses because the .id has vanished: the entry may exist again under   *)
(* another .id by then.  An entry that exists can only change by vanishing *)
(* (Evolves), so it was absent at some moment since the look-up.  That an  *)
(* operation takes effect once (Once) is due to the mutex: while it is     *)
(* held, only somebody with another client can undo what was done, and as  *)
(* long as nobody does the router refuses the repeated command.            *)
(***************************************************************************)
EXTENDS AddressList, TLAPS

USE AddressListAssumption

Busy == {"find", "add", "remove"}

Tracks(p) ==
    /\ Goal(task[p], entries) => seen[p]
    /\ task[p].pc = "add" => task[p].op = "add"
    /\ task[p].pc = "remove" =>
          /\ task[p].op = "remove" /\ task[p].id # None
          /\ entries[task[p].key] = task[p].id \/ seen[p]
    /\ task[p].pc = "idle" /\ task[p].result = "ok" => seen[p]
Tracked == \A p \in Proc : Tracks(p)

Counted(p) ==
    /\ effects[p] \in {0, 1}
    /\ effects[p] = 1 /\ task[p].pc # "idle" =>
          task[p].pc \in {"add", "remove"} /\ Goal(task[p], entries)
Once == \A p \in Proc : Counted(p)

IInv == TypeOK /\ MutexHeld /\ NeverRefused /\ Tracked /\ Once

\* How an operation may end.
Answer == {"ok"} \cup (Error \ Repeated)

\* An entry that exists keeps its .id until it vanishes.
Evolves ==
    /\ entries' \in [Key -> Opt(Nat)] /\ nextId' \in Nat
    /\ \A k \in Key : entries[k] # None => entries'[k] \in {entries[k], None}

-----------------------------------------------------------------------------
LEMMA InitIInv == Init => IInv
  <1> SUFFICES ASSUME Init PROVE IInv
    OBVIOUS
  <1>1. entries \in [Key -> Opt(Nat)]
    BY DEF Init, Opt
  <1>2. PICK op \in {"add", "remove"}, key \in Key, c \in Client :
           task = [p \in Proc |-> [pc |-> "idle", op |-> op, key |-> key, client |-> c,
                                   id |-> None, attempt |-> 0, result |-> "none"]]
    BY DEF Init
  <1>3. task \in [Proc -> Task]
    BY <1>2 DEF Task, Opt
  <1>4. \A p \in Proc : task[p].pc = "idle" /\ task[p].result = "none"
    BY <1>2
  <1>5. \A p \in Proc : seen[p] = Goal(task[p], entries)
    BY DEF Init
  <1>6. \A p \in Proc : Goal(task[p], entries) \in BOOLEAN
    BY <1>3 DEF Goal, Task
  <1>7. seen \in [Proc -> BOOLEAN]
    BY <1>6 DEF Init
  <1>8. TypeOK
    BY <1>1, <1>3, <1>7 DEF Init, TypeOK, Opt
  <1>9. MutexHeld
    BY <1>4 DEF Init, MutexHeld
  <1>10. NeverRefused /\ Tracked
    BY <1>4, <1>5 DEF NeverRefused, Repeated, Tracked, Tracks
  <1>11. Once
    BY <1>4 DEF Init, Once, Counted
  <1> QED
    BY <1>8, <1>9, <1>10, <1>11 DEF IInv

\* What an executed command may do to the router's table.
LEMMA Effect ==
    ASSUME TypeOK, Tracked, NEW p \in Proc, Execute(Executed(task[p]))
    PROVE  /\ Evolves
           /\ ~Goal(task[p], entries) /\ Goal(task[p], entries')
           /\ \/ /\ task[p].pc = "add" /\ entries[task[p].key] = None
                 /\ entries' = [entries EXCEPT ![task[p].key] = nextId]
              \/ /\ task[p].pc = "remove" /\ entries[task[p].key] = task[p].id
                 /\ entries' = [entries EXCEPT ![task[p].key] = None]
  <1>1. entries' = Executed(task[p]) /\ entries' # entries
    BY DEF Execute
  <1>2. \/ /\ task[p].pc = "add" /\ entries[task[p].key] = None
           /\ entries' = [entries EXCEPT ![task[p].key] = nextId]
        \/ /\ task[p].pc = "remove" /\ entries[task[p].key] = task[p].id
           /\ entries' = [entries EXCEPT ![task[p].key] = None]
    BY <1>1 DEF Executed
  <1>3. task[p].key \in Key /\ nextId \in Nat /\ entries \in [Key -> Opt(Nat)]
    BY DEF TypeOK, Task
  <1>4. nextId' \in Nat
    BY <1>3 DEF Execute
  <1>5. ~Goal(task[p], entries) /\ Goal(task[p], entries')
    BY <1>2, <1>3 DEF Tracked, Tracks, Goal
  <1> QED
    BY <1>2, <1>3, <1>4, <1>5 DEF Evolves, Opt

\* Whoever changes the table, what the other calls rely on is preserved.
LEMMA Watching ==
    ASSUME TypeOK, Tracked, Evolves, NEW p, NEW c, Watch(p, c, entries'),
           NEW q \in Proc, task'[q] = task[q]
    PROVE  Tracks(q)'
  <1>1. seen'[q] = (seen[q] \/ Goal(task[q], entries'))
    BY DEF Watch
  <1>2. task[q].key \in Key /\ Tracks(q)
    BY DEF TypeOK, Task, Tracked
  <1>3. task[q].op = "remove" /\ entries'[task[q].key] = None => Goal(task[q], entries')
    BY DEF Goal
  <1> QED
    BY <1>1, <1>2, <1>3 DEF Tracks, Evolves, Goal

LEMMA WatchType ==
    ASSUME TypeOK, NEW p, NEW c, Watch(p, c, entries')
    PROVE  seen' \in [Proc -> BOOLEAN] /\ effects' \in [Proc -> Nat]
  <1>1. seen' \in [Proc -> BOOLEAN]
    BY DEF Watch, TypeOK, Task, Goal
  <1>2. effects' \in [Proc -> Nat]
    BY DEF Watch, TypeOK
  <1> QED
    BY <1>1, <1>2

\* The others of one client wait: what a call has done can only be undone by
\* way of another client, and then the call counts from zero again.
LEMMA CountingOthers ==
    ASSUME TypeOK, MutexHeld, Once, NEW p, NEW c, Watch(p, c, entries'),
           p \in Proc => task[p].pc \in {"add", "remove"} /\ task[p].client = c,
           c = None \/ p \in Proc, NEW q \in Proc, q # p, task'[q] = task[q]
    PROVE  Counted(q)'
  <1>1. /\ effects'[q] = IF task[q].client # c /\ ~Goal(task[q], entries') THEN 0
                         ELSE effects[q]
        /\ Counted(q) /\ task[q].client \in Client
    BY DEF Watch, Once, TypeOK, Task
  <1>2. ASSUME task[q].pc \in {"add", "remove"} PROVE task[q].client # c
    <2>1. addressList[task[q].client] = q
      BY <1>1, <1>2 DEF MutexHeld
    <2>2. CASE c = None
      BY <1>1, <2>2
    <2>3. CASE p \in Proc
      <3>1. c \in Client
        BY <2>3 DEF TypeOK, Task
      <3>2. addressList[c] = p
        BY <2>3, <3>1 DEF MutexHeld
      <3> QED
        BY <2>1, <3>2
    <2> QED
      BY <2>2, <2>3
  <1> QED
    BY <1>1, <1>2 DEF Counted

\* A return gives the client's mutex back and leaves the other calls alone.
LEMMA Finishing ==
    ASSUME TypeOK, MutexHeld, NeverRefused, NEW p \in Proc, task[p].pc \in Busy,
           NEW result \in Answer, Finish(p, result)
    PROVE  /\ task' \in [Proc -> Task] /\ addressList' \in [Client -> Opt(Proc)]
           /\ MutexHeld' /\ NeverRefused'
           /\ task'[p].pc = "idle" /\ task'[p].result = result
           /\ task'[p].op = task[p].op /\ task'[p].key = task[p].key
           /\ task'[p].client = task[p].client
           /\ \A q \in Proc \ {p} : task'[q] = task[q]
  <1>1. /\ task \in [Proc -> Task] /\ addressList \in [Client -> Opt(Proc)]
        /\ task[p] \in Task /\ task[p].client \in Client
    BY DEF TypeOK, Task
  <1> DEFINE k == At(task[p], "idle", None, 0)
             e == [k EXCEPT !.result = result]
  <1>2. /\ k \in Task
        /\ k.pc = "idle" /\ k.op = task[p].op /\ k.key = task[p].key
        /\ k.client = task[p].client
    <2>1. 0 \in 0..Attempts /\ None \in Opt(Nat)
      BY DEF Opt
    <2> QED
      BY <1>1, <2>1 DEF Task, At
  <1>3. /\ e \in Task
        /\ e.pc = "idle" /\ e.op = task[p].op /\ e.key = task[p].key
        /\ e.client = task[p].client /\ e.result = result
    <2>1. result \in {"none", "ok"} \cup Error
      BY DEF Answer
    <2> HIDE DEF k
    <2> QED
      BY <1>2, <2>1 DEF Task
  <1>4. /\ task' \in [Proc -> Task]
        /\ task'[p].pc = "idle" /\ task'[p].result = result /\ task'[p].client = task[p].client
        /\ task'[p].op = task[p].op /\ task'[p].key = task[p].key
        /\ \A q \in Proc \ {p} : task'[q] = task[q]
    <2>1. task' = [task EXCEPT ![p] = e]
      BY <1>1 DEF Finish
    <2> HIDE DEF e
    <2> QED
      BY <1>1, <1>3, <2>1
  <1>5. addressList' = [addressList EXCEPT ![task[p].client] = None]
    BY DEF Finish, Unlocks
  <1>6. addressList[task[p].client] = p
    BY <1>1 DEF MutexHeld, Busy
  <1>7. MutexHeld'
    <2> SUFFICES ASSUME NEW q \in Proc, NEW c \in Client
                 PROVE  addressList'[c] = q <=>
                           task'[q].client = c /\ task'[q].pc \in {"find", "add", "remove"}
      BY DEF MutexHeld
    <2>1. CASE q = p
      BY <2>1, <1>1, <1>4, <1>5, <1>6 DEF MutexHeld
    <2>2. CASE q # p
      BY <2>2, <1>1, <1>4, <1>5, <1>6 DEF MutexHeld
    <2> QED
      BY <2>1, <2>2
  <1>8. NeverRefused'
    BY <1>4 DEF NeverRefused, Answer, Repeated
  <1> QED
    BY <1>1, <1>4, <1>5, <1>7, <1>8 DEF Opt

\* Going on to the next command, or to the next attempt, keeps the mutex.
LEMMA Going ==
    ASSUME TypeOK, MutexHeld, NeverRefused, NEW p \in Proc, task[p].pc \in Busy,
           NEW k \in Task, k.pc \in Busy, k.client = task[p].client, k.result \notin Repeated,
           task' = [task EXCEPT ![p] = k], addressList' = addressList
    PROVE  /\ task' \in [Proc -> Task] /\ addressList' \in [Client -> Opt(Proc)]
           /\ MutexHeld' /\ NeverRefused'
           /\ task'[p] = k /\ \A q \in Proc \ {p} : task'[q] = task[q]
  <1>1. /\ task' \in [Proc -> Task] /\ task'[p] = k
        /\ \A q \in Proc \ {p} : task'[q] = task[q]
        /\ addressList' \in [Client -> Opt(Proc)]
    BY DEF TypeOK
  <1>2. MutexHeld'
    BY <1>1 DEF MutexHeld, Busy
  <1>3. NeverRefused'
    BY <1>1 DEF NeverRefused
  <1> QED
    BY <1>1, <1>2, <1>3

\* What a call relies on does not depend on the calls of others.
LEMMA Undisturbed ==
    ASSUME Tracked, Once, UNCHANGED lists, NEW q \in Proc, task'[q] = task[q]
    PROVE  Tracks(q)' /\ Counted(q)'
  BY DEF Tracked, Tracks, Once, Counted, Goal, lists

-----------------------------------------------------------------------------
LEMMA InvokeIInv ==
    ASSUME IInv, NEW p \in Proc, NEW op \in {"add", "remove"}, NEW key \in Key,
           NEW c \in Client, Invoke(p, op, key, c)
    PROVE  IInv'
  <1> DEFINE k == [pc |-> "lock", op |-> op, key |-> key, client |-> c, id |-> None,
                   attempt |-> 0, result |-> "none"]
  <1>1. k \in Task
    <2>1. 0 \in 0..Attempts /\ None \in Opt(Nat)
      BY DEF Opt
    <2> QED
      BY <2>1 DEF Task
  <1>2. /\ k.pc = "lock" /\ k.op = op /\ k.key = key /\ k.result = "none"
        /\ Goal(k, entries) \in BOOLEAN
    BY DEF Goal
  <1>3. /\ task' = [task EXCEPT ![p] = k] /\ seen' = [seen EXCEPT ![p] = Goal(k, entries)]
        /\ effects' = [effects EXCEPT ![p] = 0]
        /\ UNCHANGED <<entries, nextId, addressList, faults>>
        /\ task[p].pc = "idle"
    BY DEF Invoke
  <1> HIDE DEF k
  <1>4. TypeOK /\ MutexHeld /\ NeverRefused /\ Tracked /\ Once
    BY DEF IInv
  <1>5. /\ task' \in [Proc -> Task] /\ task'[p] = k /\ seen'[p] = Goal(k, entries)
        /\ \A q \in Proc \ {p} : task'[q] = task[q] /\ seen'[q] = seen[q]
    BY <1>1, <1>3, <1>4 DEF TypeOK
  <1>6. TypeOK'
    BY <1>2, <1>3, <1>4, <1>5 DEF TypeOK
  <1>7. MutexHeld'
    BY <1>2, <1>3, <1>4, <1>5 DEF MutexHeld
  <1>8. NeverRefused'
    BY <1>2, <1>4, <1>5 DEF NeverRefused, Repeated
  <1>9. Tracked'
    BY <1>2, <1>3, <1>4, <1>5 DEF Tracked, Tracks, Goal
  <1>10. Once'
    BY <1>3, <1>4, <1>5 DEF Once, Counted, Goal, TypeOK
  <1> QED
    BY <1>6, <1>7, <1>8, <1>9, <1>10 DEF IInv

LEMMA LockIInv == ASSUME IInv, NEW p \in Proc, Lock(p) PROVE IInv'
  <1>1. TypeOK /\ MutexHeld /\ NeverRefused /\ Tracked /\ Once
    BY DEF IInv
  <1>2. /\ task[p] \in Task /\ task[p].client \in Client /\ task[p].pc = "lock"
        /\ None \in Opt(Nat)
    BY <1>1 DEF TypeOK, Task, Lock, Opt
  <1> DEFINE k == At(task[p], "find", None, 1)
  <1>3. /\ k \in Task /\ k.pc = "find" /\ k.op = task[p].op /\ k.key = task[p].key
        /\ k.client = task[p].client /\ k.result = task[p].result
    <2>1. 1 \in 0..Attempts
      OBVIOUS
    <2> QED
      BY <1>2, <2>1 DEF Task, At
  <1>4. /\ task' = [task EXCEPT ![p] = k]
        /\ addressList[task[p].client] = None
        /\ addressList' = [addressList EXCEPT ![task[p].client] = p]
        /\ UNCHANGED <<lists, faults>>
    BY DEF Lock
  <1> HIDE DEF k
  <1>5. /\ task' \in [Proc -> Task] /\ task'[p] = k
        /\ \A q \in Proc \ {p} : task'[q] = task[q]
    BY <1>1, <1>3, <1>4 DEF TypeOK
  <1>6. TypeOK'
    BY <1>1, <1>2, <1>4, <1>5 DEF TypeOK, Opt, lists
  <1>7. MutexHeld'
    <2> SUFFICES ASSUME NEW q \in Proc, NEW c \in Client
                 PROVE  addressList'[c] = q <=>
                           task'[q].client = c /\ task'[q].pc \in {"find", "add", "remove"}
      BY DEF MutexHeld
    <2>1. addressList \in [Client -> Opt(Proc)]
      BY <1>1 DEF TypeOK
    <2>2. CASE q = p
      BY <2>1, <2>2, <1>1, <1>2, <1>3, <1>4, <1>5 DEF MutexHeld
    <2>3. CASE q # p
      BY <2>1, <2>3, <1>1, <1>2, <1>3, <1>4, <1>5 DEF MutexHeld
    <2> QED
      BY <2>2, <2>3
  <1>8. NeverRefused'
    BY <1>1, <1>3, <1>5 DEF NeverRefused
  <1>9. Tracked'
    BY <1>1, <1>3, <1>4, <1>5 DEF Tracked, Tracks, Goal, lists
  <1>10. Once'
    BY <1>1, <1>2, <1>4, <1>5 DEF Once, Counted, Goal, lists
  <1> QED
    BY <1>6, <1>7, <1>8, <1>9, <1>10 DEF IInv

-----------------------------------------------------------------------------
\* The router executed the caller's command, or did not.
Effected(p) == UNCHANGED lists \/ Executes(p)

\* What Effected does for the types, for the other calls, and for the caller.
LEMMA Effecting ==
    ASSUME TypeOK, MutexHeld, Tracked, Once, NEW p \in Proc, task[p].pc \in Busy, Effected(p)
    PROVE  /\ entries' \in [Key -> Opt(Nat)] /\ nextId' \in Nat
           /\ seen' \in [Proc -> BOOLEAN] /\ effects' \in [Proc -> Nat]
           /\ \A q \in Proc \ {p} : task'[q] = task[q] => Tracks(q)' /\ Counted(q)'
           /\ Goal(task[p], entries') => seen'[p]
           /\ seen[p] => seen'[p]
           /\ effects'[p] \in {0, 1}
           /\ effects'[p] = 1 => task[p].pc \in {"add", "remove"} /\ Goal(task[p], entries')
           /\ \A id \in Nat : entries[task[p].key] = id =>
                 entries'[task[p].key] = id \/ entries'[task[p].key] = None
  <1>0. Counted(p) /\ Tracks(p)
    BY DEF Once, Tracked
  <1>1. CASE UNCHANGED lists
    <2>1. \A q \in Proc : task'[q] = task[q] => Tracks(q)' /\ Counted(q)'
      BY <1>1, Undisturbed
    <2>2. Goal(task[p], entries) => seen[p]
      BY <1>0 DEF Tracks
    <2>3. /\ effects[p] \in {0, 1}
          /\ effects[p] = 1 => task[p].pc \in {"add", "remove"} /\ Goal(task[p], entries)
      BY <1>0 DEF Counted, Busy
    <2>4. UNCHANGED <<entries, nextId, seen, effects>>
      BY <1>1 DEF lists
    <2> QED
      BY <2>1, <2>2, <2>3, <2>4 DEF TypeOK, Goal
  <1>2. CASE Executes(p)
    <2>0. Execute(Executed(task[p])) /\ Watch(p, task[p].client, entries')
      BY <1>2 DEF Executes
    <2>1. /\ Evolves /\ ~Goal(task[p], entries) /\ Goal(task[p], entries')
          /\ task[p].pc \in {"add", "remove"}
      BY <2>0, Effect
    <2>2. seen' \in [Proc -> BOOLEAN] /\ effects' \in [Proc -> Nat]
      BY <2>0, WatchType
    <2>3. \A q \in Proc : task'[q] = task[q] => Tracks(q)'
      BY <2>0, <2>1, Watching
    <2>4. \A q \in Proc \ {p} : task'[q] = task[q] => Counted(q)'
      BY <2>0, <2>1, CountingOthers
    <2>5. seen'[p] = (seen[p] \/ Goal(task[p], entries')) /\ effects'[p] = effects[p] + 1
      BY <2>0 DEF Watch
    <2>6. effects[p] = 0
      BY <1>0, <2>1 DEF Counted
    <2>7. task[p].key \in Key
      BY DEF TypeOK, Task
    <2> QED
      BY <2>1, <2>2, <2>3, <2>4, <2>5, <2>6, <2>7 DEF Evolves
  <1> QED
    BY <1>1, <1>2 DEF Effected

\* A return keeps the invariant when success was justified.
LEMMA ReturnIInv ==
    ASSUME IInv, NEW p \in Proc, task[p].pc \in Busy, Effected(p), faults' \in Nat,
           NEW result \in Answer, Finish(p, result), result = "ok" => seen'[p]
    PROVE  IInv'
  <1>1. TypeOK /\ MutexHeld /\ NeverRefused /\ Tracked /\ Once
    BY DEF IInv
  <1>2. /\ task' \in [Proc -> Task] /\ addressList' \in [Client -> Opt(Proc)]
        /\ MutexHeld' /\ NeverRefused'
        /\ task'[p].pc = "idle" /\ task'[p].result = result
        /\ task'[p].op = task[p].op /\ task'[p].key = task[p].key
        /\ \A q \in Proc \ {p} : task'[q] = task[q]
    BY <1>1, Finishing
  <1>3. /\ entries' \in [Key -> Opt(Nat)] /\ nextId' \in Nat
        /\ seen' \in [Proc -> BOOLEAN] /\ effects' \in [Proc -> Nat]
        /\ \A q \in Proc \ {p} : task'[q] = task[q] => Tracks(q)' /\ Counted(q)'
        /\ Goal(task[p], entries') => seen'[p]
        /\ effects'[p] \in {0, 1}
    BY <1>1, Effecting
  <1>4. TypeOK'
    BY <1>2, <1>3 DEF TypeOK
  <1>5. Tracks(p)' /\ Counted(p)'
    BY <1>2, <1>3 DEF Tracks, Counted, Goal
  <1>6. Tracked' /\ Once'
    BY <1>2, <1>3, <1>5 DEF Tracked, Once
  <1> QED
    BY <1>2, <1>4, <1>6 DEF IInv

\* So does going on, when a remove goes on with an .id that it saw.
LEMMA GoingIInv ==
    ASSUME IInv, NEW p \in Proc, task[p].pc \in Busy, Effected(p), faults' \in Nat,
           NEW k \in Task, task' = [task EXCEPT ![p] = k], addressList' = addressList,
           k.pc \in Busy, k.client = task[p].client, k.result = task[p].result,
           k.op = task[p].op, k.key = task[p].key, k.pc \in {"find", task[p].op},
           task[p].pc \in {"find", k.pc},
           k.pc = "remove" => k.id # None /\ (entries'[k.key] = k.id \/ seen'[p])
    PROVE  IInv'
  <1>1. TypeOK /\ MutexHeld /\ NeverRefused /\ Tracked /\ Once
    BY DEF IInv
  <1>2. k.result \notin Repeated
    BY <1>1 DEF NeverRefused
  <1>3. /\ task' \in [Proc -> Task] /\ addressList' \in [Client -> Opt(Proc)]
        /\ MutexHeld' /\ NeverRefused'
        /\ task'[p] = k /\ \A q \in Proc \ {p} : task'[q] = task[q]
    BY <1>1, <1>2, Going
  <1>4. /\ entries' \in [Key -> Opt(Nat)] /\ nextId' \in Nat
        /\ seen' \in [Proc -> BOOLEAN] /\ effects' \in [Proc -> Nat]
        /\ \A q \in Proc \ {p} : task'[q] = task[q] => Tracks(q)' /\ Counted(q)'
        /\ Goal(task[p], entries') => seen'[p]
        /\ effects'[p] \in {0, 1}
        /\ effects'[p] = 1 => task[p].pc \in {"add", "remove"} /\ Goal(task[p], entries')
    BY <1>1, Effecting
  <1>5. TypeOK'
    BY <1>3, <1>4 DEF TypeOK
  <1>6. Tracks(p)'
    BY <1>3, <1>4 DEF Tracks, Goal, Busy
  <1>7. Counted(p)'
    BY <1>3, <1>4 DEF Counted, Goal
  <1>8. Tracked' /\ Once'
    BY <1>3, <1>4, <1>6, <1>7 DEF Tracked, Once
  <1> QED
    BY <1>3, <1>5, <1>8 DEF IInv

-----------------------------------------------------------------------------
LEMMA FindIInv == ASSUME IInv, NEW p \in Proc, Find(p) PROVE IInv'
  <1>1. TypeOK /\ Tracks(p) /\ task[p] \in Task /\ task[p].key \in Key
    BY DEF IInv, Tracked, TypeOK, Task
  <1>2. task[p].pc = "find" /\ Effected(p) /\ seen' = seen /\ entries' = entries
    BY DEF Find, Effected, lists
  <1>3. faults' \in Nat
    BY <1>1 DEF TypeOK, Find
  <1> DEFINE id == entries[task[p].key]
  <1>4. \/ task[p].op = "add" /\ id # None /\ Finish(p, "ok")
        \/ task[p].op = "add" /\ id = None /\ Proceed(p, "add", None)
        \/ task[p].op = "remove" /\ id = None /\ Finish(p, "ok")
        \/ task[p].op = "remove" /\ id # None /\ Proceed(p, "remove", id)
    BY DEF Find, findAddressIDs
  <1>5. CASE Finish(p, "ok") /\ Goal(task[p], entries)
    BY <1>1, <1>2, <1>3, <1>5, ReturnIInv DEF Tracks, Answer, Busy
  <1>6. CASE task[p].op = "add" /\ Proceed(p, "add", None)
    <2> DEFINE k == At(task[p], "add", None, 1)
    <2>1. 1 \in 0..Attempts /\ None \in Opt(Nat)
      BY DEF Opt
    <2>2. /\ k \in Task /\ k.pc = "add" /\ k.op = task[p].op /\ k.key = task[p].key
          /\ k.client = task[p].client /\ k.result = task[p].result
      BY <1>1, <2>1 DEF Task, At
    <2>3. task' = [task EXCEPT ![p] = k] /\ addressList' = addressList
      BY <1>6 DEF Proceed
    <2> HIDE DEF k
    <2> QED
      BY <1>2, <1>3, <1>6, <2>2, <2>3, GoingIInv DEF Busy
  <1>7. CASE task[p].op = "remove" /\ id # None /\ Proceed(p, "remove", id)
    <2> DEFINE k == At(task[p], "remove", id, 1)
    <2>1. 1 \in 0..Attempts /\ id \in Opt(Nat)
      BY <1>1 DEF TypeOK
    <2>2. /\ k \in Task /\ k.pc = "remove" /\ k.op = task[p].op /\ k.key = task[p].key
          /\ k.client = task[p].client /\ k.result = task[p].result /\ k.id = id
      BY <1>1, <2>1 DEF Task, At
    <2>3. task' = [task EXCEPT ![p] = k] /\ addressList' = addressList
      BY <1>7 DEF Proceed
    <2> HIDE DEF k
    <2> QED
      BY <1>2, <1>3, <1>7, <2>2, <2>3, GoingIInv DEF Busy
  <1> QED
    BY <1>4, <1>5, <1>6, <1>7 DEF Goal

\* A command that was executed and answered: the caller's goal holds.
LEMMA ChangeIInv == ASSUME IInv, NEW p \in Proc, Change(p) PROVE IInv'
  <1>1. TypeOK /\ Tracked
    BY DEF IInv
  <1>2. /\ task[p].pc \in Busy /\ Effected(p) /\ Finish(p, "ok")
        /\ Execute(Executed(task[p])) /\ Watch(p, task[p].client, entries')
    BY DEF Change, Busy, Effected, Executes
  <1>3. faults' \in Nat
    BY <1>1 DEF TypeOK, Change
  <1>4. Goal(task[p], entries')
    BY <1>1, <1>2, Effect
  <1>5. seen'[p]
    BY <1>2, <1>4 DEF Watch
  <1> QED
    BY <1>2, <1>3, <1>5, ReturnIInv DEF Answer

\* A refused command: an add met an entry, and the entry that a remove had
\* found was absent at some moment since.  Both recognise the refusal.
LEMMA RefuseIInv == ASSUME IInv, NEW p \in Proc, Refuse(p) PROVE IInv'
  <1>1. TypeOK /\ Tracks(p)
    BY DEF IInv, Tracked
  <1>2. PICK text \in Refused(task[p]) : Finish(p, Reported(task[p], text))
    BY DEF Refuse
  <1>3. \/ task[p].pc = "add" /\ text = "already have" /\ entries[task[p].key] # None
        \/ /\ task[p].pc = "remove" /\ text = "no such item"
           /\ entries[task[p].key] # task[p].id
    BY <1>2 DEF Refused
  <1>4. Effected(p) /\ seen' = seen /\ faults' \in Nat /\ task[p].pc \in Busy
    BY <1>1, <1>3 DEF Refuse, Effected, lists, TypeOK, Busy
  <1>5. Finish(p, "ok")
    BY <1>2, <1>3 DEF Reported, isAlreadyExistsError, isNotFoundError
  <1>6. seen[p]
    BY <1>1, <1>3 DEF Tracks, Goal
  <1> QED
    BY <1>4, <1>5, <1>6, ReturnIInv DEF Answer

\* No other error is taken for a refusal, or for success.
LEMMA OtherError ==
    ASSUME NEW p \in Proc, NEW text \in Error \ Repeated
    PROVE  Reported(task[p], text) = text /\ text \in Answer /\ text # "ok"
  BY DEF Reported, isAlreadyExistsError, isNotFoundError, Answer, Error, Repeated

LEMMA DeniedIInv == ASSUME IInv, NEW p \in Proc, Denied(p) PROVE IInv'
  <1>1. task[p].pc \in Busy /\ Effected(p)
    BY DEF Denied, Busy, Effected
  <1>2. faults' \in Nat
    <2>1. Fault
      BY DEF Denied
    <2> QED
      BY <2>1 DEF IInv, TypeOK, Fault
  <1>3. "not enough permissions" \in Error \ Repeated
    BY DEF Error, Repeated
  <1>4. Finish(p, "not enough permissions")
    BY <1>3, OtherError DEF Denied
  <1> QED
    BY <1>1, <1>2, <1>3, <1>4, OtherError, ReturnIInv

\* The next attempt of a remove still has the .id it saw, or the entry is gone.
LEMMA RetryIInv ==
    ASSUME IInv, NEW p \in Proc, task[p].pc \in Busy, Effected(p), faults' \in Nat,
           task[p].attempt < Attempts, task' = [task EXCEPT ![p] = NextAttempt(@)],
           addressList' = addressList
    PROVE  IInv'
  <1>0. MutexHeld /\ Once
    BY DEF IInv
  <1>1. TypeOK /\ Tracked /\ Tracks(p) /\ task[p] \in Task /\ task[p].key \in Key
    BY DEF IInv, Tracked, TypeOK, Task
  <1> DEFINE k == NextAttempt(task[p])
  <1>2. /\ k \in Task /\ k.pc = task[p].pc /\ k.op = task[p].op /\ k.key = task[p].key
        /\ k.client = task[p].client /\ k.result = task[p].result /\ k.id = task[p].id
    <2>1. task[p].attempt + 1 \in 0..Attempts
      BY <1>1 DEF Task
    <2> QED
      BY <1>1, <2>1 DEF NextAttempt, Task
  <1>3. task' = [task EXCEPT ![p] = k]
    BY <1>1 DEF TypeOK
  <1>4. ASSUME task[p].pc = "remove"
        PROVE  task[p].id # None /\ (entries'[task[p].key] = task[p].id \/ seen'[p])
    <2>1. task[p].id \in Nat /\ task[p].op = "remove"
      BY <1>1, <1>4 DEF Tracks, Task, Opt
    <2>2. /\ seen[p] => seen'[p]
          /\ Goal(task[p], entries') => seen'[p]
          /\ entries[task[p].key] = task[p].id =>
                entries'[task[p].key] = task[p].id \/ entries'[task[p].key] = None
      BY <1>0, <1>1, <2>1, Effecting
    <2> QED
      BY <1>1, <1>4, <2>1, <2>2 DEF Tracks, Goal
  <1>5. k.pc \in {"find", task[p].op} /\ task[p].pc \in {"find", k.pc}
    BY <1>1, <1>2 DEF Busy, Tracks
  <1> HIDE DEF k
  <1>6. /\ k.pc \in Busy
        /\ k.pc = "remove" => k.id # None /\ (entries'[k.key] = k.id \/ seen'[p])
    BY <1>2, <1>4
  <1> QED
    BY <1>2, <1>3, <1>5, <1>6, GoingIInv

LEMMA FaultIInv ==
    ASSUME IInv, NEW p \in Proc, ConnectionFails(p) \/ Cancelled(p)
    PROVE  IInv'
  <1>1. task[p].pc \in Busy /\ Effected(p)
    BY DEF ConnectionFails, Cancelled, Busy, Effected
  <1>2. faults' \in Nat
    BY DEF IInv, TypeOK, ConnectionFails, Cancelled, Fault
  <1>3. CASE \E text \in {"unreachable", "cancelled"} : Finish(p, Reported(task[p], text))
    <2>1. PICK text \in {"unreachable", "cancelled"} : Finish(p, Reported(task[p], text))
      BY <1>3
    <2>2. text \in Error \ Repeated
      BY DEF Error, Repeated
    <2>3. Finish(p, text) /\ text \in Answer /\ text # "ok"
      BY <2>1, <2>2, OtherError
    <2> QED
      BY <1>1, <1>2, <2>3, ReturnIInv
  <1>4. CASE /\ task[p].attempt < Attempts /\ addressList' = addressList
             /\ task' = [task EXCEPT ![p] = NextAttempt(@)]
    BY <1>1, <1>2, <1>4, RetryIInv
  <1> QED
    BY <1>3, <1>4 DEF ConnectionFails, Cancelled

\* Others add what is absent and remove what is present.
LEMMA OutsiderIInv == ASSUME IInv, NEW key \in Key, OutsiderChanges(key) PROVE IInv'
  <1>1. TypeOK /\ MutexHeld /\ NeverRefused /\ Tracked /\ Once
    BY DEF IInv
  <1>2. Evolves
    <2>1. entries \in [Key -> Opt(Nat)] /\ nextId \in Nat
      BY <1>1 DEF TypeOK
    <2> QED
      BY <2>1 DEF OutsiderChanges, Execute, Evolves, Opt
  <1>3. Watch(None, None, entries') /\ UNCHANGED <<addressList, task, faults>>
    BY DEF OutsiderChanges
  <1>4. Tracked'
    BY <1>1, <1>2, <1>3, Watching DEF Tracked
  <1>5. Once'
    BY <1>1, <1>3, CountingOthers DEF Once
  <1>6. TypeOK'
    BY <1>1, <1>2, <1>3, WatchType DEF TypeOK, Evolves
  <1> QED
    BY <1>1, <1>3, <1>4, <1>5, <1>6 DEF IInv, MutexHeld, NeverRefused

LEMMA NextIInv == IInv /\ [Next]_vars => IInv'
  <1> SUFFICES ASSUME IInv, [Next]_vars PROVE IInv'
    OBVIOUS
  <1>1. CASE UNCHANGED vars
    BY <1>1 DEF vars, IInv, TypeOK, MutexHeld, NeverRefused, Tracked, Tracks, Once, Counted, Goal
  <1>2. CASE \E p \in Proc : Step(p)
    BY <1>2, LockIInv, FindIInv, ChangeIInv, RefuseIInv DEF Step
  <1>3. CASE \E p \in Proc : Denied(p) \/ ConnectionFails(p) \/ Cancelled(p)
    BY <1>3, DeniedIInv, FaultIInv
  <1>4. CASE \E p \in Proc, op \in {"add", "remove"}, key \in Key, c \in Client :
                Invoke(p, op, key, c)
    BY <1>4, InvokeIInv
  <1>5. CASE \E key \in Key : OutsiderChanges(key)
    BY <1>5, OutsiderIInv
  <1> QED
    BY <1>1, <1>2, <1>3, <1>4, <1>5 DEF Next

LEMMA AlwaysIInv == Spec => []IInv
  BY InitIInv, NextIInv, PTL DEF Spec

\* The variables of a caller and of the router stay typed.
THEOREM ListsTyped == Spec => []TypeOK
  BY AlwaysIInv, PTL DEF IInv

\* An operation that reports success was in effect at some moment between its
\* call and its return, for every number of callers, clients and faults.
THEOREM OkIsDone == Spec => []OkMeansDone
  <1>1. IInv => OkMeansDone
    BY DEF IInv, Tracked, Tracks, OkMeansDone
  <1> QED
    BY AlwaysIInv, <1>1, PTL

\* No repetition or race makes an operation fail with what the router says of
\* work that has been done already, while other errors are reported.
THEOREM Idempotent == Spec => []NeverRefused
  BY AlwaysIInv, PTL DEF IInv

\* A client's mutex is held exactly by the call that is past Lock.
THEOREM MutexCorrect == Spec => []MutexHeld
  BY AlwaysIInv, PTL DEF IInv

-----------------------------------------------------------------------------
(***************************************************************************)
(* The refinement: an executed command is Perform, whether its reply       *)
(* arrives or not, and by Once there is no second one unless the first was *)
(* undone by another client; a return is Return, which for a success needs *)
(* what Tracked says.                                                      *)
(***************************************************************************)
\* The two modules mean the same by the goal of an operation.
LEMMA SameGoal ==
    ASSUME TypeOK, NEW p \in Proc
    PROVE  A!Goal(ops[p], members) = Goal(task[p], entries)
  <1>1. task[p].key \in Key /\ ops[p].op = task[p].op /\ ops[p].key = task[p].key
    BY DEF TypeOK, Task, ops
  <1> QED
    BY <1>1 DEF A!Goal, Goal, members

LEMMA InitRefines == Init => A!Init
  <1> SUFFICES ASSUME Init PROVE A!Init
    OBVIOUS
  <1>1. IInv
    BY InitIInv
  <1>2. members \in SUBSET Key
    BY DEF members
  <1>3. \A p \in Proc : ops[p] \in A!Op /\ ops[p].result = "error"
    <2> SUFFICES ASSUME NEW p \in Proc PROVE ops[p] \in A!Op /\ ops[p].result = "error"
      OBVIOUS
    <2>1. task[p].pc = "idle" /\ task[p].result = "none"
      BY DEF Init
    <2>2. task[p].op \in {"add", "remove"} /\ task[p].key \in Key /\ task[p].client \in Client
      BY <1>1 DEF IInv, TypeOK, Task
    <2> QED
      BY <2>1, <2>2 DEF ops, Outcome, A!Op
  <1>4. ops \in [Proc -> {o \in A!Op : o.result = "error"}]
    BY <1>3 DEF ops
  <1>5. \A p \in Proc : A!Goal(ops[p], members) = Goal(task[p], entries)
    BY <1>1, SameGoal DEF IInv
  <1>6. seen = [p \in Proc |-> A!Goal(ops[p], members)]
    BY <1>5 DEF Init
  <1> QED
    BY <1>2, <1>4, <1>6 DEF A!Init

\* What the abstract state holds of a call.
LEMMA OpsType ==
    ASSUME TypeOK, NEW p \in Proc
    PROVE  /\ ops[p].op = task[p].op /\ ops[p].key = task[p].key
           /\ ops[p].client = task[p].client /\ ops[p].result = Outcome(p)
           /\ task[p].key \in Key /\ task[p].client \in Client
  BY DEF TypeOK, Task, ops

\* A call that did not step, and was not undone, looks the same.
LEMMA OpsSame ==
    ASSUME NEW q \in Proc, task'[q] = task[q], effects'[q] = effects[q]
    PROVE  ops'[q] = ops[q]
  BY DEF ops, Outcome

\* The goals of the operations, as both modules see them after a change.
LEMMA SameGoalAfter ==
    ASSUME TypeOK, NEW q \in Proc
    PROVE  A!Goal(ops[q], members') = Goal(task[q], entries')
  <1>1. task[q].key \in Key /\ ops[q].op = task[q].op /\ ops[q].key = task[q].key
    BY OpsType
  <1> QED
    BY <1>1 DEF A!Goal, Goal, members

LEMMA WatchRefines ==
    ASSUME TypeOK, NEW p, NEW c, Watch(p, c, entries')
    PROVE  A!Watch(members')
  <1>1. \A q \in Proc : A!Goal(ops[q], members') = Goal(task[q], entries')
    BY SameGoalAfter
  <1> QED
    BY <1>1 DEF Watch, A!Watch

\* What has been undone by another client is to be performed again.
LEMMA DisturbedRefines ==
    ASSUME TypeOK, Once, NEW p, NEW c, Watch(p, c, entries'),
           NEW q \in Proc, q # p, task'[q] = task[q]
    PROVE  ops'[q] = A!Disturbed(ops[q], c, members')
  <1>1. /\ effects'[q] = IF task[q].client # c /\ ~Goal(task[q], entries') THEN 0
                         ELSE effects[q]
        /\ effects[q] \in {0, 1}
    BY DEF Watch, Once, Counted
  <1>2. A!Goal(ops[q], members') = Goal(task[q], entries') /\ ops[q].client = task[q].client
    BY SameGoalAfter, OpsType
  <1>3. /\ ops[q] = [op |-> task[q].op, key |-> task[q].key, client |-> task[q].client,
                     result |-> Outcome(q)]
        /\ ops'[q] = [op |-> task[q].op, key |-> task[q].key, client |-> task[q].client,
                      result |-> Outcome(q)']
    BY DEF ops
  <1>4. CASE task[q].pc = "idle" \/ effects[q] = 0
    <2>1. ops'[q] = ops[q]
      BY <1>1, <1>3, <1>4 DEF Outcome
    <2>2. ops[q].result # "done"
      BY <1>3, <1>4 DEF Outcome
    <2> QED
      BY <2>1, <2>2 DEF A!Disturbed
  <1>5. CASE task[q].pc # "idle" /\ effects[q] = 1
    <2>1. ops[q].result = "done"
      BY <1>3, <1>5 DEF Outcome
    <2>2. CASE task[q].client # c /\ ~Goal(task[q], entries')
      <3>1. Outcome(q)' = "pending"
        BY <1>1, <1>5, <2>2 DEF Outcome
      <3>2. A!Disturbed(ops[q], c, members') = [ops[q] EXCEPT !.result = "pending"]
        BY <1>2, <2>1, <2>2 DEF A!Disturbed
      <3> QED
        BY <1>3, <3>1, <3>2
    <2>3. CASE ~(task[q].client # c /\ ~Goal(task[q], entries'))
      <3>1. ops'[q] = ops[q]
        BY <1>1, <1>3, <1>5, <2>3 DEF Outcome
      <3>2. A!Disturbed(ops[q], c, members') = ops[q]
        BY <1>2, <2>3 DEF A!Disturbed
      <3> QED
        BY <3>1, <3>2
    <2> QED
      BY <2>2, <2>3
  <1> QED
    BY <1>1, <1>4, <1>5

\* Every step of a call is a Perform, a Return or invisible.
LEMMA CallRefines ==
    ASSUME IInv, IInv', NEW p \in Proc, task[p].pc # "idle", Effected(p),
           task'[p].op = task[p].op, task'[p].key = task[p].key,
           task'[p].client = task[p].client,
           \A q \in Proc \ {p} : task'[q] = task[q]
    PROVE  A!Next \/ UNCHANGED A!vars
  <1> DEFINE result == Outcome(p)'
  <1>1. /\ TypeOK /\ Tracked /\ Once /\ Tracks(p)' /\ Counted(p) /\ Counted(p)'
        /\ task[p].key \in Key
    BY DEF IInv, Tracked, Once, TypeOK, Task
  <1>2. /\ ops[p] = [op |-> task[p].op, key |-> task[p].key, client |-> task[p].client,
                     result |-> Outcome(p)]
        /\ ops'[p] = [op |-> task[p].op, key |-> task[p].key, client |-> task[p].client,
                      result |-> result]
    BY DEF ops
  <1>3. ops'[p] = [ops[p] EXCEPT !.result = result]
    <2> HIDE DEF result
    <2> QED
      BY <1>2
  <1>4. ops = [q \in Proc |-> ops[q]] /\ ops' = [q \in Proc |-> ops'[q]]
    BY DEF ops
  <1>5. result = "ok" => seen'[p]
    BY <1>1 DEF Outcome, Tracks
  <1>6. CASE UNCHANGED lists
    <2>1. /\ members' = members /\ seen' = seen
          /\ \A q \in Proc \ {p} : ops'[q] = ops[q]
      BY <1>6, OpsSame DEF members, lists
    <2>2. CASE task'[p].pc # "idle"
      <3>1. result = Outcome(p)
        BY <1>6, <2>2 DEF Outcome, lists
      <3>2. ops' = ops
        BY <1>2, <1>4, <2>1, <3>1
      <3> QED
        BY <2>1, <3>2 DEF A!vars
    <2>3. CASE task'[p].pc = "idle"
      <3>1. result \in {"ok", "error"} /\ ops[p].result \in {"pending", "done"}
        BY <1>1, <1>2, <2>3 DEF Outcome, Counted
      <3> HIDE DEF result
      <3>2. ops' = [ops EXCEPT ![p] = [ops[p] EXCEPT !.result = result]]
        BY <1>3, <1>4, <2>1
      <3>3. A!Return(p, result)
        BY <1>5, <2>1, <3>1, <3>2 DEF A!Return
      <3> QED
        BY <3>1, <3>3 DEF A!Next
    <2> QED
      BY <2>2, <2>3
  <1>7. CASE Executes(p)
    <2>0. Execute(Executed(task[p])) /\ Watch(p, task[p].client, entries')
      BY <1>7 DEF Executes
    <2>1. /\ ~Goal(task[p], entries)
          /\ \/ /\ task[p].pc = "add"
                /\ entries' = [entries EXCEPT ![task[p].key] = nextId]
             \/ /\ task[p].pc = "remove"
                /\ entries' = [entries EXCEPT ![task[p].key] = None]
      BY <1>1, <2>0, Effect
    <2>2. /\ task[p].pc = "add" => task[p].op = "add"
          /\ task[p].pc = "remove" => task[p].op = "remove"
          /\ entries \in [Key -> Opt(Nat)] /\ nextId \in Nat
      BY <1>1 DEF Tracked, Tracks, TypeOK
    <2>3. /\ ops[p].op = task[p].op /\ ops[p].key = task[p].key
          /\ ops[p].client = task[p].client
      BY <1>1, OpsType
    <2>4. members' = IF ops[p].op = "add" THEN members \cup {ops[p].key}
                     ELSE members \ {ops[p].key}
      BY <1>1, <2>1, <2>2, <2>3 DEF members
    <2>5. effects[p] = 0 /\ effects'[p] = 1
      BY <1>1, <2>0, <2>1 DEF Counted, Watch
    <2>6. ops[p].result = "pending" /\ result \in {"done", "ok", "error"}
      BY <1>2, <2>5 DEF Outcome
    <2>7. A!Watch(members')
      BY <1>1, <2>0, WatchRefines
    <2>8. \A q \in Proc \ {p} : ops'[q] = A!Disturbed(ops[q], ops[p].client, members')
      BY <1>1, <2>0, <2>3, DisturbedRefines
    <2> HIDE DEF result
    <2>9. ops' = [q \in Proc |-> IF q = p THEN [ops[q] EXCEPT !.result = result]
                                 ELSE A!Disturbed(ops[q], ops[p].client, members')]
      BY <1>3, <1>4, <2>8
    <2>10. A!Perform(p, result)
      BY <2>4, <2>6, <2>7, <2>9 DEF A!Perform
    <2> QED
      BY <2>6, <2>10 DEF A!Next
  <1> QED
    BY <1>6, <1>7 DEF Effected

\* What a step of a call leaves alone.
LEMMA CallFrame ==
    ASSUME IInv, NEW p \in Proc,
           Step(p) \/ Denied(p) \/ ConnectionFails(p) \/ Cancelled(p)
    PROVE  /\ task[p].pc # "idle" /\ Effected(p)
           /\ task'[p].op = task[p].op /\ task'[p].key = task[p].key
           /\ task'[p].client = task[p].client
           /\ \A q \in Proc \ {p} : task'[q] = task[q]
  <1>1. task \in [Proc -> Task] /\ task[p] \in Task
    BY DEF IInv, TypeOK
  <1>2. task[p].pc # "idle" /\ Effected(p)
    BY DEF Step, Lock, Find, Change, Refuse, Refused, Denied, ConnectionFails, Cancelled,
           Effected
  <1>3. ASSUME NEW k, task' = [task EXCEPT ![p] = k],
               k.op = task[p].op, k.key = task[p].key, k.client = task[p].client
        PROVE  /\ task'[p].op = task[p].op /\ task'[p].key = task[p].key
               /\ task'[p].client = task[p].client
               /\ \A q \in Proc \ {p} : task'[q] = task[q]
    BY <1>1, <1>3
  <1>4. ASSUME NEW pc, NEW id, NEW a
        PROVE  /\ At(task[p], pc, id, a).op = task[p].op
               /\ At(task[p], pc, id, a).key = task[p].key
               /\ At(task[p], pc, id, a).client = task[p].client
    BY <1>1 DEF At, Task
  <1>5. ASSUME NEW result
        PROVE  LET e == [At(task[p], "idle", None, 0) EXCEPT !.result = result]
               IN  e.op = task[p].op /\ e.key = task[p].key /\ e.client = task[p].client
    BY <1>1 DEF At, Task
  <1>6. /\ NextAttempt(task[p]).op = task[p].op /\ NextAttempt(task[p]).key = task[p].key
        /\ NextAttempt(task[p]).client = task[p].client
    BY <1>1 DEF NextAttempt, Task
  <1>7. \/ \E pc, id, a : task' = [task EXCEPT ![p] = At(task[p], pc, id, a)]
        \/ \E result :
              task' = [task EXCEPT ![p] = [At(task[p], "idle", None, 0) EXCEPT !.result = result]]
        \/ task' = [task EXCEPT ![p] = NextAttempt(task[p])]
    BY <1>1 DEF Step, Lock, Find, Change, Refuse, Denied, ConnectionFails, Cancelled, Finish,
                Proceed
  <1>8. CASE \E pc, id, a : task' = [task EXCEPT ![p] = At(task[p], pc, id, a)]
    <2>1. PICK pc, id, a : task' = [task EXCEPT ![p] = At(task[p], pc, id, a)]
      BY <1>8
    <2> DEFINE k == At(task[p], pc, id, a)
    <2>2. /\ task' = [task EXCEPT ![p] = k] /\ k.op = task[p].op /\ k.key = task[p].key
          /\ k.client = task[p].client
      BY <1>4, <2>1
    <2> HIDE DEF k
    <2> QED
      BY <1>2, <1>3, <2>2
  <1>9. CASE \E result :
               task' = [task EXCEPT ![p] = [At(task[p], "idle", None, 0) EXCEPT !.result = result]]
    <2>1. PICK result :
            task' = [task EXCEPT ![p] = [At(task[p], "idle", None, 0) EXCEPT !.result = result]]
      BY <1>9
    <2> DEFINE k == [At(task[p], "idle", None, 0) EXCEPT !.result = result]
    <2>2. /\ task' = [task EXCEPT ![p] = k] /\ k.op = task[p].op /\ k.key = task[p].key
          /\ k.client = task[p].client
      BY <1>5, <2>1
    <2> HIDE DEF k
    <2> QED
      BY <1>2, <1>3, <2>2
  <1>10. CASE task' = [task EXCEPT ![p] = NextAttempt(task[p])]
    BY <1>2, <1>3, <1>6, <1>10
  <1> QED
    BY <1>7, <1>8, <1>9, <1>10

LEMMA InvokeRefines ==
    ASSUME IInv, NEW p \in Proc, NEW op \in {"add", "remove"}, NEW key \in Key,
           NEW c \in Client, Invoke(p, op, key, c)
    PROVE  A!Next
  <1> DEFINE o == [op |-> op, key |-> key, client |-> c, result |-> "pending"]
             k == [pc |-> "lock", op |-> op, key |-> key, client |-> c, id |-> None,
                   attempt |-> 0, result |-> "none"]
  <1>1. o \in A!Op /\ o.result = "pending"
    BY DEF A!Op
  <1>2. task \in [Proc -> Task] /\ effects \in [Proc -> Nat] /\ task[p].pc = "idle"
    BY DEF IInv, TypeOK, Invoke
  <1>3. /\ task' = [task EXCEPT ![p] = k] /\ seen' = [seen EXCEPT ![p] = Goal(k, entries)]
        /\ effects' = [effects EXCEPT ![p] = 0]
    BY DEF Invoke
  <1>4. k.op = op /\ k.key = key /\ k.client = c /\ k.pc = "lock"
    OBVIOUS
  <1> HIDE DEF k
  <1>5. /\ task'[p] = k /\ effects'[p] = 0
        /\ \A q \in Proc \ {p} : task'[q] = task[q] /\ effects'[q] = effects[q]
    BY <1>2, <1>3
  <1>6. ops' = [ops EXCEPT ![p] = o]
    <2>1. ops = [q \in Proc |-> ops[q]] /\ ops' = [q \in Proc |-> ops'[q]]
      BY DEF ops
    <2>2. \A q \in Proc \ {p} : ops'[q] = ops[q]
      BY <1>5, OpsSame
    <2>3. Outcome(p)' = "pending"
      BY <1>4, <1>5 DEF Outcome
    <2>4. ops'[p] = o
      BY <1>4, <1>5, <2>3 DEF ops
    <2> HIDE DEF o
    <2> QED
      BY <2>1, <2>2, <2>4
  <1>7. members' = members
    BY DEF Invoke, members
  <1>8. ops[p].result \notin {"pending", "done"}
    BY <1>2 DEF ops, Outcome
  <1>9. A!Goal(o, members) = Goal(k, entries)
    BY <1>4 DEF A!Goal, Goal, members
  <1>10. A!Invoke(p, o)
    <2> HIDE DEF o
    <2> QED
      BY <1>1, <1>3, <1>6, <1>7, <1>8, <1>9 DEF A!Invoke
  <1> QED
    BY <1>1, <1>10 DEF A!Next

LEMMA OutsiderRefines ==
    ASSUME IInv, NEW key \in Key, OutsiderChanges(key)
    PROVE  A!Next
  <1>1. TypeOK /\ Once /\ entries \in [Key -> Opt(Nat)] /\ nextId \in Nat
    BY DEF IInv, TypeOK
  <1>2. /\ entries' = [entries EXCEPT ![key] = IF @ = None THEN nextId ELSE None]
        /\ Watch(None, None, entries') /\ task' = task /\ Outsider
    BY DEF OutsiderChanges, Execute
  <1>3. members' = IF key \in members THEN members \ {key} ELSE members \cup {key}
    BY <1>1, <1>2 DEF members
  <1>4. \A q \in Proc : ops'[q] = A!Disturbed(ops[q], None, members')
    BY <1>1, <1>2, DisturbedRefines
  <1>5. ops' = [q \in Proc |-> ops'[q]]
    BY DEF ops
  <1>6. A!Watch(members')
    BY <1>1, <1>2, WatchRefines
  <1>7. A!Change(key)
    BY <1>2, <1>3, <1>4, <1>5, <1>6 DEF A!Change
  <1> QED
    BY <1>7 DEF A!Next

LEMMA NextRefines == IInv /\ IInv' /\ [Next]_vars => [A!Next]_(A!vars)
  <1> SUFFICES ASSUME IInv, IInv', [Next]_vars PROVE A!Next \/ UNCHANGED A!vars
    OBVIOUS
  <1>1. CASE UNCHANGED vars
    BY <1>1 DEF vars, A!vars, members, ops, Outcome
  <1>2. CASE \E p \in Proc : Step(p) \/ Denied(p) \/ ConnectionFails(p) \/ Cancelled(p)
    BY <1>2, CallFrame, CallRefines
  <1>3. CASE \E p \in Proc, op \in {"add", "remove"}, key \in Key, c \in Client :
                Invoke(p, op, key, c)
    BY <1>3, InvokeRefines
  <1>4. CASE \E key \in Key : OutsiderChanges(key)
    BY <1>4, OutsiderRefines
  <1> QED
    BY <1>1, <1>2, <1>3, <1>4 DEF Next

\* The operations, each several commands that may be lost or repeated, over
\* several clients and beside people who change the lists, implement operations
\* on a set that take effect at most once, unless another client undoes them.
THEOREM Refinement == Spec => ImplementsAddressSet
  <1>1. Spec => A!Init
    BY InitRefines DEF Spec
  <1>2. Spec => [][A!Next]_(A!vars)
    BY AlwaysIInv, NextRefines, PTL DEF Spec
  <1> QED
    BY <1>1, <1>2, PTL DEF ImplementsAddressSet, A!Spec
=============================================================================
