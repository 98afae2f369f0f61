---------------------------- MODULE AddressList ----------------------------
(***************************************************************************)
(* AddAddressToList and RemoveAddressFromList (routeros/addresslist.go),   *)
(* each a look-up followed by a change, run by several callers over        *)
(* Client.Run, which sends a command again when the connection fails.  A   *)
(* command whose reply is lost may have been executed, so a change can     *)
(* reach the router more than once.  A client serialises these operations  *)
(* with a mutex, but calls made under different router settings use        *)
(* different clients, and people change the lists on the router directly.  *)
(***************************************************************************)
EXTENDS Naturals

CONSTANTS
    None,
    Proc,       \* callers
    Key,        \* pairs of a list and an address
    Client,     \* router clients, one for each configuration in use
    Outsider,   \* whether the lists are also changed from outside
    Attempts,   \* maxAttempts of Client.Run
    MaxId,      \* bound: no add is started once so many entries were created
    MaxFaults   \* bound: lost commands and replies, cancelled contexts, denials

ASSUME AddressListAssumption ==
    /\ None \notin Nat /\ None \notin Proc /\ None \notin Client
    /\ Client # {}
    /\ Outsider \in BOOLEAN
    /\ Attempts \in Nat \ {0} /\ MaxId \in Nat /\ MaxFaults \in Nat

VARIABLES
    entries,    \* the .id of the entry of each key on the router, or None
    nextId,     \* the next .id the router gives out
    addressList,\* the holder of each client's mutex
    task,       \* each caller's operation
    seen,       \* history: the operation's goal has held since its call
    effects,    \* history: how often the operation has changed the lists since its
                \* call, or since somebody with another client undid it
    faults

lists == <<entries, nextId, seen, effects>>
vars == <<entries, nextId, addressList, task, seen, effects, faults>>

Opt(S) == S \cup {None}
\* What an error says: a refusal of the router, or why Run gave up.
Repeated == {"already have", "no such item"}
Error == Repeated \cup {"not enough permissions", "unreachable", "cancelled"}
Task == [pc : {"idle", "lock", "find", "add", "remove"}, op : {"add", "remove"}, key : Key,
         client : Client, id : Opt(Nat), attempt : 0..Attempts,
         result : {"none", "ok"} \cup Error]

Goal(k, e) == IF k.op = "add" THEN e[k.key] # None ELSE e[k.key] = None
\* Caller p, over client c, has changed the lists to e.
Watch(p, c, e) ==
    /\ seen' = [q \in Proc |-> seen[q] \/ Goal(task[q], e)]
    /\ effects' = [q \in Proc |-> IF q = p THEN effects[q] + 1
                                 ELSE IF task[q].client # c /\ ~Goal(task[q], e) THEN 0
                                 ELSE effects[q]]

Fault ==
    /\ faults < MaxFaults
    /\ faults' = faults + 1

-----------------------------------------------------------------------------
\* Mutant: the address is not compared.
findAddressIDs_AnyAddress(key) ==
    IF \E k \in Key : entries[k] # None
    THEN entries[CHOOSE k \in Key : entries[k] # None] ELSE None

\* The router refuses a second entry for a key, so at most one is found.
findAddressIDs(key) == entries[key]

\* The router's tables after it executed the caller's command.  Adding an
\* existing key and removing a vanished .id are refused.
Executed(k) ==
    IF k.pc = "add" /\ entries[k.key] = None THEN [entries EXCEPT ![k.key] = nextId]
    ELSE IF k.pc = "remove" /\ entries[k.key] = k.id THEN [entries EXCEPT ![k.key] = None]
    ELSE entries

\* The router's words for it ("failure: already have such entry").
Refused(k) ==
    IF k.pc = "add" /\ entries[k.key] # None THEN {"already have"}
    ELSE IF k.pc = "remove" /\ entries[k.key] # k.id THEN {"no such item"}
    ELSE {}

\* Mutant: RouterOS says "already have", not this.
isAlreadyExistsError_Exists(text) == text = "already exists"

\* Both look for phrases in the text of the error, whatever its cause.
isAlreadyExistsError(text) == text \in {"already have", "already exists"}
isNotFoundError(text) == text \in {"no such item", "not found", "invalid internal item"}

\* The result of an operation whose command ends with an error.
Reported(k, text) ==
    IF \/ k.pc = "add" /\ isAlreadyExistsError(text)
       \/ k.pc = "remove" /\ isNotFoundError(text)
    THEN "ok" ELSE text

Execute(e) ==
    /\ e # entries
    /\ entries' = e
    /\ nextId' = IF \E k \in Key : e[k] = nextId THEN nextId + 1 ELSE nextId

Executes(p) == Execute(Executed(task[p])) /\ Watch(p, task[p].client, entries')

\* Mutant: the mutex is not released on an error path.
Unlocks_OnSuccess(result) == result = "ok"

\* The deferred Unlock.
Unlocks(result) == TRUE

\* The loop of Run: the same command again.
NextAttempt(k) == [k EXCEPT !.attempt = @ + 1]

At(k, pc, id, attempt) == [k EXCEPT !.pc = pc, !.id = id, !.attempt = attempt]

Finish(p, result) ==
    /\ task' = [task EXCEPT ![p] = [At(@, "idle", None, 0) EXCEPT !.result = result]]
    /\ addressList' = IF Unlocks(result) THEN [addressList EXCEPT ![task[p].client] = None]
                      ELSE addressList

\* Go on with the next command, counting its attempts from one.
Proceed(p, pc, id) ==
    /\ task' = [task EXCEPT ![p] = At(@, pc, id, 1)]
    /\ UNCHANGED addressList

-----------------------------------------------------------------------------
Init ==
    /\ entries \in {[k \in Key |-> IF k \in S THEN 0 ELSE None] : S \in SUBSET Key}
    /\ nextId = 1
    /\ addressList = [c \in Client |-> None]
    /\ \E op \in {"add", "remove"}, key \in Key, c \in Client :
          task = [p \in Proc |-> [pc |-> "idle", op |-> op, key |-> key, client |-> c,
                                  id |-> None, attempt |-> 0, result |-> "none"]]
    /\ seen = [p \in Proc |-> Goal(task[p], entries)]
    /\ effects = [p \in Proc |-> 0]
    /\ faults = 0

\* The client is the one of the configuration in force at the call.
Invoke(p, op, key, c) ==
    /\ task[p].pc = "idle"
    /\ op = "add" => nextId <= MaxId
    /\ LET k == [pc |-> "lock", op |-> op, key |-> key, client |-> c, id |-> None,
                 attempt |-> 0, result |-> "none"]
       IN  /\ task' = [task EXCEPT ![p] = k]
           /\ seen' = [seen EXCEPT ![p] = Goal(k, entries)]
    /\ effects' = [effects EXCEPT ![p] = 0]
    /\ UNCHANGED <<entries, nextId, addressList, faults>>

\* Mutant: the mutex is not waited for.
Lock_NoWait(p) ==
    /\ task[p].pc = "lock"
    /\ addressList' = [addressList EXCEPT ![task[p].client] = p]
    /\ task' = [task EXCEPT ![p] = At(@, "find", None, 1)]
    /\ UNCHANGED <<lists, faults>>

Lock(p) ==
    /\ task[p].pc = "lock" /\ addressList[task[p].client] = None
    /\ addressList' = [addressList EXCEPT ![task[p].client] = p]
    /\ task' = [task EXCEPT ![p] = At(@, "find", None, 1)]
    /\ UNCHANGED <<lists, faults>>

\* The print command was answered.
Find(p) ==
    /\ task[p].pc = "find"
    /\ LET k == task[p]  id == findAddressIDs(k.key)
       IN  \/ k.op = "add" /\ id # None /\ Finish(p, "ok")
           \/ k.op = "add" /\ id = None /\ Proceed(p, "add", None)
           \/ k.op = "remove" /\ id = None /\ Finish(p, "ok")
           \/ k.op = "remove" /\ id # None /\ Proceed(p, "remove", id)
    /\ UNCHANGED <<lists, faults>>

\* The add or remove command was executed and answered.
Change(p) ==
    /\ task[p].pc \in {"add", "remove"} /\ Refused(task[p]) = {}
    /\ Executes(p)
    /\ Finish(p, "ok")
    /\ UNCHANGED faults

\* It was refused, for what has been done already ...
Refuse(p) ==
    /\ \E text \in Refused(task[p]) : Finish(p, Reported(task[p], text))
    /\ UNCHANGED <<lists, faults>>

\* ... or because the account may not do it (any more).
Denied(p) ==
    /\ task[p].pc \in {"find", "add", "remove"} /\ Fault
    /\ Finish(p, Reported(task[p], "not enough permissions"))
    /\ UNCHANGED lists

\* The connection fails before or after the command was executed; Run sends
\* the command again over a new connection, up to its last attempt.
ConnectionFails(p) ==
    /\ task[p].pc \in {"find", "add", "remove"}
    /\ Fault
    /\ UNCHANGED lists \/ Executes(p)
    /\ IF task[p].attempt < Attempts
       THEN task' = [task EXCEPT ![p] = NextAttempt(@)] /\ UNCHANGED addressList
       ELSE Finish(p, Reported(task[p], "unreachable"))

\* The caller's context ends, again before or after the execution.
Cancelled(p) ==
    /\ task[p].pc \in {"find", "add", "remove"}
    /\ Fault
    /\ UNCHANGED lists \/ Executes(p)
    /\ Finish(p, Reported(task[p], "cancelled"))

\* Someone else adds or removes an entry on the router.
OutsiderChanges(key) ==
    /\ Outsider /\ nextId <= MaxId
    /\ Execute([entries EXCEPT ![key] = IF @ = None THEN nextId ELSE None])
    /\ Watch(None, None, entries')
    /\ UNCHANGED <<addressList, task, faults>>

Step(p) == Lock(p) \/ Find(p) \/ Change(p) \/ Refuse(p)

Next ==
    \/ \E p \in Proc : Step(p) \/ Denied(p) \/ ConnectionFails(p) \/ Cancelled(p)
    \/ \E p \in Proc, op \in {"add", "remove"}, key \in Key, c \in Client : Invoke(p, op, key, c)
    \/ \E key \in Key : OutsiderChanges(key)

Spec == Init /\ [][Next]_vars

(***************************************************************************)
(* A command is answered or fails, and Go's mutex does not starve a        *)
(* waiter.                                                                 *)
(***************************************************************************)
Fairness == \A p \in Proc : WF_vars(Step(p)) /\ SF_vars(Lock(p))
FairSpec == Spec /\ Fairness

-----------------------------------------------------------------------------
TypeOK ==
    /\ entries \in [Key -> Opt(Nat)]
    /\ nextId \in Nat
    /\ addressList \in [Client -> Opt(Proc)]
    /\ task \in [Proc -> Task]
    /\ seen \in [Proc -> BOOLEAN] /\ effects \in [Proc -> Nat]
    /\ faults \in Nat

\* An operation that returned nil took effect: its entry was present (add) or
\* absent (remove) at some moment between call and return, whatever was lost,
\* repeated, or changed by others meanwhile (addresslist.go 12-89).
OkMeansDone ==
    \A p \in Proc : task[p].pc = "idle" /\ task[p].result = "ok" => seen[p]

\* The operations are idempotent as their comments say (addresslist.go 11,
\* 55): no repetition, lost reply or concurrent change makes one fail with
\* what the router says of work that has been done already.  What each command
\* looks for in the text of an error (errors.go 122-138) must fit what its
\* own repetition gets to hear; a denial is reported.
NeverRefused == \A p \in Proc : task[p].result \notin Repeated

\* The mutex of a client is held exactly by the caller that is between its
\* look-up and its return (addresslist.go 22, 66).
MutexHeld ==
    \A p \in Proc, c \in Client :
        addressList[c] = p <=> task[p].client = c /\ task[p].pc \in {"find", "add", "remove"}

\* Every call returns, on the error paths too: nobody is left waiting for a
\* mutex that is never released.
CallsReturn == \A p \in Proc : task[p].pc # "idle" ~> task[p].pc = "idle"

(***************************************************************************)
(* The operations implement atomic operations on a set.                    *)
(***************************************************************************)
members == {k \in Key : entries[k] # None}
Outcome(p) ==
    IF task[p].pc = "idle" THEN (IF task[p].result = "ok" THEN "ok" ELSE "error")
    ELSE IF effects[p] = 0 THEN "pending" ELSE IF effects[p] = 1 THEN "done" ELSE "repeated"
ops == [p \in Proc |-> [op |-> task[p].op, key |-> task[p].key, client |-> task[p].client,
                        result |-> Outcome(p)]]
A == INSTANCE AddressSet WITH members <- members, ops <- ops, seen <- seen

\* Callers see an atomic set (AddressSet): an operation is several commands, and
\* a command may reach the router more than once, but it changes no entry but
\* its own, and takes effect once unless somebody with another client undoes it
\* before it has returned.
ImplementsAddressSet == A!Spec
=============================================================================
