----------------------------- MODULE AddressSet -----------------------------
(***************************************************************************)
(* What the address-list operations promise: a set of (list, address)      *)
(* pairs with an atomic add and an atomic remove.  An operation changes    *)
(* the set at most once between its call and its return.  Only when a      *)
(* caller with another client, or somebody else, undoes it before it has   *)
(* returned may it take effect again, as it cannot tell that from a        *)
(* command that was lost.  An operation that reports success really held   *)
(* at some moment; one that reports an error may or may not have happened. *)
(***************************************************************************)
CONSTANTS
    None,
    Proc,       \* callers
    Key,        \* pairs of a list and an address
    Client,     \* a caller's client: operations of one client exclude each other
    Outsider    \* whether others may change the set too

VARIABLES
    members,    \* the pairs in the set
    ops,        \* the current or last operation of each caller
    seen        \* whether that operation's goal has held since its call

vars == <<members, ops, seen>>

Op == [op : {"add", "remove"}, key : Key, client : Client,
       result : {"pending", "done", "ok", "error"}]

Goal(o, S) == IF o.op = "add" THEN o.key \in S ELSE o.key \notin S

\* An operation after the set has become S by way of client c: undone by
\* another client, it is to be performed again.
Disturbed(o, c, S) ==
    IF o.result = "done" /\ o.client # c /\ ~Goal(o, S) THEN [o EXCEPT !.result = "pending"] ELSE o

\* The goals that hold after a step are remembered.
Watch(S) == seen' = [p \in Proc |-> seen[p] \/ Goal(ops[p], S)]

Init ==
    /\ members \in SUBSET Key
    /\ ops \in [Proc -> {o \in Op : o.result = "error"}]
    /\ seen = [p \in Proc |-> Goal(ops[p], members)]

Invoke(p, o) ==
    /\ ops[p].result \notin {"pending", "done"} /\ o.result = "pending"
    /\ ops' = [ops EXCEPT ![p] = o]
    /\ seen' = [seen EXCEPT ![p] = Goal(o, members)]
    /\ UNCHANGED members

\* The operation takes effect, and may return at the same time.
Perform(p, result) ==
    /\ ops[p].result = "pending"
    /\ members' = IF ops[p].op = "add" THEN members \cup {ops[p].key}
                  ELSE members \ {ops[p].key}
    /\ Watch(members')
    /\ ops' = [q \in Proc |-> IF q = p THEN [ops[q] EXCEPT !.result = result]
                              ELSE Disturbed(ops[q], ops[p].client, members')]

\* The operation returns; success needs its goal to have held.
Return(p, result) ==
    /\ ops[p].result \in {"pending", "done"}
    /\ result = "ok" => seen[p]
    /\ ops' = [ops EXCEPT ![p].result = result]
    /\ UNCHANGED <<members, seen>>

Change(k) ==
    /\ Outsider
    /\ members' = IF k \in members THEN members \ {k} ELSE members \cup {k}
    /\ Watch(members')
    /\ ops' = [q \in Proc |-> Disturbed(ops[q], None, members')]

Next ==
    \/ \E p \in Proc, o \in Op : Invoke(p, o)
    \/ \E p \in Proc, result \in {"done", "ok", "error"} : Perform(p, result)
    \/ \E p \in Proc, result \in {"ok", "error"} : Return(p, result)
    \/ \E k \in Key : Change(k)

Spec == Init /\ [][Next]_vars
=============================================================================
