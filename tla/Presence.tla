------------------------------ MODULE Presence ------------------------------
(***************************************************************************)
(* The vocabulary shared by the aggregator, which produces observations,   *)
(* and the device service, which persists them.                            *)
(***************************************************************************)
EXTENDS Integers

CONSTANT None    \* a NULL column, a nil pointer, a blank string, an absent row

Opt(S) == S \cup {None}

Status == {"ONLINE", "IDLE_RECENT", "OFFLINE", "UNKNOWN"}

(***************************************************************************)
(* What one Aggregate call says of one MAC, reduced to what persisting it  *)
(* depends on: its status, the age of its LastSeenAt (None when no source  *)
(* gave a time), whether it carries an IP, whether any of the other fields *)
(* counted as a historical trace is set, and whether DHCP gave a host      *)
(* name.  ONLINE always comes with a time and a trace; OFFLINE and UNKNOWN *)
(* are never observed (both are proved of module Aggregator).              *)
(***************************************************************************)
Observation ==
    {o \in [status : {"ONLINE", "IDLE_RECENT"}, age : Opt(Nat),
            ip : BOOLEAN, trace : BOOLEAN, host : BOOLEAN] :
        o.status = "ONLINE" => o.age # None /\ o.trace}
=============================================================================
