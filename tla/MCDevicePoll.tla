---------------------------- MODULE MCDevicePoll ----------------------------
(***************************************************************************)
(* Values of DevicePoll's constants for TLC.                               *)
(***************************************************************************)
EXTENDS DevicePoll

\* Online right now, with an address and a host name.
OnlineNow == [status |-> "ONLINE", age |-> 0, ip |-> TRUE, trace |-> TRUE, host |-> TRUE]
\* Online by ARP, but an idle Wi-Fi row dates the last activity back.
OnlineOld == [status |-> "ONLINE", age |-> 1, ip |-> FALSE, trace |-> TRUE, host |-> FALSE]
\* A bound but stale DHCP lease.
IdleOld == [status |-> "IDLE_RECENT", age |-> 1, ip |-> TRUE, trace |-> TRUE, host |-> FALSE]
\* A row that carries neither a time nor a name: no trace at all.
IdleBlank == [status |-> "IDLE_RECENT", age |-> None, ip |-> FALSE, trace |-> FALSE,
              host |-> FALSE]

SeenAll == {OnlineNow, OnlineOld, IdleOld, IdleBlank}
SeenPair == {OnlineNow, IdleBlank}
=============================================================================
