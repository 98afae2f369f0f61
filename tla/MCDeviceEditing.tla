-------------------------- MODULE MCDeviceEditing --------------------------
(***************************************************************************)
(* Values of DeviceEditing's constants for TLC.                            *)
(***************************************************************************)
EXTENDS DeviceEditing

CONSTANTS n1, n2, wifi

From(page, ops, faults, outside, moves, steps) ==
    [page |-> page, budget |-> [ops |-> ops, faults |-> faults, outside |-> outside,
                                moves |-> moves, steps |-> steps]]

\* One form keeps the old name and sets the icon, one changes the name only.
Forms == {[name |-> n1, type |-> wifi], [name |-> n2, type |-> "unknown"]}

\* Overlapping saves and Undo; one save with faults and somebody else's
\* changes; the drawer closed and reopened, a list switched, a tab opened, the
\* Refresh button used during a save; overlapping updates on the other pages.
Scenarios == {
    From("devices", 2, 0, 0, 0, {}), From("devices", 1, 2, 0, 0, {}), From("devices", 1, 0, 1, 0, {}),
    From("devices", 1, 0, 0, 3, {"close", "open"}), From("devices", 1, 0, 0, 1, {"list"}),
    From("devices", 1, 0, 0, 1, {"tab"}), From("devices", 1, 0, 0, 1, {"refresh"}),
    From("assignments", 2, 0, 0, 0, {}), From("assignments", 1, 1, 0, 0, {}),
    From("global", 2, 1, 0, 0, {}), From("global", 1, 0, 0, 1, {"page"}), From("global", 1, 1, 1, 0, {})}
=============================================================================
