------------------------- MODULE MCCapabilityEditor -------------------------
(***************************************************************************)
(* Values of CapabilityEditor's constants for TLC.                         *)
(***************************************************************************)
EXTENDS CapabilityEditor

Field(key, kind, options, visible) ==
    [key |-> key, kind |-> kind, options |-> options, visible_if |-> visible]

\* The two kinds of router actions and sources, reduced to the fields in which
\* the device can be named.
Schemas ==
    [membership |-> <<Field("target", "enum", <<"device.ip", "literal_ip">>, None),
                      Field("literal_ip", "string", <<>>, [key |-> "target", equals |-> "literal_ip"])>>,
     rule |-> <<Field("comment", "string", <<>>, None)>>]
Refs == {"device.ip", "{{device.ip}}"}
Blanks == [v \in {" on"} |-> "on"]

Stored(id, label) == [createEmptyCapabilityTemplate EXCEPT !.id = id, !.label = label]
\* A select of three options with an action, and its synchronisation.
Rich ==
    [Stored("vpn.a", "t") EXCEPT
        !.type = "select", !.options = <<"on", "off", "option_3">>,
        !.states = [v \in {"on", "off", "option_3"} |->
            IF v = "on" THEN <<[id |-> 1, type |-> "rule", params |-> [k \in {"comment"} |-> "x"]]>> ELSE <<>>],
        !.sync = [enabled |-> TRUE, type |-> "rule", params |-> [k \in {"comment"} |-> "x"],
                  when_true |-> "option_3", when_false |-> "off", mode |-> "external_truth", trigger |-> FALSE],
        !.ha.entity_type = "select"]
Plain == Stored("vpn.a", "t")
Other == [Stored("vpn.b", "u") EXCEPT !.scope = "global"]
Templates == {Rich, Plain, Other}

From(stored, edits, tabs, ops, moves, steps, faults, outside) ==
    [stored |-> stored, budget |-> [edits |-> edits, tabs |-> tabs, ops |-> ops, moves |-> moves,
                                    steps |-> steps, faults |-> faults, outside |-> outside]]
\* Edits of the options, of the synchronisation and of the actions; pages left
\* and entered during a save; the list, its filter, Duplicate and Delete; faults
\* and another browser's changes.
Scenarios == {
    From({Rich}, 2, {"control"}, 1, 1, {"go"}, 0, 0),
    From({Rich}, 2, {"basic", "sync"}, 1, 1, {"go"}, 0, 0),
    From({Plain}, 4, {"states"}, 1, 1, {"go"}, 0, 0),
    From({Plain, Other}, 1, {"ha"}, 1, 2, {"go", "focus"}, 0, 0),
    From({Plain, Other}, 0, {}, 2, 1, {"go", "filter"}, 1, 0),
    From({Plain}, 1, {"basic"}, 1, 1, {"go", "focus"}, 1, 1)}
=============================================================================
