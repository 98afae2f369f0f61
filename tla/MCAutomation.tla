---------------------------- MODULE MCAutomation ----------------------------
(***************************************************************************)
(* Values of Automation's constants for TLC: a switch with the states on   *)
(* and off over one router fact, in several configurations.                *)
(***************************************************************************)
EXTENDS Automation

CONSTANTS fact, second

Switch(scope, config) ==
    [scope |-> scope, states |-> {"on", "off"}, default |-> "off", sync |-> config,
     actions |-> [s \in State |-> IF s = "on" THEN <<[fact |-> fact, value |-> TRUE]>>
                                  ELSE <<[fact |-> fact, value |-> FALSE]>>]]

\* Entering "on" writes two facts, one of them twice.
TwoActions ==
    [Switch("device", None) EXCEPT !.actions = [s \in State |->
        IF s = "on" THEN <<[fact |-> fact, value |-> FALSE], [fact |-> second, value |-> TRUE],
                           [fact |-> fact, value |-> TRUE]>>
        ELSE <<[fact |-> fact, value |-> FALSE]>>]]

Config(external, trigger) ==
    [external |-> external, trigger |-> trigger, fact |-> fact,
     whenTrue |-> "on", whenFalse |-> "off"]
\* Only the presence of the fact means anything.
OneSided == [Config(TRUE, FALSE) EXCEPT !.whenFalse = None]
\* Maps to a state the switch does not have.
BadMapping == [Config(TRUE, FALSE) EXCEPT !.whenTrue = "high"]

PlainOnly == {Switch("device", None), Switch("device", Config(FALSE, FALSE)), TwoActions}
Mixed == {Switch("device", Config(TRUE, TRUE)), Switch("device", OneSided),
          Switch("global", Config(TRUE, FALSE)), Switch("device", BadMapping)}

\* Everything changes, or only clients with plain capabilities do.
Interleaved == [kinds |-> {"request", "router", "template", "device"}, payload |-> Mixed,
                changes |-> 3, faults |-> 1]
Sequential == [kinds |-> {"request"}, payload |-> PlainOnly, changes |-> 4, faults |-> 2]
Both == {Interleaved, Sequential}
Internal == {[kinds |-> {"request"}, payload |-> {Switch("device", Config(FALSE, FALSE))},
              changes |-> 2, faults |-> 0]}
=============================================================================
