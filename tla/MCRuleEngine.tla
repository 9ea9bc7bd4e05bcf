--------------------------- MODULE MCRuleEngine ---------------------------
(* The graphs and readings of the instance.                                *)
EXTENDS RuleEngine

MCClients == 1 .. 2
MCRules == 1 .. 2
MCReadings == {3, NoReading}

Predicate(type, op, value) == [type |-> type, config |-> [keyed |-> TRUE, op |-> op, value |-> value]]
Action(kind) == [type |-> "action", config |-> [kind |-> kind]]
Delay(seconds) == [type |-> "delay", config |-> [seconds |-> seconds]]
Line(specs) == [nodes |-> specs, edges |-> {<<i, i + 1>> : i \in 1 .. Len(specs) - 1}]

(* A rule saved without a graph; and one whose notification waits for a    *)
(* delay and a condition that holds for 3, with an action of an unknown    *)
(* kind before it and a command behind a condition that is false for 3.    *)
MCGraphs == {
    [nodes |-> <<>>, edges |-> {}],
    Line(<<Predicate("trigger", "gt", 2), Action("email"), Predicate("condition", "lte", 4), Delay(1),
           Action("notify"), Predicate("condition", "gte", 5), Action("command")>>)}
=============================================================================
