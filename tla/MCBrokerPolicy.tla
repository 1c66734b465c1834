-------------------------- MODULE MCBrokerPolicy ---------------------------
(* Instances of BrokerPolicy for TLC.                                       *)
EXTENDS BrokerPolicy, TLC

CONSTANTS p1, p2

Interchangeable == Permutations({p1, p2})

Toggle(kind, value) == [kind |-> kind, value |-> value]
Decide(a, approved, visible, order) ==
    [kind |-> "application", application |-> a,
     policy |-> [approved |-> approved, visible |-> visible, order |-> order]]
Move(a, position) == [kind |-> "position", application |-> a, position |-> position]

(* Each switch, one hidden application, one moved.                         *)
SomeChanges ==
    {Toggle("enabled", FALSE), Toggle("require_approval", TRUE),
     Decide(2, TRUE, FALSE, 3), Move(1, 1)}

Switch == {Toggle("enabled", TRUE), Toggle("enabled", FALSE)}
=============================================================================
