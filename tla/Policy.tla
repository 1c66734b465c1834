------------------------------- MODULE Policy -------------------------------
(***************************************************************************)
(* The policy the user sets: what a controller changes, the store applies  *)
(* and the policy file keeps (OverlayPolicy, and the order arithmetic of   *)
(* scene/src/store.cpp).                                                   *)
(***************************************************************************)
EXTENDS Overlay, FiniteSetsExt

CONSTANT MaximumOrder       \* INT32_MAX

Policies == [approved : BOOLEAN, visible : BOOLEAN, order : Int]
PolicyMaps == [Applications -> Policies \cup {None}]
BoundedMaps == {m \in PolicyMaps : \A a \in Present(m) : m[a].order <= MaximumOrder}
OverlayPolicies ==
    [enabled : BOOLEAN, require_approval : BOOLEAN, applications : BoundedMaps]

ASSUME PolicyAssumption ==
    /\ Applications \subseteq Nat /\ IsFiniteSet(Applications)
    /\ MaximumOrder \in Nat /\ Cardinality(Applications) <= MaximumOrder
    /\ None \notin Policies

(* Mutant: the order overflows.                                            *)
next_policy_order_unchecked(order) == order + 1

next_policy_order(order) == IF order = MaximumOrder THEN order ELSE order + 1

(* Mutant: the highest loaded order itself, however low.                   *)
LoadedTop(applications) ==
    IF Present(applications) = {} THEN 0
    ELSE Max({applications[a].order : a \in Present(applications)})

(* A store that starts with these layers new applications above them all.  *)
LoadedOrder(applications) ==
    Max({0} \cup {next_policy_order(applications[a].order) : a \in Present(applications)})

(* policy_locked lists the applications by order and then by name: the     *)
(* position of one is the number of others of "others" listed before it.   *)
Position(applications, a, others) ==
    Cardinality({b \in others :
        \/ applications[b].order < applications[a].order
        \/ applications[b].order = applications[a].order /\ b < a})

(* Erase the application from that list, insert it at the position asked   *)
(* for and number the list from 0.                                         *)
Renumbered(applications, a, position) ==
    LET others == Present(applications) \ {a}
        Moved(b) ==
            LET rest == Position(applications, b, others)
            IN  IF b = a THEN position ELSE IF rest < position THEN rest ELSE rest + 1
    IN  [b \in Applications |->
            IF b \in Present(applications)
            THEN [applications[b] EXCEPT !.order = Moved(b)]
            ELSE None]

=============================================================================
