---------------------------- MODULE PolicyProofs ----------------------------
(***************************************************************************)
(* What the order arithmetic of Policy returns: the lemmas that the proofs *)
(* about the store and about the policy file share.                        *)
(***************************************************************************)
EXTENDS Policy, WellFoundedInduction, FiniteSetTheorems, TLAPS

-----------------------------------------------------------------------------
(* Arithmetic: a bounded set of integers has a greatest element.           *)

(* A non-empty set of naturals has a least element.                        *)
LEMMA LeastNatural ==
    ASSUME NEW S \in SUBSET Nat, S # {}
    PROVE  \E m \in S : \A n \in S : m <= n
<1> DEFINE R == OpToRel(<, Nat)
<1>1. IsWellFoundedOn(R, Nat)
  BY NatLessThanWellFounded
<1>2. PICK m \in S : \A n \in S : <<n, m>> \notin R
  <2> HIDE DEF R
  <2> QED BY <1>1, WFMin
<1>3. \A n \in S : ~(n < m)
  BY <1>2 DEF OpToRel
<1> QED BY <1>3

(* Max, as FiniteSetsExt defines it, is the greatest element of a set that *)
(* is bounded above.                                                       *)
LEMMA MaxOfBounded ==
    ASSUME NEW S \in SUBSET Int, S # {}, NEW b \in Int, \A x \in S : x <= b
    PROVE  Max(S) \in S /\ \A x \in S : x <= Max(S)
<1> DEFINE T == {b - x : x \in S}
<1>1. \A x \in S : b - x \in Nat
  OBVIOUS
<1>2. T \subseteq Nat /\ T # {}
  BY <1>1
<1>3. PICK m \in T : \A n \in T : m <= n
  <2> HIDE DEF T
  <2> QED BY <1>2, LeastNatural
<1>4. PICK y \in S : m = b - y
  BY <1>3
<1>5. \A x \in S : y >= x
  <2> TAKE x \in S
  <2>1. b - y <= b - x
    BY <1>3, <1>4
  <2> QED BY <2>1
<1>6. Max(S) \in S /\ \A x \in S : Max(S) >= x
  BY <1>5 DEF Max
<1>7. Max(S) \in Int
  BY <1>6
<1> QED BY <1>6, <1>7

-----------------------------------------------------------------------------
(* Policy orders.                                                          *)

(* The order after a policy order is a policy order.                       *)
LEMMA NextOrderType ==
    ASSUME NEW o \in Int, o <= MaximumOrder
    PROVE  /\ next_policy_order(o) \in Int
           /\ next_policy_order(o) <= MaximumOrder
           /\ o < next_policy_order(o) \/ next_policy_order(o) = MaximumOrder
           /\ o \in Nat => next_policy_order(o) \in Nat
BY PolicyAssumption DEF next_policy_order

(* The order the store starts with is above every order it loads.          *)
LEMMA LoadedOrderType ==
    ASSUME NEW loaded \in OverlayPolicies
    PROVE  /\ LoadedOrder(loaded.applications) \in Nat
           /\ LoadedOrder(loaded.applications) <= MaximumOrder
           /\ \A a \in Present(loaded.applications) :
                  next_policy_order(loaded.applications[a].order)
                      <= LoadedOrder(loaded.applications)
<1> DEFINE applications == loaded.applications
           above == {next_policy_order(applications[a].order) : a \in Present(applications)}
<1>1. applications \in BoundedMaps
  BY DEF OverlayPolicies
<1>2. \A a \in Present(applications) :
          applications[a].order \in Int /\ applications[a].order <= MaximumOrder
  BY <1>1 DEF BoundedMaps, PolicyMaps, Policies, Present
<1>3. \A a \in Present(applications) :
          /\ next_policy_order(applications[a].order) \in Int
          /\ next_policy_order(applications[a].order) <= MaximumOrder
  BY <1>2, NextOrderType
<1>4. {0} \cup above \subseteq Int /\ \A x \in {0} \cup above : x <= MaximumOrder
  BY <1>3, PolicyAssumption
<1>5. /\ Max({0} \cup above) \in {0} \cup above
      /\ \A x \in {0} \cup above : x <= Max({0} \cup above)
  <2> HIDE DEF above
  <2>1. MaximumOrder \in Int
    BY PolicyAssumption
  <2> QED BY <1>4, <2>1, MaxOfBounded
<1>6. LoadedOrder(applications) = Max({0} \cup above)
  BY DEF LoadedOrder
<1>7. \A a \in Present(applications) : next_policy_order(applications[a].order) \in above
  OBVIOUS
<1>8. Max({0} \cup above) \in Int /\ 0 <= Max({0} \cup above)
  <2> HIDE DEF above
  <2> QED BY <1>4, <1>5
<1>9. Max({0} \cup above) <= MaximumOrder
  <2> HIDE DEF above
  <2> QED BY <1>4, <1>5
<1>10. \A a \in Present(applications) :
           next_policy_order(applications[a].order) <= LoadedOrder(applications)
  <2> HIDE DEF above, applications
  <2> QED BY <1>5, <1>6, <1>7
<1>11. LoadedOrder(applications) \in Nat /\ LoadedOrder(applications) <= MaximumOrder
  <2> HIDE DEF above, applications
  <2> QED BY <1>6, <1>8, <1>9
<1> QED BY <1>10, <1>11

(* Moving an application gives orders within range to the same            *)
(* applications.                                                           *)
LEMMA RenumberedType ==
    ASSUME NEW m \in BoundedMaps, NEW a \in Present(m), NEW position \in Nat,
           position < Cardinality(Present(m))
    PROVE  /\ Renumbered(m, a, position) \in BoundedMaps
           /\ Present(Renumbered(m, a, position)) = Present(m)
<1> DEFINE others == Present(m) \ {a}
           Moved(b) ==
               LET rest == Position(m, b, others)
               IN  IF b = a THEN position ELSE IF rest < position THEN rest ELSE rest + 1
           result == [b \in Applications |->
                         IF b \in Present(m) THEN [m[b] EXCEPT !.order = Moved(b)] ELSE None]
<1>1. Renumbered(m, a, position) = result
  BY DEF Renumbered
<1>2. m \in PolicyMaps /\ Present(m) \subseteq Applications
  BY DEF BoundedMaps, PolicyMaps, Present
<1>3. IsFiniteSet(Present(m)) /\ Cardinality(Present(m)) <= Cardinality(Applications)
  BY <1>2, PolicyAssumption, FS_Subset
<1>4. Cardinality(Present(m)) \in Nat /\ Cardinality(Applications) \in Nat
  BY <1>3, PolicyAssumption, FS_CardinalityType
<1>5. IsFiniteSet(others) /\ Cardinality(others) = Cardinality(Present(m)) - 1
  BY <1>3, FS_RemoveElement
<1>6. \A b \in Present(m) : Moved(b) \in Int /\ Moved(b) <= MaximumOrder
  <2> TAKE b \in Present(m)
  <2>1. Position(m, b, others) \in Nat /\ Position(m, b, others) <= Cardinality(others)
    BY <1>5, FS_Subset, FS_CardinalityType DEF Position
  <2> HIDE DEF others
  <2> QED BY <1>3, <1>4, <1>5, <2>1, PolicyAssumption
<1> HIDE DEF Moved
<1>7. \A b \in Present(m) :
          /\ [m[b] EXCEPT !.order = Moved(b)] \in Policies
          /\ [m[b] EXCEPT !.order = Moved(b)].order <= MaximumOrder
  BY <1>2, <1>6 DEF PolicyMaps, Policies, Present
<1>8. result \in PolicyMaps
  BY <1>7 DEF PolicyMaps
<1>9. Present(result) = Present(m)
  BY <1>2, <1>7, PolicyAssumption DEF Present
<1>10. result \in BoundedMaps
  BY <1>7, <1>8, <1>9, <1>2 DEF BoundedMaps
<1> QED BY <1>1, <1>9, <1>10

=============================================================================
