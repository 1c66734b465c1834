------------------------- MODULE BrokerPolicyProofs -------------------------
(***************************************************************************)
(* Theorems about BrokerPolicy: the policy file and the policy in force.   *)
(***************************************************************************)
EXTENDS BrokerPolicy, PolicyProofs

-----------------------------------------------------------------------------
(* What the operators return.                                              *)

(* The known applications of a running broker are finitely many.           *)
LEMMA KnownType ==
    ASSUME TypeOK, Running
    PROVE  /\ live \in OverlayPolicies /\ live.applications \in BoundedMaps
           /\ Known \subseteq Applications /\ IsFiniteSet(Known)
           /\ Cardinality(Known) \in Nat /\ Cardinality(Known) <= MaximumOrder
<1>1. live \in OverlayPolicies /\ live.applications \in BoundedMaps
  BY DEF TypeOK, Running, OverlayPolicies
<1>2. Known \subseteq Applications
  BY <1>1 DEF Known, Present, BoundedMaps, PolicyMaps
<1>3. IsFiniteSet(Known) /\ Cardinality(Known) <= Cardinality(Applications)
  BY <1>2, PolicyAssumption, FS_Subset
<1>4. Cardinality(Known) \in Nat /\ Cardinality(Applications) \in Nat
  BY <1>3, PolicyAssumption, FS_CardinalityType
<1>5. Cardinality(Known) <= MaximumOrder
  BY <1>3, <1>4, PolicyAssumption
<1> QED BY <1>1, <1>2, <1>3, <1>4, <1>5

(* One policy of a map replaced, within range, gives such a map again.     *)
LEMMA ReplacedType ==
    ASSUME NEW m \in BoundedMaps, NEW a \in Applications, NEW p \in Policies,
           p.order <= MaximumOrder
    PROVE  /\ [m EXCEPT ![a] = p] \in BoundedMaps
           /\ Present([m EXCEPT ![a] = p]) = Present(m) \cup {a}
<1> DEFINE result == [m EXCEPT ![a] = p]
<1>1. m \in PolicyMaps
  BY DEF BoundedMaps
<1>2. result \in PolicyMaps
  BY <1>1 DEF PolicyMaps
<1>3. Present(result) = Present(m) \cup {a}
  BY <1>1, PolicyAssumption DEF PolicyMaps, Present
<1>4. \A b \in Present(result) : result[b].order <= MaximumOrder
  BY <1>1, <1>3 DEF BoundedMaps, PolicyMaps, Present
<1> QED BY <1>2, <1>3, <1>4 DEF BoundedMaps

(* What a change makes of the policy is a policy, of the same applications. *)
LEMMA CandidateType ==
    ASSUME TypeOK, Running, NEW change \in Changes, Applicable(change)
    PROVE  /\ Candidate(change) \in OverlayPolicies
           /\ Present(Candidate(change).applications) = Known
<1>1. live \in OverlayPolicies /\ live.applications \in BoundedMaps
  BY KnownType
<1>2. change \in ChangeType
  BY BrokerAssumption
<1>3. CASE change \in [kind : {"enabled", "require_approval"}, value : BOOLEAN]
  BY <1>1, <1>3 DEF Candidate, OverlayPolicies, Known
<1>4. CASE change \in [kind : {"application"}, application : Applications,
                       policy : Policies]
  <2> DEFINE m == [live.applications EXCEPT ![change.application] = change.policy]
  <2>1. change.policy.order <= MaximumOrder /\ change.application \in Known
    BY <1>4, BrokerAssumption DEF Applicable
  <2>2. m \in BoundedMaps /\ Present(m) = Present(live.applications) \cup {change.application}
    BY <1>1, <1>4, <2>1, ReplacedType
  <2>3. Candidate(change) = [live EXCEPT !.applications = m]
    BY <1>4 DEF Candidate
  <2> HIDE DEF m
  <2> QED BY <1>1, <2>1, <2>2, <2>3 DEF OverlayPolicies, Known
<1>5. CASE change \in [kind : {"position"}, application : Applications, position : Nat]
  <2> DEFINE m == Renumbered(live.applications, change.application, change.position)
  <2>1. change.application \in Known /\ change.position < Cardinality(Known)
        /\ change.position \in Nat
    BY <1>5 DEF Applicable
  <2>2. m \in BoundedMaps /\ Present(m) = Known
    BY <1>1, <2>1, RenumberedType DEF Known
  <2>3. Candidate(change) = [live EXCEPT !.applications = m]
    BY <1>5 DEF Candidate
  <2> HIDE DEF m
  <2> QED BY <1>1, <2>2, <2>3 DEF OverlayPolicies
<1> QED BY <1>2, <1>3, <1>4, <1>5 DEF ChangeType

(* The counter of orders stays in its range.                               *)
LEMMA NextOrderInRange ==
    ASSUME TypeOK, Running, NEW change \in Changes
    PROVE  NextOrder(change) \in 0..MaximumOrder
<1>1. change \in ChangeType /\ next_order \in 0..MaximumOrder
  BY BrokerAssumption DEF TypeOK
<1>2. CASE change.kind = "application"
  <2> DEFINE above == next_policy_order(change.policy.order)
             S == {next_order, above}
  <2>1. change.policy.order \in Int /\ change.policy.order <= MaximumOrder
    BY <1>1, <1>2, BrokerAssumption DEF ChangeType, Policies
  <2>2. above \in Int /\ above <= MaximumOrder
    BY <2>1, NextOrderType
  <2>3. NextOrder(change) = Max(S)
    BY <1>2 DEF NextOrder
  <2>4. Max(S) \in S /\ next_order <= Max(S)
    <3> HIDE DEF above
    <3>1. S \subseteq Int /\ next_order \in S /\ \A x \in S : x <= MaximumOrder
      BY <1>1, <2>2, PolicyAssumption
    <3>2. S # {} /\ MaximumOrder \in Int
      BY PolicyAssumption
    <3> HIDE DEF S
    <3> QED BY <3>1, <3>2, MaxOfBounded
  <2> HIDE DEF above
  <2> QED BY <1>1, <2>2, <2>3, <2>4, PolicyAssumption
<1>3. CASE change.kind = "position"
  BY <1>3, KnownType DEF NextOrder
<1>4. CASE change.kind \notin {"application", "position"}
  BY <1>1, <1>4 DEF NextOrder
<1> QED BY <1>2, <1>3, <1>4

(* Adding the application of the test program to a loaded policy.          *)
LEMMA WithTestApplicationType ==
    ASSUME NEW policy \in OverlayPolicies
    PROVE  LET started == WithTestApplication(policy)
           IN  /\ started \in OverlayPolicies
               /\ started.enabled = policy.enabled
               /\ started.require_approval = policy.require_approval
               /\ \A a \in Present(policy.applications) :
                      started.applications[a] = policy.applications[a]
<1> DEFINE size == Cardinality(Present(policy.applications))
           p == [approved |-> TRUE, visible |-> TRUE, order |-> size]
           m == [policy.applications EXCEPT ![TestApplication] = p]
<1>1. policy.applications \in BoundedMaps /\ Present(policy.applications) \subseteq Applications
  BY DEF OverlayPolicies, BoundedMaps, PolicyMaps, Present
<1>2. size \in Nat /\ size <= MaximumOrder
  <2>1. /\ IsFiniteSet(Present(policy.applications))
        /\ Cardinality(Present(policy.applications)) <= Cardinality(Applications)
    BY <1>1, PolicyAssumption, FS_Subset
  <2>2. size \in Nat /\ Cardinality(Applications) \in Nat
    BY <2>1, PolicyAssumption, FS_CardinalityType
  <2> QED BY <2>1, <2>2, PolicyAssumption
<1>3. p \in Policies /\ p.order <= MaximumOrder
  BY <1>2 DEF Policies
<1>4. m \in BoundedMaps
  BY <1>1, <1>3, ReplacedType, BrokerAssumption
<1>5. CASE WithTestApplication(policy) = policy
  BY <1>5
<1>6. CASE WithTestApplication(policy) # policy
  <2>1. /\ WithTestApplication(policy) = [policy EXCEPT !.applications = m]
        /\ TestApplication \notin Present(policy.applications)
    BY <1>6 DEF WithTestApplication
  <2>2. \A a \in Present(policy.applications) : m[a] = policy.applications[a]
    BY <1>1, <2>1 DEF BoundedMaps, PolicyMaps
  <2> HIDE DEF m
  <2> QED BY <1>4, <2>1, <2>2 DEF OverlayPolicies
<1> QED BY <1>5, <1>6

(* A policy file that is read is a policy.                                 *)
LEMMA LoadedType ==
    ASSUME NEW saved \in OverlayPolicies \cup {None}
    PROVE  Loaded(saved) \in OverlayPolicies
<1> DEFINE nothing == [a \in Applications |-> None]
<1>1. nothing \in BoundedMaps
  BY DEF BoundedMaps, PolicyMaps, Present
<1> HIDE DEF nothing
<1>2. DefaultPolicy \in OverlayPolicies
  BY <1>1 DEF DefaultPolicy, OverlayPolicies, nothing
<1> QED BY <1>2 DEF Loaded

-----------------------------------------------------------------------------
(* Type correctness, and what a session's step says.                       *)

(* A registration adds its application and leaves the others alone.        *)
LEMMA RegisterType ==
    ASSUME TypeOK, NEW a \in Applications, Register(a)
    PROVE  /\ live \in OverlayPolicies /\ live' \in OverlayPolicies
           /\ live'.enabled = live.enabled
           /\ live'.require_approval = live.require_approval
           /\ Known' = Known \cup {a}
           /\ \A b \in Known : live'.applications[b] = live.applications[b]
<1> DEFINE p == [approved |-> ~live.require_approval, visible |-> TRUE,
                 order |-> next_order]
           m == [live.applications EXCEPT ![a] = p]
<1>1. live \in OverlayPolicies /\ live.applications \in BoundedMaps /\ a \notin Known
  BY KnownType DEF Register
<1>2. next_order \in Int /\ next_order <= MaximumOrder
  BY PolicyAssumption DEF TypeOK
<1>3. p \in Policies /\ p.order <= MaximumOrder
  BY <1>1, <1>2 DEF Policies, OverlayPolicies
<1>4. m \in BoundedMaps /\ Present(m) = Known \cup {a}
  BY <1>1, <1>3, ReplacedType DEF Known
<1>5. live' = [live EXCEPT !.applications = m]
  BY DEF Register
<1>6. \A b \in Known : m[b] = live.applications[b]
  BY <1>1 DEF Known, BoundedMaps, PolicyMaps, Present
<1> HIDE DEF m
<1> QED BY <1>1, <1>4, <1>5, <1>6 DEF OverlayPolicies, Known

(* The initial state.                                                      *)
LEMMA InitHolds ==
    Init => TypeOK /\ SessionsConsistent /\ FileFollowsLive
            /\ PowerLossKeepsAcknowledged /\ OnlyDiskFails
<1> SUFFICES ASSUME Init PROVE TypeOK /\ SessionsConsistent /\ FileFollowsLive
                               /\ PowerLossKeepsAcknowledged /\ OnlyDiskFails
  OBVIOUS
<1>1. TypeOK
  BY PolicyAssumption DEF Init, TypeOK, Sessions, Steps, IdleSession
<1>2. SessionsConsistent
  BY BrokerAssumption DEF Init, SessionsConsistent, Consistent, IdleSession, Saving
<1>3. FileFollowsLive /\ PowerLossKeepsAcknowledged /\ OnlyDiskFails
  BY DEF Init, FileFollowsLive, Running, PowerLossKeepsAcknowledged, OnlyDiskFails
<1> QED BY <1>1, <1>2, <1>3

(* A session that holds the mutex is the only one that saves.              *)
LEMMA OneSaves ==
    ASSUME SessionsConsistent, NEW c \in Controllers, holder \in {c, None},
           NEW d \in Controllers, d # c
    PROVE  session[d].step \notin Saving
BY BrokerAssumption DEF SessionsConsistent, Consistent

(* Every step keeps the types.                                             *)
LEMMA TypeStep ==
    ASSUME TypeOK, SessionsConsistent, Next
    PROVE  TypeOK'
<1>1. ASSUME NEW c \in Controllers, NEW change \in Changes, Request(c, change)
      PROVE  TypeOK'
  BY <1>1 DEF Request, TypeOK, Sessions, Steps, diskVars, boundVars
<1>2. ASSUME NEW c \in Controllers, Set(c)
      PROVE  TypeOK'
  <2>1. session[c] \in Sessions /\ session[c].change \in Changes /\ Running
        /\ Applicable(session[c].change)
    BY <1>2 DEF Set, TypeOK, SessionsConsistent, Consistent
  <2>2. Candidate(session[c].change) \in OverlayPolicies
    BY <2>1, CandidateType
  <2>3. session' \in [Controllers -> Sessions]
    BY <1>2, <2>1, <2>2 DEF Set, Fail, TypeOK, Sessions, Steps, IdleSession
  <2> QED BY <1>2, <2>3 DEF Set, Fail, TypeOK, diskVars, boundVars
<1>3. ASSUME NEW c \in Controllers, WriteTemporary(c)
      PROVE  TypeOK'
  BY <1>3 DEF WriteTemporary, TypeOK, Sessions, Steps, diskVars, boundVars
<1>4. ASSUME NEW c \in Controllers, FailToWrite(c) \/ FailToSync(c)
      PROVE  TypeOK'
  BY <1>4 DEF FailToWrite, FailToSync, Fail, TypeOK, Sessions, Steps, IdleSession, diskVars
<1>5. ASSUME NEW c \in Controllers, Rename(c)
      PROVE  TypeOK'
  <2>1. session[c].candidate \in OverlayPolicies
    BY <1>5 DEF Rename, SessionsConsistent, Consistent, Saving
  <2> QED BY <1>5, <2>1 DEF Rename, TypeOK, Sessions, Steps, boundVars
<1>6. ASSUME NEW c \in Controllers, Commit(c)
      PROVE  TypeOK'
  <2>1. /\ session[c].candidate \in OverlayPolicies
        /\ session[c].change \in Changes /\ Running
    BY <1>6 DEF Commit, SessionsConsistent, Consistent, Saving
  <2>2. NextOrder(session[c].change) \in 0..MaximumOrder
    BY <2>1, NextOrderInRange
  <2> QED BY <1>6, <2>1, <2>2 DEF Commit, TypeOK, Sessions, Steps, boundVars
<1>7. ASSUME NEW c \in Controllers, Reply(c)
      PROVE  TypeOK'
  BY <1>7 DEF Reply, TypeOK, Sessions, Steps, IdleSession, diskVars, boundVars
<1>8. ASSUME NEW a \in Applications, Register(a)
      PROVE  TypeOK'
  <2>1. live' \in OverlayPolicies
    BY <1>8, RegisterType
  <2>2. next_order \in Int /\ next_order <= MaximumOrder /\ next_order \in Nat
    BY PolicyAssumption DEF TypeOK
  <2>3. next_order' \in 0..MaximumOrder
    BY <1>8, <2>2, NextOrderType, PolicyAssumption DEF Register
  <2> QED BY <1>8, <2>1, <2>3 DEF Register, TypeOK, diskVars, boundVars
<1>9. ASSUME Kill \/ PowerLoss
      PROVE  TypeOK'
  BY <1>9, PolicyAssumption
     DEF Kill, PowerLoss, Down, TypeOK, Sessions, Steps, IdleSession
<1>10. ASSUME Start
       PROVE  TypeOK'
  <2>1. live' \in OverlayPolicies
    BY <1>10, LoadedType, WithTestApplicationType DEF Start, TypeOK
  <2>2. next_order' \in 0..MaximumOrder
    BY <1>10, <2>1, LoadedOrderType, PolicyAssumption DEF Start
  <2> QED BY <1>10, <2>1, <2>2 DEF Start, TypeOK, diskVars, boundVars
<1> QED BY <1>1, <1>2, <1>3, <1>4, <1>5, <1>6, <1>7, <1>8, <1>9, <1>10 DEF Next, Serve

(* More known applications are not fewer.                                  *)
LEMMA MoreKnown ==
    ASSUME TypeOK, Running, TypeOK', Running', Known \subseteq Known'
    PROVE  /\ Cardinality(Known) \in Nat /\ Cardinality(Known') \in Nat
           /\ Cardinality(Known) <= Cardinality(Known')
<1>1. live' \in OverlayPolicies
  BY DEF TypeOK, Running
<1>2. Known' \subseteq Applications
  BY <1>1 DEF Known, Present, OverlayPolicies, BoundedMaps, PolicyMaps
<1>3. IsFiniteSet(Known')
  BY <1>2, PolicyAssumption, FS_Subset
<1>4. Cardinality(Known) <= Cardinality(Known')
  BY <1>3, FS_Subset
<1> QED BY <1>3, <1>4, KnownType, FS_CardinalityType

(* Every step keeps the sessions consistent.                               *)
LEMMA SessionsStep ==
    ASSUME TypeOK, SessionsConsistent, Next, TypeOK'
    PROVE  SessionsConsistent'
<1> USE DEF Saving
<1> SUFFICES ASSUME NEW d \in Controllers PROVE Consistent(d)'
  BY DEF SessionsConsistent
<1>0. Consistent(d)
  BY DEF SessionsConsistent
<1>1. ASSUME NEW c \in Controllers, NEW change \in Changes, Request(c, change)
      PROVE  Consistent(d)'
  BY <1>0, <1>1
     DEF Request, Consistent, Applicable, Running, Known, TypeOK, diskVars
<1>2. ASSUME NEW c \in Controllers, Set(c)
      PROVE  Consistent(d)'
  <2>1. session[c].step = "checked" /\ holder = None /\ Consistent(c)
    BY <1>2 DEF Set, SessionsConsistent
  <2>2. /\ Candidate(session[c].change) \in OverlayPolicies
        /\ Present(Candidate(session[c].change).applications) = Known
    BY <2>1, CandidateType DEF Consistent
  <2>3. CASE Fail(c)
    BY <1>0, <1>2, <2>1, <2>3, OneSaves, BrokerAssumption
       DEF Set, Fail, Consistent, Applicable, Running, Known, TypeOK, IdleSession, diskVars
  <2>4. CASE /\ session' = [session EXCEPT ![c].step = "applied"]
             /\ UNCHANGED <<live, holder, diskVars>>
    BY <1>0, <2>1, <2>4, BrokerAssumption
       DEF Consistent, Applicable, Running, Known, TypeOK, diskVars
  <2>5. CASE /\ session' = [session EXCEPT ![c].step = "saving",
                                           ![c].candidate = Candidate(session[c].change)]
             /\ holder' = c
             /\ UNCHANGED <<live, diskVars>>
    <3> DEFINE candidate == Candidate(session[c].change)
    <3> HIDE DEF candidate
    <3>1. session' = [session EXCEPT ![c].step = "saving", ![c].candidate = candidate]
      BY <2>5 DEF candidate
    <3>2. candidate \in OverlayPolicies /\ Present(candidate.applications) = Known
      BY <2>2 DEF candidate
    <3> QED BY <1>0, <2>1, <2>5, <3>1, <3>2, OneSaves, BrokerAssumption
            DEF Consistent, Applicable, Running, Known, TypeOK, Sessions, diskVars
  <2> QED BY <1>2, <2>3, <2>4, <2>5 DEF Set
<1>3. ASSUME NEW c \in Controllers, WriteTemporary(c)
      PROVE  Consistent(d)'
  BY <1>0, <1>3 DEF WriteTemporary, Consistent, Applicable, Running, Known, TypeOK, diskVars
<1>4. ASSUME NEW c \in Controllers, FailToWrite(c) \/ FailToSync(c)
      PROVE  Consistent(d)'
  <2>1. holder = c
    BY <1>4 DEF FailToWrite, FailToSync, SessionsConsistent, Consistent
  <2> QED BY <1>0, <1>4, <2>1, OneSaves, BrokerAssumption
          DEF FailToWrite, FailToSync, Fail, Consistent, Applicable, Running, Known,
              TypeOK, IdleSession
<1>5. ASSUME NEW c \in Controllers, Rename(c)
      PROVE  Consistent(d)'
  <2>1. holder = c
    BY <1>5 DEF Rename, SessionsConsistent, Consistent
  <2> QED BY <1>0, <1>5, <2>1, OneSaves
          DEF Rename, Consistent, Applicable, Running, Known, TypeOK
<1>6. ASSUME NEW c \in Controllers, Commit(c)
      PROVE  Consistent(d)'
  <2>1. holder = c /\ Consistent(c)
    BY <1>6 DEF Commit, SessionsConsistent, Consistent
  <2>2. Known' = Known /\ Running'
    BY <1>6, <2>1, BrokerAssumption DEF Commit, Consistent, Known, Running
  <2> QED BY <1>0, <1>6, <2>1, <2>2, OneSaves, BrokerAssumption
          DEF Commit, Consistent, Applicable, TypeOK
<1>7. ASSUME NEW c \in Controllers, Reply(c)
      PROVE  Consistent(d)'
  BY <1>0, <1>7, BrokerAssumption
     DEF Reply, Consistent, Applicable, Running, Known, TypeOK, IdleSession, diskVars
<1>8. ASSUME NEW a \in Applications, Register(a)
      PROVE  Consistent(d)'
  <2>1. Running /\ Running' /\ Known \subseteq Known'
    BY <1>8, RegisterType, BrokerAssumption DEF Register, Running
  <2>2. session[d].step \notin Saving /\ session' = session /\ holder' = None
    BY <1>0, <1>8, BrokerAssumption DEF Register, Consistent
  <2>3. ASSUME session[d].step # "idle"
        PROVE  session'[d].change \in Changes /\ Applicable(session[d].change)'
    <3>1. session[d].change \in Changes /\ Applicable(session[d].change)
      BY <1>0, <2>3 DEF Consistent
    <3>2. session[d].change.kind = "position" => session[d].change.position \in Nat
      BY <3>1, BrokerAssumption DEF ChangeType
    <3>3. /\ Cardinality(Known) \in Nat /\ Cardinality(Known') \in Nat
          /\ Cardinality(Known) <= Cardinality(Known')
      BY <2>1, MoreKnown
    <3> QED BY <2>1, <2>2, <3>1, <3>2, <3>3 DEF Applicable
  <2> QED BY <1>0, <2>1, <2>2, <2>3, BrokerAssumption DEF Consistent
<1>9. ASSUME Kill \/ PowerLoss
      PROVE  Consistent(d)'
  BY <1>9, BrokerAssumption DEF Kill, PowerLoss, Down, Consistent, IdleSession
<1>10. ASSUME Start
       PROVE  Consistent(d)'
  BY <1>0, <1>10 DEF Start, Consistent, diskVars
<1> QED BY <1>1, <1>2, <1>3, <1>4, <1>5, <1>6, <1>7, <1>8, <1>9, <1>10 DEF Next, Serve

-----------------------------------------------------------------------------
(* The file and the policy in force.                                       *)

(* A change that is committed is in force as it is in the file.            *)
LEMMA CommittedAgrees ==
    ASSUME SessionsConsistent, NEW c \in Controllers, Commit(c)
    PROVE  AgreesWithLive(file)'
<1>1. /\ session[c].candidate \in OverlayPolicies
      /\ file' = session[c].candidate /\ live' = session[c].candidate
  BY DEF Commit, SessionsConsistent, Consistent, Saving
<1>2. Loaded(file') = file'
  BY <1>1, BrokerAssumption DEF Loaded
<1> QED BY <1>1, <1>2 DEF AgreesWithLive

(* A registration changes nothing that the file holds.                     *)
LEMMA RegisteredAgrees ==
    ASSUME TypeOK, NEW a \in Applications, Register(a), AgreesWithLive(file)
    PROVE  AgreesWithLive(file)'
<1>1. file' = file
  BY DEF Register, diskVars
<1>2. \A b \in Present(Loaded(file).applications) : b \in Known
  <2> TAKE b \in Present(Loaded(file).applications)
  <2>1. Loaded(file) \in OverlayPolicies /\ live \in OverlayPolicies
    BY LoadedType, RegisterType DEF TypeOK
  <2>2. live.applications[b] = Loaded(file).applications[b]
    BY DEF AgreesWithLive
  <2> QED BY <2>1, <2>2
          DEF Known, Present, OverlayPolicies, BoundedMaps, PolicyMaps
<1> QED BY <1>1, <1>2, RegisterType DEF AgreesWithLive

(* Every step keeps the file and the policy in force in agreement.         *)
LEMMA FileStep ==
    ASSUME TypeOK, SessionsConsistent, FileFollowsLive, Next
    PROVE  FileFollowsLive'
<1>1. ASSUME NEW c \in Controllers, NEW change \in Changes, Request(c, change)
      PROVE  FileFollowsLive'
  BY <1>1 DEF Request, FileFollowsLive, AgreesWithLive, Running, TypeOK, diskVars, boundVars
<1>2. ASSUME NEW c \in Controllers, Set(c)
      PROVE  FileFollowsLive'
  <2>1. /\ UNCHANGED <<live, file, attempted, sync_errors>>
        /\ \A d \in Controllers : session[d].step = "renamed" => session'[d].step = "renamed"
    BY <1>2 DEF Set, Fail, TypeOK, IdleSession, diskVars, boundVars
  <2> QED BY <2>1 DEF FileFollowsLive, AgreesWithLive, Running
<1>3. ASSUME NEW c \in Controllers, WriteTemporary(c)
      PROVE  FileFollowsLive'
  BY <1>3 DEF WriteTemporary, FileFollowsLive, AgreesWithLive, Running, TypeOK,
              diskVars, boundVars
<1>4. ASSUME NEW c \in Controllers, FailToWrite(c)
      PROVE  FileFollowsLive'
  BY <1>4 DEF FailToWrite, Fail, FileFollowsLive, AgreesWithLive, Running, TypeOK,
              IdleSession, diskVars
<1>5. ASSUME NEW c \in Controllers, Rename(c)
      PROVE  FileFollowsLive'
  BY <1>5 DEF Rename, FileFollowsLive, TypeOK
<1>6. ASSUME NEW c \in Controllers, Commit(c)
      PROVE  FileFollowsLive'
  BY <1>6, CommittedAgrees DEF FileFollowsLive
<1>7. ASSUME NEW c \in Controllers, FailToSync(c)
      PROVE  FileFollowsLive'
  <2>1. attempted' # {}
    BY <1>7 DEF FailToSync, SessionsConsistent, Consistent, diskVars
  <2>2. sync_errors' # 0
    BY <1>7 DEF FailToSync, TypeOK
  <2> QED BY <2>1, <2>2 DEF FileFollowsLive
<1>8. ASSUME NEW c \in Controllers, Reply(c)
      PROVE  FileFollowsLive'
  BY <1>8 DEF Reply, FileFollowsLive, AgreesWithLive, Running, TypeOK, IdleSession,
              diskVars, boundVars
<1>9. ASSUME NEW a \in Applications, Register(a)
      PROVE  FileFollowsLive'
  <2>1. /\ Running /\ UNCHANGED <<session, sync_errors, attempted>>
    BY <1>9 DEF Register, diskVars, boundVars
  <2> QED BY <1>9, <2>1, RegisteredAgrees DEF FileFollowsLive
<1>10. ASSUME Kill \/ PowerLoss
       PROVE  FileFollowsLive'
  BY <1>10 DEF Kill, PowerLoss, Down, FileFollowsLive, Running
<1>11. ASSUME Start
       PROVE  FileFollowsLive'
  <2>1. /\ file' = file /\ Loaded(file) \in OverlayPolicies
        /\ live' = WithTestApplication(Loaded(file))
    BY <1>11, LoadedType DEF Start, TypeOK, diskVars
  <2> QED BY <2>1, WithTestApplicationType DEF FileFollowsLive, AgreesWithLive
<1> QED BY <1>1, <1>2, <1>3, <1>4, <1>5, <1>6, <1>7, <1>8, <1>9, <1>10, <1>11
        DEF Next, Serve

(* Every step keeps what a power loss may bring back.                      *)
LEMMA DurableStep ==
    ASSUME PowerLossKeepsAcknowledged, Next
    PROVE  PowerLossKeepsAcknowledged'
<1> USE DEF PowerLossKeepsAcknowledged
<1>1. ASSUME NEW c \in Controllers, Serve(c)
      PROVE  PowerLossKeepsAcknowledged'
  BY <1>1 DEF Serve, Request, Set, WriteTemporary, FailToWrite, Rename, Commit,
              FailToSync, Reply, Fail, diskVars
<1>2. ASSUME NEW a \in Applications, Register(a)
      PROVE  PowerLossKeepsAcknowledged'
  BY <1>2 DEF Register, diskVars
<1>3. ASSUME Kill \/ PowerLoss \/ Start
      PROVE  PowerLossKeepsAcknowledged'
  BY <1>3 DEF Kill, PowerLoss, Down, Start, diskVars
<1> QED BY <1>1, <1>2, <1>3 DEF Next

-----------------------------------------------------------------------------
(* Why an operation fails.                                                 *)

(* Every step keeps the reason of every failure.                           *)
LEMMA FailureStep ==
    ASSUME TypeOK, SessionsConsistent, OnlyDiskFails, Next, TypeOK'
    PROVE  OnlyDiskFails'
<1> DEFINE Failed == \E c \in Controllers : answer[c] = "operation_failed"
<1>0. {write_errors, sync_errors} \subseteq Nat
  BY DEF TypeOK
<1>1. ASSUME NEW c \in Controllers, NEW change \in Changes, Request(c, change)
      PROVE  OnlyDiskFails'
  <2>1. Failed' => Failed
    BY <1>1 DEF Request, TypeOK
  <2> QED BY <1>1, <2>1 DEF Request, OnlyDiskFails, Running, Known, boundVars
<1>2. ASSUME NEW c \in Controllers, Set(c)
      PROVE  OnlyDiskFails'
  <2>1. Running /\ Applicable(session[c].change)
    BY <1>2 DEF Set, SessionsConsistent, Consistent
  <2>2. UNCHANGED <<live, write_errors, sync_errors>>
    BY <1>2 DEF Set, Fail, boundVars
  <2>3. Cardinality(Known) > MaximumSavedApplications \/ answer' = answer
    BY <1>2, <2>1 DEF Set
  <2> QED BY <2>1, <2>2, <2>3 DEF OnlyDiskFails, Running, Known
<1>3. ASSUME NEW c \in Controllers, WriteTemporary(c) \/ Rename(c)
      PROVE  OnlyDiskFails'
  BY <1>3 DEF WriteTemporary, Rename, OnlyDiskFails, Running, Known, boundVars
<1>4. ASSUME NEW c \in Controllers, FailToWrite(c) \/ FailToSync(c)
      PROVE  OnlyDiskFails'
  BY <1>0, <1>4 DEF FailToWrite, FailToSync, OnlyDiskFails
<1>5. ASSUME NEW c \in Controllers, Commit(c)
      PROVE  OnlyDiskFails'
  <2>1. Running /\ Running' /\ Known' = Known
    BY <1>5, BrokerAssumption
       DEF Commit, SessionsConsistent, Consistent, Saving, Running, Known
  <2> QED BY <1>5, <2>1 DEF Commit, OnlyDiskFails, boundVars
<1>6. ASSUME NEW c \in Controllers, Reply(c)
      PROVE  OnlyDiskFails'
  <2>1. Failed' => Failed
    BY <1>6 DEF Reply, TypeOK
  <2> QED BY <1>6, <2>1 DEF Reply, OnlyDiskFails, Running, Known, boundVars
<1>7. ASSUME NEW a \in Applications, Register(a)
      PROVE  OnlyDiskFails'
  <2>1. Running /\ Running' /\ Known \subseteq Known'
    BY <1>7, RegisterType, BrokerAssumption DEF Register, Running
  <2>2. /\ Cardinality(Known) \in Nat /\ Cardinality(Known') \in Nat
        /\ Cardinality(Known) <= Cardinality(Known')
    BY <2>1, MoreKnown
  <2>3. MaximumSavedApplications \in Nat
    BY BrokerAssumption
  <2>4. UNCHANGED <<answer, write_errors, sync_errors>>
    BY <1>7 DEF Register, boundVars
  <2> QED BY <2>1, <2>2, <2>3, <2>4 DEF OnlyDiskFails
<1>8. ASSUME Kill \/ PowerLoss
      PROVE  OnlyDiskFails'
  BY <1>8 DEF Kill, PowerLoss, Down, OnlyDiskFails
<1>9. ASSUME Start
      PROVE  OnlyDiskFails'
  BY <1>9 DEF Start, OnlyDiskFails, boundVars
<1> QED BY <1>1, <1>2, <1>3, <1>4, <1>5, <1>6, <1>7, <1>8, <1>9 DEF Next, Serve

-----------------------------------------------------------------------------
(* The theorems.                                                           *)

Inv ==
    TypeOK /\ SessionsConsistent /\ FileFollowsLive /\ PowerLossKeepsAcknowledged
    /\ OnlyDiskFails

(* A step that changes nothing keeps everything.                           *)
LEMMA StutterStep ==
    ASSUME Inv, UNCHANGED vars
    PROVE  Inv'
<1>1. TypeOK'
  BY DEF Inv, TypeOK, vars, diskVars, boundVars
<1>2. SessionsConsistent'
  BY DEF Inv, SessionsConsistent, Consistent, Applicable, Running, Known, vars, diskVars
<1>3. FileFollowsLive' /\ PowerLossKeepsAcknowledged' /\ OnlyDiskFails'
  BY DEF Inv, FileFollowsLive, AgreesWithLive, PowerLossKeepsAcknowledged,
         OnlyDiskFails, Running, Known, vars, diskVars, boundVars
<1> QED BY <1>1, <1>2, <1>3 DEF Inv

(* The inductive invariant holds in every state.                           *)
LEMMA Invariance == Spec => []Inv
<1>1. Init => Inv
  BY InitHolds DEF Inv
<1>2. Inv /\ [Next]_vars => Inv'
  <2>1. ASSUME Inv, Next PROVE Inv'
    <3>1. TypeOK'
      BY <2>1, TypeStep DEF Inv
    <3> QED BY <2>1, <3>1, SessionsStep, FileStep, DurableStep, FailureStep DEF Inv
  <2> QED BY <2>1, StutterStep
<1> QED BY <1>1, <1>2, PTL DEF Spec

(* Every variable of the broker keeps its type; the order given to the     *)
(* next application stays within INT32_MAX.                                *)
THEOREM TypeCorrect == Spec => []TypeOK
<1>1. Inv => TypeOK
  BY DEF Inv
<1> QED BY <1>1, Invariance, PTL

(* Whenever no change is being saved, the policy file holds what the user  *)
(* decided: a broker that restarts puts the same policy in force.          *)
THEOREM SettingsSurviveRestart == Spec => []RestartKeepsSettings
<1>1. Inv => RestartKeepsSettings
  BY BrokerAssumption
     DEF Inv, RestartKeepsSettings, FileFollowsLive, SessionsConsistent, Consistent, Saving
<1> QED BY <1>1, Invariance, PTL

(* No power loss brings back a policy older than the last change that      *)
(* was acknowledged.                                                       *)
THEOREM AcknowledgedSurvives == Spec => []PowerLossKeepsAcknowledged
<1>1. Inv => PowerLossKeepsAcknowledged
  BY DEF Inv
<1> QED BY <1>1, Invariance, PTL

(* An operation fails only for the disk or for the size of the policy.     *)
THEOREM FailureMeansDisk == Spec => []OnlyDiskFails
<1>1. Inv => OnlyDiskFails
  BY DEF Inv
<1> QED BY <1>1, Invariance, PTL

=============================================================================
