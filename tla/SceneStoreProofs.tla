-------------------------- MODULE SceneStoreProofs ---------------------------
(***************************************************************************)
(* Invariants of the scene store for every value of its constants, and     *)
(* that it implements the change feed the renderer sessions rely on.       *)
(***************************************************************************)
EXTENDS SceneStore, PolicyProofs, SceneProofs

-----------------------------------------------------------------------------
(* Type correctness.                                                       *)

(* The feed stays a sequence of change records when a record is added.     *)
LEMMA RetainedType ==
    ASSUME NEW f \in Seq(ChangeRecords), NEW r \in ChangeRecords
    PROVE  Retained(Append(f, r)) \in Seq(ChangeRecords)
<1>1. Append(f, r) \in Seq(ChangeRecords) /\ Len(Append(f, r)) \in Nat
  OBVIOUS
<1>2. RetainedLimit \in Nat \ {0}
  BY SceneAssumption DEF RetainedLimit
<1> DEFINE g == Append(f, r)
<1>3. CASE Len(g) > RetainedLimit
  <2>1. Len(g) - RetainedLimit + 1 \in 1..Len(g)
    BY <1>1, <1>2, <1>3
  <2> HIDE DEF g
  <2>2. g \in Seq(ChangeRecords)
    BY <1>1 DEF g
  <2>3. SubSeq(g, Len(g) - RetainedLimit + 1, Len(g)) \in Seq(ChangeRecords)
    BY <2>1, <2>2
  <2> QED BY <2>3, <1>3 DEF Retained, g
<1>4. CASE ~(Len(g) > RetainedLimit)
  BY <1>1, <1>4 DEF Retained
<1> QED BY <1>3, <1>4

(* A recorded change keeps the types of what Record assigns.               *)
LEMMA RecordType ==
    ASSUME TypeOK, NEW kind, NEW identity, NEW provider,
           Change(revision + 1, kind, identity, provider) \in ChangeRecords,
           Record(kind, identity, provider)
    PROVE  /\ revision' \in Nat
           /\ changes' \in Seq(ChangeRecords)
           /\ DOMAIN current_snapshot' = {"revision", "providers"}
<1>1. revision \in Nat /\ changes \in Seq(ChangeRecords)
  BY DEF TypeOK
<1>2. changes' \in Seq(ChangeRecords)
  BY <1>1, RetainedType DEF Record
<1> QED BY <1>1, <1>2 DEF Record

(* A reset is a change record.                                             *)
LEMMA ResetType ==
    ASSUME NEW r \in Nat
    PROVE  Change(r + 1, "reset", None, None) \in ChangeRecords
BY DEF Change, ChangeRecords

(* What a transaction makes of the elements is again an element map.       *)
LEMMA CandidateType ==
    ASSUME NEW elements \in ElementMaps, NEW m \in Mutations
    PROVE  Candidate(elements, m) \in ElementMaps
<1> DEFINE M == [id : ElementIds, content : Contents \cup {None}]
<1>1. m \in Seq(M)
  BY StoreAssumption
<1> SUFFICES ASSUME NEW e \in ElementIds
             PROVE  Candidate(elements, m)[e] \in Contents \cup {None}
  BY DEF Candidate, ElementMaps
<1> DEFINE touching == {i \in DOMAIN m : m[i].id = e}
<1>2. CASE touching = {}
  BY <1>2 DEF Candidate, ElementMaps
<1>3. CASE touching # {}
  <2>1. touching \subseteq Int /\ \A i \in touching : i <= Len(m)
    BY <1>1
  <2>2. Len(m) \in Int
    BY <1>1
  <2>3. Max(touching) \in touching
    <3> HIDE DEF touching
    <3> QED BY <1>3, <2>1, <2>2, MaxOfBounded
  <2>4. \A i \in DOMAIN m : m[i].content \in Contents \cup {None}
    <3>1. \A i \in DOMAIN m : m[i] \in M
      <4> HIDE DEF M
      <4> QED BY <1>1
    <3> QED BY <3>1
  <2>5. Max(touching) \in DOMAIN m
    BY <2>3
  <2>6. m[Max(touching)].content \in Contents \cup {None}
    <3> HIDE DEF touching
    <3> QED BY <2>4, <2>5
  <2> QED BY <1>3, <2>6 DEF Candidate
<1> QED BY <1>2, <1>3

(* The scene made of a provider's maps is a scene.                         *)
LEMMA PublishedSceneType ==
    ASSUME NEW identity \in Identities, NEW elements \in ElementMaps,
           NEW resources \in ResourceMaps
    PROVE  PublishedScene(identity, elements, resources) \in Scenes
BY DEF PublishedScene, Scenes, ResourceMaps

FeedTypeOK ==
    /\ revision \in Nat
    /\ changes \in Seq(ChangeRecords)
    /\ DOMAIN current_snapshot = {"revision", "providers"}

(* Publishing a provider's scene, or not when it is hidden, keeps the feed *)
(* well typed.                                                             *)
LEMMA UpsertType ==
    ASSUME TypeOK, NEW c \in Connections, providers'[c] \in ProviderStates,
           RecordUpsertIfVisible(c)
    PROVE  FeedTypeOK'
<1> DEFINE identity == providers'[c].identity
           scene == providers'[c].published
<1>1. identity \in Identities /\ scene \in Scenes
  BY DEF ProviderStates
<1>2. revision \in Nat
  BY DEF TypeOK
<1>3. Change(revision + 1, "upsert", identity, scene) \in ChangeRecords
  <2> HIDE DEF identity, scene
  <2> QED BY <1>1, <1>2 DEF Change, ChangeRecords
<1>4. CASE Shown(c)'
  <2>1. Record("upsert", identity, scene)
    BY <1>4 DEF RecordUpsertIfVisible
  <2> HIDE DEF identity, scene
  <2>2. Retained(Append(changes, Change(revision + 1, "upsert", identity, scene)))
            \in Seq(ChangeRecords)
    BY <1>3, RetainedType DEF TypeOK
  <2> QED BY <2>1, <2>2, <1>2 DEF Record, FeedTypeOK
<1>5. CASE ~Shown(c)'
  BY <1>5 DEF RecordUpsertIfVisible, feedVars, FeedTypeOK, TypeOK
<1> QED BY <1>4, <1>5

(* So does a reset.                                                        *)
LEMMA ResetKeepsType ==
    ASSUME TypeOK, RecordReset
    PROVE  FeedTypeOK'
<1>1. revision \in Nat
  BY DEF TypeOK
<1>2. Change(revision + 1, "reset", None, None) \in ChangeRecords
  BY <1>1, ResetType
<1> QED BY <1>1, <1>2, RecordType DEF RecordReset, FeedTypeOK

(* The number of applications known to the store is a natural number.      *)
LEMMA KnownIsFinite ==
    /\ IsFiniteSet(Known)
    /\ Cardinality(Known) \in Nat
    /\ Cardinality(Known) <= Cardinality(Applications)
BY SceneAssumption, FS_Subset, FS_CardinalityType DEF Known

(* The known applications are the keys of the policy map.                  *)
LEMMA KnownIsPresent ==
    ASSUME TypeOK
    PROVE  Known = Present(policies)
BY DEF TypeOK, PolicyMaps, Known, Present

(* The initial states are well typed.                                      *)
LEMMA InitTypeOK ==
    ASSUME Init
    PROVE  TypeOK
<1>1. PICK loaded \in LoadedPolicies :
        /\ providers = NoProviders
        /\ policies = loaded.applications
        /\ enabled = loaded.enabled
        /\ require_approval = loaded.require_approval
        /\ next_order = LoadedOrder(loaded.applications)
        /\ revision = 0
        /\ changes = <<>>
        /\ resource_bytes = NoBytes
        /\ current_snapshot = EmptySnapshot
  BY DEF Init
<1>2. loaded \in OverlayPolicies
  BY StoreAssumption
<1>3. DOMAIN EmptySnapshot = {"revision", "providers"}
  BY DEF EmptySnapshot
<1>4. next_order \in Nat
  BY <1>1, <1>2, LoadedOrderType
<1>5. <<>> \in Seq(ChangeRecords)
  OBVIOUS
<1> QED
  BY <1>1, <1>2, <1>3, <1>4, <1>5
  DEF TypeOK, OverlayPolicies, BoundedMaps, NoProviders, NoBytes

(* A registration keeps the types.                                         *)
LEMMA RegistrationType ==
    ASSUME TypeOK, NEW c \in Connections, NEW i \in Identities, register_provider(c, i)
    PROVE  TypeOK' /\ providers'[c] \in ProviderStates
<1> USE DEF TypeOK
<1> DEFINE a == i.application_id
           elements == [e \in ElementIds |-> None]
           resources == [r \in ResourceIds |-> None]
           provider == [identity |-> i, elements |-> elements, resources |-> resources,
                        bytes |-> [p \in Planes |-> 0], last_transaction_id |-> 0,
                        published |-> PublishedScene(i, elements, resources)]
<1>1. a \in Applications
  BY DEF Identities
<1>2. elements \in ElementMaps /\ resources \in ResourceMaps
  BY DEF ElementMaps, ResourceMaps
<1>3. PublishedScene(i, elements, resources) \in Scenes
  BY <1>2, PublishedSceneType
<1>4. provider \in ProviderStates
  <2> HIDE DEF elements, resources
  <2> QED BY <1>2, <1>3 DEF ProviderStates
<1>5. providers' = [providers EXCEPT ![c] = provider]
  BY DEF register_provider
<1>6. providers' \in [Connections -> ProviderStates \cup {None}]
      /\ providers'[c] \in ProviderStates
  <2> HIDE DEF provider
  <2> QED BY <1>4, <1>5
<1>7. FeedTypeOK'
  <2>1. RecordUpsertIfVisible(c)
    BY DEF register_provider
  <2> QED BY <1>6, <2>1, UpsertType
<1>8. policies' \in PolicyMaps /\ next_order' \in Nat
  <2>1. CASE policies[a] = None
    <3>1. /\ policies' = [policies EXCEPT ![a] =
                 [approved |-> ~require_approval, visible |-> TRUE, order |-> next_order]]
          /\ next_order' = next_policy_order(next_order)
      BY <2>1 DEF register_provider
    <3>2. next_order' \in Nat
      BY <3>1 DEF next_policy_order
    <3>3. [approved |-> ~require_approval, visible |-> TRUE, order |-> next_order]
              \in Policies
      BY DEF Policies
    <3> QED BY <3>1, <3>2, <3>3 DEF PolicyMaps
  <2>2. CASE policies[a] # None
    BY <2>2 DEF register_provider
  <2> QED BY <2>1, <2>2
<1>9. UNCHANGED <<enabled, require_approval, resource_bytes>>
  BY DEF register_provider
<1> QED BY <1>6, <1>7, <1>8, <1>9 DEF FeedTypeOK

(* An upload keeps the types.                                              *)
LEMMA StoreType ==
    ASSUME TypeOK, NEW c \in Registered, NEW r \in ResourceIds,
           NEW x \in Resources, store_resource(c, r, x)
    PROVE  TypeOK' /\ providers'[c] \in ProviderStates
<1> USE DEF TypeOK
<1> DEFINE provider == providers[c]
           replaced == provider.resources[r]
           resources == [provider.resources EXCEPT ![r] = x]
           Recount(bytes) == [p \in Planes |->
                                 bytes[p] - BytesOf(replaced, p) + BytesOf(x, p)]
<1>1. c \in Connections /\ provider \in ProviderStates
  BY DEF Registered
<1>2. replaced \in Resources \cup {None} /\ resources \in ResourceMaps
  <2>1. provider.resources \in ResourceMaps
    BY <1>1 DEF ProviderStates
  <2>2. replaced \in Resources \cup {None}
    BY <2>1 DEF ResourceMaps
  <2> HIDE DEF provider
  <2>3. resources \in ResourceMaps
    BY <2>1 DEF ResourceMaps
  <2> QED BY <2>2, <2>3
<1>3. \A p \in Planes : BytesOf(replaced, p) \in Int /\ BytesOf(x, p) \in Int
  <2>1. \A y \in Resources \cup {None}, p \in Planes : BytesOf(y, p) \in Int
    BY SceneAssumption DEF BytesOf
  <2> QED BY <1>2, <2>1, Zenon
<1>4. \A bytes \in [Planes -> Int] : Recount(bytes) \in [Planes -> Int]
  BY <1>3
<1>5. providers' = [providers EXCEPT ![c] =
                       [provider EXCEPT !.resources = resources,
                                        !.bytes = Recount(provider.bytes)]]
  BY <1>1 DEF store_resource, ProviderStates
<1>6. [provider EXCEPT !.resources = resources, !.bytes = Recount(provider.bytes)]
          \in ProviderStates
  <2> HIDE DEF resources, Recount, provider
  <2> QED BY <1>1, <1>2, <1>4 DEF ProviderStates
<1>7. resource_bytes' = Recount(resource_bytes)
  BY DEF store_resource
<1>8. UNCHANGED <<policyVars, feedVars>>
  BY DEF store_resource
<1> HIDE DEF Recount, provider, resources
<1>9. providers' \in [Connections -> ProviderStates \cup {None}]
      /\ providers'[c] \in ProviderStates
  BY <1>1, <1>5, <1>6
<1>10. resource_bytes' \in [Planes -> Int]
  BY <1>4, <1>7
<1> QED BY <1>8, <1>9, <1>10 DEF policyVars, feedVars

(* So does a release.                                                      *)
LEMMA ReleaseType ==
    ASSUME TypeOK, NEW c \in Registered, NEW r \in ResourceIds, release_resource(c, r)
    PROVE  TypeOK' /\ providers'[c] \in ProviderStates
<1> USE DEF TypeOK
<1> DEFINE provider == providers[c]
           released == provider.resources[r]
           resources == [provider.resources EXCEPT ![r] = None]
           Recount(bytes) == [p \in Planes |-> bytes[p] - BytesOf(released, p)]
<1>1. c \in Connections /\ provider \in ProviderStates
  BY DEF Registered
<1>2. released \in Resources \cup {None} /\ resources \in ResourceMaps
  BY <1>1 DEF ProviderStates, ResourceMaps
<1>3. \A p \in Planes : BytesOf(released, p) \in Int
  BY <1>2, SceneAssumption DEF BytesOf
<1>4. \A bytes \in [Planes -> Int] : Recount(bytes) \in [Planes -> Int]
  BY <1>3
<1>5. providers' = [providers EXCEPT ![c] =
                       [provider EXCEPT !.resources = resources,
                                        !.bytes = Recount(provider.bytes)]]
  BY <1>1 DEF release_resource, ProviderStates
<1>6. [provider EXCEPT !.resources = resources, !.bytes = Recount(provider.bytes)]
          \in ProviderStates
  <2> HIDE DEF resources, Recount, provider
  <2> QED BY <1>1, <1>2, <1>4 DEF ProviderStates
<1>7. resource_bytes' = Recount(resource_bytes)
  BY DEF release_resource
<1>8. UNCHANGED <<policyVars, feedVars>>
  BY DEF release_resource
<1> HIDE DEF Recount, provider, resources
<1>9. providers' \in [Connections -> ProviderStates \cup {None}]
      /\ providers'[c] \in ProviderStates
  BY <1>1, <1>5, <1>6
<1>10. resource_bytes' \in [Planes -> Int]
  BY <1>4, <1>7
<1> QED BY <1>8, <1>9, <1>10 DEF policyVars, feedVars

(* A commit keeps the types as well.                                       *)
LEMMA CommitType ==
    ASSUME TypeOK, NEW c \in Registered, NEW id \in TransactionIds, NEW m \in Mutations,
           commit(c, id, m)
    PROVE  TypeOK' /\ providers'[c] \in ProviderStates
<1> USE DEF TypeOK
<1> DEFINE provider == providers[c]
           candidate == Candidate(provider.elements, m)
           scene == PublishedScene(provider.identity, candidate, provider.resources)
           next == [provider EXCEPT !.elements = candidate, !.last_transaction_id = id,
                                    !.published = scene]
<1>1. c \in Connections /\ provider \in ProviderStates
  BY DEF Registered
<1>2. candidate \in ElementMaps
  BY <1>1, CandidateType DEF ProviderStates
<1>3. scene \in Scenes
  <2> HIDE DEF candidate
  <2> QED BY <1>1, <1>2, PublishedSceneType DEF ProviderStates
<1>4. id \in Nat
  BY StoreAssumption
<1>5. next \in ProviderStates
  <2> HIDE DEF candidate, scene, provider
  <2> QED BY <1>1, <1>2, <1>3, <1>4 DEF ProviderStates
<1>6. providers' = [providers EXCEPT ![c] = next]
  BY DEF commit
<1>7. providers' \in [Connections -> ProviderStates \cup {None}]
      /\ providers'[c] \in ProviderStates
  <2> HIDE DEF next
  <2> QED BY <1>1, <1>5, <1>6
<1>8. FeedTypeOK'
  <2>1. RecordUpsertIfVisible(c)
    BY DEF commit
  <2> QED BY <1>1, <1>7, <2>1, UpsertType
<1>9. UNCHANGED <<policyVars, resource_bytes>>
  BY DEF commit
<1> QED BY <1>7, <1>8, <1>9 DEF policyVars, FeedTypeOK

(* Moving an application keeps the policies of all the known ones.         *)
LEMMA MovedType ==
    ASSUME TypeOK, NEW a \in Applications, NEW position \in 0..Cardinality(Applications),
           set_application_position(a, position)
    PROVE  policies' \in PolicyMaps /\ \A b \in Known : policies'[b] \in Policies
<1> USE DEF TypeOK
<1> DEFINE Moved(b) ==
               LET rest == Position(policies, b, Known \ {a})
               IN  IF b = a THEN position ELSE IF rest < position THEN rest ELSE rest + 1
<1>1. position \in Nat
  BY SceneAssumption, FS_CardinalityType
<1>2. \A b \in Applications : Moved(b) \in Int
  <2> TAKE b \in Applications
  <2>1. Position(policies, b, Known \ {a}) \in Nat
    BY SceneAssumption, FS_Subset, FS_CardinalityType DEF Position, Known
  <2> QED BY <1>1, <2>1
<1>3. policies' = [b \in Applications |->
          IF b \in Known THEN [policies[b] EXCEPT !.order = Moved(b)] ELSE None]
  BY KnownIsPresent DEF set_application_position, Renumbered
<1> HIDE DEF Moved
<1>4. \A b \in Known : [policies[b] EXCEPT !.order = Moved(b)] \in Policies
  BY <1>2 DEF Known, PolicyMaps, Policies
<1> QED BY <1>3, <1>4 DEF PolicyMaps, Known

(* A new policy map that differs at one application, or in the orders, is  *)
(* one; every action keeps the types of what it assigns.                   *)
LEMMA NextTypeOK ==
    ASSUME TypeOK, [Next]_vars
    PROVE  TypeOK'
<1> USE DEF TypeOK
<1>1. ASSUME NEW c \in Connections, NEW i \in Identities, register_provider(c, i)
      PROVE  TypeOK'
  BY <1>1, RegistrationType
<1>2. ASSUME NEW c \in Connections, disconnect(c)
      PROVE  TypeOK'
  <2>1. providers[c] \in ProviderStates
    BY <1>2 DEF disconnect, Registered
  <2>2. providers' \in [Connections -> ProviderStates \cup {None}]
    BY <1>2 DEF disconnect
  <2>3. resource_bytes' \in [Planes -> Int]
    BY <1>2, <2>1 DEF disconnect, ProviderStates
  <2>4. FeedTypeOK'
    <3>1. CASE Shown(c)
      <4>1. Record("remove_provider", providers[c].identity, None)
        BY <1>2, <3>1 DEF disconnect
      <4>2. providers[c].identity \in Identities
        BY <2>1 DEF ProviderStates
      <4>3. Change(revision + 1, "remove_provider", providers[c].identity, None)
                \in ChangeRecords
        BY <4>2 DEF Change, ChangeRecords
      <4> QED BY <4>1, <4>3, RecordType DEF FeedTypeOK
    <3>2. CASE ~Shown(c)
      BY <1>2, <3>2 DEF disconnect, feedVars, FeedTypeOK
    <3> QED BY <3>1, <3>2
  <2> QED BY <1>2, <2>2, <2>3, <2>4 DEF disconnect, policyVars, FeedTypeOK
<1>3. ASSUME NEW c \in Registered, NEW r \in ResourceIds, NEW x \in Resources,
             store_resource(c, r, x)
      PROVE  TypeOK'
  BY <1>3, StoreType
<1>4. ASSUME NEW c \in Registered, NEW r \in ResourceIds, release_resource(c, r)
      PROVE  TypeOK'
  BY <1>4, ReleaseType
<1>5. ASSUME NEW c \in Registered, NEW id \in TransactionIds, NEW m \in Mutations,
             commit(c, id, m)
      PROVE  TypeOK'
  BY <1>5, CommitType
<1>6. ASSUME NEW value \in BOOLEAN, set_enabled(value)
      PROVE  TypeOK'
  <2>1. FeedTypeOK'
    BY <1>6, ResetKeepsType DEF set_enabled
  <2> QED BY <1>6, <2>1 DEF set_enabled, FeedTypeOK
<1>7. ASSUME NEW required \in BOOLEAN, set_require_approval(required)
      PROVE  TypeOK'
  BY <1>7 DEF set_require_approval, feedVars
<1>8. ASSUME NEW a \in Applications, NEW approved \in BOOLEAN, NEW visible \in BOOLEAN,
             NEW order \in Orders, set_application_policy(a, approved, visible, order)
      PROVE  TypeOK'
  <2>1. order \in Int /\ order <= MaximumOrder
    BY StoreAssumption
  <2>2. [approved |-> approved, visible |-> visible, order |-> order] \in Policies
    BY <2>1 DEF Policies
  <2>3. policies' \in PolicyMaps
    BY <1>8, <2>2 DEF set_application_policy, PolicyMaps
  <2>4. next_order' \in Nat
    <3>1. next_policy_order(order) \in Int
      BY <2>1, NextOrderType
    <3> QED BY <1>8, <3>1 DEF set_application_policy
  <2>5. FeedTypeOK'
    BY <1>8, ResetKeepsType DEF set_application_policy
  <2> QED BY <1>8, <2>3, <2>4, <2>5 DEF set_application_policy, FeedTypeOK
<1>9. ASSUME NEW a \in Applications, NEW position \in 0..Cardinality(Applications),
             set_application_position(a, position)
      PROVE  TypeOK'
  <2>4. policies' \in PolicyMaps
    BY <1>9, MovedType
  <2>5. next_order' \in Nat
    BY <1>9, KnownIsFinite DEF set_application_position
  <2>6. FeedTypeOK'
    BY <1>9, ResetKeepsType DEF set_application_position
  <2> QED BY <1>9, <2>4, <2>5, <2>6 DEF set_application_position, FeedTypeOK
<1>10. CASE UNCHANGED vars
  BY <1>10 DEF vars
<1> QED
  BY <1>1, <1>2, <1>3, <1>4, <1>5, <1>6, <1>7, <1>8, <1>9, <1>10
  DEF Next, Register, Disconnect, Store, Release, Commit, SetEnabled,
      SetRequireApproval, SetApplicationPolicy, SetApplicationPosition

(* In every reachable state each variable of the store has its type.       *)
THEOREM TypeCorrect == Spec => []TypeOK
<1>1. Init => TypeOK
  BY InitTypeOK
<1>2. TypeOK /\ [Next]_vars => TypeOK'
  BY NextTypeOK
<1> QED BY <1>1, <1>2, PTL DEF Spec

-----------------------------------------------------------------------------
(* Scenes and resources.                                                   *)

ScenesAreWhole == NoDanglingResource /\ PublishedIsCommitted

(* Changing a resource that no element shows changes neither the scene nor *)
(* what its elements find.                                                 *)
LEMMA UnusedResource ==
    ASSUME NEW identity \in Identities, NEW elements \in ElementMaps,
           NEW resources \in ResourceMaps, NEW r \in ResourceIds,
           NEW x \in Resources \cup {None},
           ~ReferencedBy(elements, r), ResourcesUsable(elements, resources)
    PROVE  LET changed == [resources EXCEPT ![r] = x]
           IN  /\ PublishedScene(identity, elements, changed)
                      = PublishedScene(identity, elements, resources)
               /\ ResourcesUsable(elements, changed)
<1> DEFINE changed == [resources EXCEPT ![r] = x]
<1>1. \A q \in ResourceIds : q # r => changed[q] = resources[q]
  BY DEF ResourceMaps
<1>2. PublishedScene(identity, elements, changed)
          = PublishedScene(identity, elements, resources)
  BY <1>1 DEF PublishedScene
<1>3. ResourcesUsable(elements, changed)
  <2> SUFFICES ASSUME NEW e \in Present(elements),
                      elements[e].kind \in {"image", "gif"}
               PROVE  /\ elements[e].resource_id \in Present(changed)
                      /\ elements[e].kind = "gif" =>
                             /\ changed[elements[e].resource_id].frames >= 2
                             /\ elements[e].frame_index
                                    < changed[elements[e].resource_id].frames
    BY DEF ResourcesUsable
  <2> DEFINE q == elements[e].resource_id
  <2>1. q \in Present(resources)
    BY DEF ResourcesUsable
  <2>2. q # r
    BY DEF ReferencedBy
  <2>3. q \in ResourceIds /\ resources[q] # None
    BY <2>1 DEF Present, ResourceMaps
  <2>4. changed[q] = resources[q] /\ q \in Present(changed)
    BY <1>1, <2>2, <2>3 DEF Present, ResourceMaps
  <2> QED BY <2>4 DEF ResourcesUsable
<1> QED BY <1>2, <1>3

(* Every action keeps the scenes of all providers whole: only one provider *)
(* changes, and only a commit changes what its elements show.              *)
LEMMA NextScenesAreWhole ==
    ASSUME TypeOK, ScenesAreWhole, [Next]_vars
    PROVE  ScenesAreWhole'
<1> DEFINE Whole(provider) ==
               /\ ResourcesUsable(provider.elements, provider.resources)
               /\ provider.published = PublishedScene(provider.identity,
                      provider.elements, provider.resources)
<1> USE DEF TypeOK
<1>1. \A c \in Registered : Whole(providers[c])
  BY DEF ScenesAreWhole, NoDanglingResource, PublishedIsCommitted
<1>2. SUFFICES \A c \in Registered' : Whole(providers'[c])
  BY DEF ScenesAreWhole, NoDanglingResource, PublishedIsCommitted
<1>3. ASSUME NEW c \in Connections, NEW new,
             providers' = [providers EXCEPT ![c] = new],
             new = None \/ Whole(new)
      PROVE  \A d \in Registered' : Whole(providers'[d])
  <2> HIDE DEF Whole
  <2> QED BY <1>1, <1>3 DEF Registered
<1>4. ASSUME UNCHANGED providers
      PROVE  \A d \in Registered' : Whole(providers'[d])
  BY <1>1, <1>4 DEF Registered
<1>5. ASSUME NEW c \in Connections, NEW i \in Identities, register_provider(c, i)
      PROVE  \A d \in Registered' : Whole(providers'[d])
  <2> DEFINE elements == [e \in ElementIds |-> None]
             resources == [r \in ResourceIds |-> None]
             new == [identity |-> i, elements |-> elements, resources |-> resources,
                     bytes |-> [p \in Planes |-> 0], last_transaction_id |-> 0,
                     published |-> PublishedScene(i, elements, resources)]
  <2>1. providers' = [providers EXCEPT ![c] = new]
    BY <1>5 DEF register_provider
  <2>2. Present(elements) = {}
    BY DEF Present
  <2>3. Whole(new)
    <3> HIDE DEF elements, resources
    <3> QED BY <2>2 DEF ResourcesUsable
  <2> HIDE DEF new, Whole
  <2> QED BY <1>3, <2>1, <2>3
<1>6. ASSUME NEW c \in Connections, disconnect(c)
      PROVE  \A d \in Registered' : Whole(providers'[d])
  <2>1. providers' = [providers EXCEPT ![c] = None]
    BY <1>6 DEF disconnect
  <2> HIDE DEF Whole
  <2> QED BY <1>3, <2>1
<1>7. ASSUME NEW c \in Registered, NEW r \in ResourceIds, NEW x \in Resources \cup {None},
             ~ReferencedBy(providers[c].elements, r),
             NEW bytes,
             providers' = [providers EXCEPT ![c] =
                 [providers[c] EXCEPT !.resources = [providers[c].resources EXCEPT ![r] = x],
                                      !.bytes = bytes]]
      PROVE  \A d \in Registered' : Whole(providers'[d])
  <2> DEFINE provider == providers[c]
             changed == [provider.resources EXCEPT ![r] = x]
             new == [provider EXCEPT !.resources = changed, !.bytes = bytes]
  <2>1. c \in Connections /\ provider \in ProviderStates /\ Whole(provider)
    BY <1>1 DEF Registered
  <2>2. /\ PublishedScene(provider.identity, provider.elements, changed)
               = PublishedScene(provider.identity, provider.elements, provider.resources)
        /\ ResourcesUsable(provider.elements, changed)
    BY <1>7, <2>1, UnusedResource DEF ProviderStates
  <2>3. /\ new.elements = provider.elements
        /\ new.identity = provider.identity
        /\ new.published = provider.published
        /\ new.resources = changed
    BY <2>1 DEF ProviderStates
  <2>4. Whole(new)
    <3> HIDE DEF new, changed
    <3> QED BY <2>1, <2>2, <2>3
  <2>5. providers' = [providers EXCEPT ![c] = new]
    BY <1>7
  <2> HIDE DEF new, Whole
  <2> QED BY <1>3, <2>1, <2>4, <2>5
<1>8. ASSUME NEW c \in Registered, NEW r \in ResourceIds, NEW x \in Resources,
             store_resource(c, r, x)
      PROVE  \A d \in Registered' : Whole(providers'[d])
  <2> DEFINE replaced == providers[c].resources[r]
             bytes == [p \in Planes |-> providers[c].bytes[p] - BytesOf(replaced, p)
                                            + BytesOf(x, p)]
  <2>1. c \in Connections /\ providers[c] \in ProviderStates /\ Whole(providers[c])
    BY <1>1 DEF Registered
  <2>2. ~ReferencedBy(providers[c].elements, r)
    <3>1. CASE replaced # None
      BY <1>8, <3>1 DEF store_resource, CanStore, resource_is_referenced
    <3>2. CASE replaced = None
      BY <2>1, <3>2 DEF ReferencedBy, ResourcesUsable, Present
    <3> QED BY <3>1, <3>2
  <2>3. providers' = [providers EXCEPT ![c] =
            [providers[c] EXCEPT !.resources = [providers[c].resources EXCEPT ![r] = x],
                                 !.bytes = bytes]]
    BY <1>8, <2>1 DEF store_resource, ProviderStates
  <2> HIDE DEF bytes, Whole
  <2> QED BY <1>7, <2>2, <2>3
<1>9. ASSUME NEW c \in Registered, NEW r \in ResourceIds, release_resource(c, r)
      PROVE  \A d \in Registered' : Whole(providers'[d])
  <2> DEFINE released == providers[c].resources[r]
             bytes == [p \in Planes |-> providers[c].bytes[p] - BytesOf(released, p)]
  <2>1. c \in Connections /\ providers[c] \in ProviderStates
    BY DEF Registered
  <2>2. ~ReferencedBy(providers[c].elements, r)
    BY <1>9 DEF release_resource, CanRelease, resource_is_referenced
  <2>3. providers' = [providers EXCEPT ![c] =
            [providers[c] EXCEPT !.resources = [providers[c].resources EXCEPT ![r] = None],
                                 !.bytes = bytes]]
    BY <1>9, <2>1 DEF release_resource, ProviderStates
  <2> HIDE DEF bytes, Whole
  <2> QED BY <1>7, <2>2, <2>3
<1>10. ASSUME NEW c \in Registered, NEW id \in TransactionIds, NEW m \in Mutations,
              commit(c, id, m)
       PROVE  \A d \in Registered' : Whole(providers'[d])
  <2> DEFINE provider == providers[c]
             candidate == Candidate(provider.elements, m)
             scene == PublishedScene(provider.identity, candidate, provider.resources)
             new == [provider EXCEPT !.elements = candidate, !.last_transaction_id = id,
                                     !.published = scene]
  <2>1. c \in Connections /\ provider \in ProviderStates
    BY DEF Registered
  <2>2. ResourcesUsable(candidate, provider.resources)
    BY <1>10 DEF commit, CanCommit
  <2>3. Whole(new)
    <3> HIDE DEF candidate, provider
    <3> QED BY <2>1, <2>2 DEF ProviderStates
  <2>4. providers' = [providers EXCEPT ![c] = new]
    BY <1>10 DEF commit
  <2> HIDE DEF new, Whole
  <2> QED BY <1>3, <2>1, <2>3, <2>4
<1>11. CASE SetEnabled \/ SetRequireApproval \/ SetApplicationPolicy
               \/ SetApplicationPosition
  <2>1. UNCHANGED providers
    BY <1>11 DEF SetEnabled, SetRequireApproval, SetApplicationPolicy,
                 SetApplicationPosition, set_enabled, set_require_approval,
                 set_application_policy, set_application_position
  <2> QED BY <1>4, <2>1
<1>12. CASE UNCHANGED vars
  BY <1>4, <1>12 DEF vars
<1> QED
  BY <1>5, <1>6, <1>8, <1>9, <1>10, <1>11, <1>12
  DEF Next, Register, Disconnect, Store, Release, Commit

(* Whatever is uploaded, released or replaced after a commit, the scene    *)
(* published for a provider stays the one it committed, and each of its    *)
(* elements finds its resource and its frame.                              *)
THEOREM ScenesStayWhole == Spec => [](NoDanglingResource /\ PublishedIsCommitted)
<1>1. Init => ScenesAreWhole
  <2> SUFFICES ASSUME Init PROVE ScenesAreWhole
    OBVIOUS
  <2>1. Registered = {}
    BY DEF Init, NoProviders, Registered
  <2> QED BY <2>1 DEF ScenesAreWhole, NoDanglingResource, PublishedIsCommitted
<1>2. TypeOK /\ ScenesAreWhole /\ [Next]_vars => ScenesAreWhole'
  BY NextScenesAreWhole
<1>3. ScenesAreWhole => NoDanglingResource /\ PublishedIsCommitted
  BY DEF ScenesAreWhole
<1> QED BY <1>1, <1>2, <1>3, TypeCorrect, PTL DEF Spec

-----------------------------------------------------------------------------
(* Layering of new applications.                                           *)

(* The position of an application among the others leaves room above it.   *)
LEMMA PositionBound ==
    ASSUME TypeOK, NEW a \in Known, NEW b \in Known, a # b
    PROVE  /\ Position(policies, b, Known \ {a}) \in Nat
           /\ Position(policies, b, Known \ {a}) + 2 <= Cardinality(Known)
<1> DEFINE rest == Known \ {a}
           before == {d \in rest :
                         \/ policies[d].order < policies[b].order
                         \/ policies[d].order = policies[b].order /\ d < b}
           ok == rest \ {b}
<1>1. IsFiniteSet(Known) /\ Cardinality(Known) \in Nat
  BY KnownIsFinite
<1>2. IsFiniteSet(rest) /\ Cardinality(rest) = Cardinality(Known) - 1
  BY <1>1, FS_RemoveElement
<1>3. IsFiniteSet(ok) /\ Cardinality(ok) = Cardinality(rest) - 1
  BY <1>2, FS_RemoveElement
<1>4. before \cap ok \in SUBSET ok
  OBVIOUS
<1>5. CASE b \notin before
  <2>1. before \in SUBSET ok
    BY <1>5
  <2> HIDE DEF before, ok, rest
  <2>2. IsFiniteSet(before) /\ Cardinality(before) <= Cardinality(ok)
    BY <1>3, <2>1, FS_Subset
  <2>3. Cardinality(before) \in Nat
    BY <2>2, FS_CardinalityType
  <2>4. Position(policies, b, rest) = Cardinality(before)
    BY DEF Position, before, rest
  <2>5. Cardinality(before) + 2 <= Cardinality(Known)
    BY <1>1, <1>2, <1>3, <2>2, <2>3
  <2> QED BY <2>3, <2>4, <2>5 DEF rest
<1> QED
  <2>1. CASE b \in before
    <3>1. policies[b].order \in Int /\ b \in Nat
      BY SceneAssumption DEF TypeOK, PolicyMaps, Policies, Known
    <3>2. policies[b].order < policies[b].order \/ b < b
      BY <2>1
    <3> QED BY <3>1, <3>2
  <2> QED BY <1>5, <2>1

(* Every action leaves next_order above the orders of the applications it  *)
(* leaves known.                                                           *)
LEMMA NextOrderStaysOnTop ==
    ASSUME TypeOK, NextOrderOnTop, [Next]_vars
    PROVE  NextOrderOnTop'
<1> DEFINE OnTop(p, n) ==
        /\ n <= MaximumOrder
        /\ \A a \in Applications : p[a] # None => p[a].order < n \/ n = MaximumOrder
<1>1. OnTop(policies, next_order)
  BY DEF NextOrderOnTop, Known
<1>2. SUFFICES OnTop(policies', next_order')
  BY DEF NextOrderOnTop, Known
<1>3. /\ next_order \in Nat /\ next_order <= MaximumOrder /\ MaximumOrder \in Nat
      /\ policies \in PolicyMaps
  BY <1>1, PolicyAssumption DEF TypeOK
<1>4. CASE UNCHANGED <<policies, next_order>>
  BY <1>1, <1>4
<1>5. ASSUME NEW a \in Applications, NEW o \in Int, o <= MaximumOrder, NEW update,
             update.order = o, policies' = [policies EXCEPT ![a] = update],
             next_order' = next_order \/ next_order' = next_policy_order(o),
             next_order' >= next_order, next_order' >= next_policy_order(o)
      PROVE  OnTop(policies', next_order')
  <2>1. /\ next_policy_order(o) \in Int /\ next_policy_order(o) <= MaximumOrder
        /\ o < next_policy_order(o) \/ next_policy_order(o) = MaximumOrder
    BY <1>5, NextOrderType
  <2>2. next_order' \in Int /\ next_order' <= MaximumOrder
    BY <1>3, <1>5, <2>1
  <2> SUFFICES ASSUME NEW b \in Applications, policies'[b] # None
               PROVE  policies'[b].order < next_order' \/ next_order' = MaximumOrder
    BY <2>2
  <2>3. CASE b = a
    <3>1. policies'[b] = update
      BY <1>3, <1>5, <2>3 DEF PolicyMaps
    <3> QED BY <1>3, <1>5, <2>1, <2>2, <3>1
  <2>4. CASE b # a
    <3>1. policies'[b] = policies[b] /\ policies[b] # None
      BY <1>3, <1>5, <2>4 DEF PolicyMaps
    <3>2. policies[b].order \in Int
      BY <1>3, <3>1 DEF PolicyMaps, Policies
    <3>3. policies[b].order < next_order \/ next_order = MaximumOrder
      BY <1>1, <3>1
    <3> QED BY <1>3, <1>5, <2>2, <3>1, <3>2, <3>3
  <2> QED BY <2>3, <2>4
<1>6. ASSUME NEW c \in Connections, NEW i \in Identities, register_provider(c, i)
      PROVE  OnTop(policies', next_order')
  <2> DEFINE a == i.application_id
             update == [approved |-> ~require_approval, visible |-> TRUE,
                        order |-> next_order]
  <2>1. CASE policies[a] = None
    <3>1. policies' = [policies EXCEPT ![a] = update]
          /\ next_order' = next_policy_order(next_order)
      BY <1>6, <2>1 DEF register_provider
    <3>2. a \in Applications
      BY DEF Identities
    <3>3. next_policy_order(next_order) >= next_order
      BY <1>3 DEF next_policy_order
    <3>4. next_policy_order(next_order) \in Int /\ update.order = next_order
      BY <1>3, NextOrderType
    <3>5. next_order \in Int /\ next_order <= MaximumOrder
      BY <1>3
    <3>6. next_order' >= next_order /\ next_order' >= next_policy_order(next_order)
      BY <3>1, <3>3, <3>4
    <3> HIDE DEF update, OnTop, a
    <3> QED BY <1>5, <3>1, <3>2, <3>4, <3>5, <3>6
  <2>2. CASE policies[a] # None
    <3>1. UNCHANGED <<policies, next_order>>
      BY <1>6, <2>2 DEF register_provider
    <3> QED BY <1>4, <3>1
  <2> QED BY <2>1, <2>2
<1>7. ASSUME NEW a \in Applications, NEW approved \in BOOLEAN, NEW visible \in BOOLEAN,
             NEW order \in Orders, set_application_policy(a, approved, visible, order)
      PROVE  OnTop(policies', next_order')
  <2> DEFINE update == [approved |-> approved, visible |-> visible, order |-> order]
             above == next_policy_order(order)
  <2>1. order \in Int /\ order <= MaximumOrder
    BY StoreAssumption
  <2>2. above \in Int
    BY <2>1, NextOrderType
  <2>3. /\ policies' = [policies EXCEPT ![a] = update]
        /\ next_order' = IF above > next_order THEN above ELSE next_order
    BY <1>7 DEF set_application_policy
  <2>4. /\ next_order' = next_order \/ next_order' = above
        /\ next_order' >= next_order /\ next_order' >= above
    <3> HIDE DEF above
    <3> QED BY <1>3, <2>2, <2>3
  <2>5. update.order = order
    OBVIOUS
  <2> HIDE DEF update, OnTop
  <2> QED BY <1>5, <2>1, <2>3, <2>4, <2>5
<1>8. ASSUME NEW a \in Applications, NEW position \in 0..Cardinality(Applications),
             set_application_position(a, position)
      PROVE  OnTop(policies', next_order')
  <2> DEFINE n == Cardinality(Known)
             Moved(b) ==
                 LET rest == Position(policies, b, Known \ {a})
                 IN  IF b = a THEN position ELSE IF rest < position THEN rest ELSE rest + 1
  <2>1. n \in Nat /\ n <= MaximumOrder
    <3>1. n \in Nat /\ n <= Cardinality(Applications)
      BY KnownIsFinite
    <3>2. Cardinality(Applications) \in Nat
      BY SceneAssumption, FS_CardinalityType
    <3> HIDE DEF n
    <3> QED BY <1>3, <3>1, <3>2, PolicyAssumption
  <2>2. /\ policies' = [b \in Applications |->
               IF b \in Known THEN [policies[b] EXCEPT !.order = Moved(b)] ELSE None]
        /\ next_order' = n /\ position < n /\ a \in Known
    BY <1>8, KnownIsPresent DEF set_application_position, Renumbered
  <2>3. position \in Nat
    BY SceneAssumption, FS_CardinalityType
  <2>4. \A b \in Known : Moved(b) \in Int /\ Moved(b) < n
    <3> TAKE b \in Known
    <3>1. CASE b = a
      BY <2>2, <2>3, <3>1
    <3>2. CASE b # a
      <4> DEFINE rest == Position(policies, b, Known \ {a})
      <4>1. rest \in Nat /\ rest + 2 <= n
        BY <2>2, <3>2, PositionBound
      <4> HIDE DEF rest, n
      <4>2. Moved(b) = IF rest < position THEN rest ELSE rest + 1
        BY <3>2 DEF rest
      <4> QED BY <2>1, <2>2, <2>3, <4>1, <4>2
    <3> QED BY <3>1, <3>2
  <2> SUFFICES ASSUME NEW b \in Applications, policies'[b] # None
               PROVE  policies'[b].order < next_order'
    BY <2>1, <2>2
  <2>5. b \in Known
    BY <2>2
  <2>6. policies'[b] = [policies[b] EXCEPT !.order = Moved(b)]
    BY <2>2, <2>5
  <2>7. policies[b] \in Policies
    BY <1>3, <2>5 DEF Known, PolicyMaps
  <2>8. policies'[b].order = Moved(b)
    <3> HIDE DEF Moved
    <3> QED BY <2>6, <2>7 DEF Policies
  <2> QED BY <2>2, <2>4, <2>5, <2>8
<1>9. ASSUME Disconnect \/ Store \/ Release \/ Commit \/ SetEnabled \/ SetRequireApproval
             \/ UNCHANGED vars
      PROVE  UNCHANGED <<policies, next_order>>
  BY <1>9 DEF Disconnect, disconnect, Store, store_resource, Release, release_resource,
              Commit, commit, SetEnabled, set_enabled, SetRequireApproval,
              set_require_approval, policyVars, vars
<1> QED
  BY <1>4, <1>6, <1>7, <1>8, <1>9 DEF Next, Register, SetApplicationPolicy,
                                      SetApplicationPosition

(* A new application is layered above every application known before, and  *)
(* the counter never passes INT32_MAX.                                     *)
THEOREM NewApplicationsOnTop == Spec => []NextOrderOnTop
<1>1. Init => NextOrderOnTop
  <2> SUFFICES ASSUME Init PROVE NextOrderOnTop
    OBVIOUS
  <2>1. PICK loaded \in LoadedPolicies :
            policies = loaded.applications /\ next_order = LoadedOrder(loaded.applications)
    BY DEF Init
  <2>2. TypeOK /\ loaded \in OverlayPolicies
    BY InitTypeOK, StoreAssumption
  <2> SUFFICES ASSUME NEW a \in Known
               PROVE  policies[a].order < next_order \/ next_order = MaximumOrder
    BY <2>1, <2>2, LoadedOrderType DEF NextOrderOnTop
  <2>3. a \in Present(loaded.applications)
    BY <2>1, <2>2 DEF Known, Present, TypeOK, PolicyMaps
  <2>4. policies[a].order \in Int /\ policies[a].order <= MaximumOrder
    BY <2>1, <2>2, <2>3 DEF OverlayPolicies, BoundedMaps, PolicyMaps, Policies, Present
  <2>5. /\ next_order \in Nat /\ next_order <= MaximumOrder
        /\ next_policy_order(policies[a].order) <= next_order
    BY <2>1, <2>2, <2>3, LoadedOrderType
  <2>6. /\ next_policy_order(policies[a].order) \in Int
        /\ next_policy_order(policies[a].order) <= MaximumOrder
        /\ \/ policies[a].order < next_policy_order(policies[a].order)
           \/ next_policy_order(policies[a].order) = MaximumOrder
    BY <2>4, NextOrderType
  <2> QED BY <2>4, <2>5, <2>6, PolicyAssumption
<1>2. TypeOK /\ NextOrderOnTop /\ [Next]_vars => NextOrderOnTop'
  BY NextOrderStaysOnTop
<1> QED BY <1>1, <1>2, TypeCorrect, PTL DEF Spec

-----------------------------------------------------------------------------
(* The bytes of the resources.                                             *)

Stored(resources, p) == SumFunction([r \in Present(resources) |-> resources[r].bytes[p]])

(* A resource that is not there counts 0, so the sum over the stored ones  *)
(* is a sum over all ids.                                                  *)
LEMMA StoredIsTotal ==
    ASSUME NEW resources \in ResourceMaps, NEW p \in Planes
    PROVE  LET f == [r \in ResourceIds |-> BytesOf(resources[r], p)]
           IN  /\ Stored(resources, p) = Total(f, ResourceIds)
               /\ Stored(resources, p) \in Nat
               /\ \A r \in ResourceIds : f[r] \in Nat
<1> DEFINE f == [r \in ResourceIds |-> BytesOf(resources[r], p)]
           P == Present(resources)
<1>1. \A r \in ResourceIds : f[r] \in Nat
  BY SceneAssumption DEF ResourceMaps, BytesOf
<1>2. P \in SUBSET ResourceIds /\ IsFiniteSet(ResourceIds) /\ IsFiniteSet(P)
  BY SceneAssumption, FS_Subset DEF Present, ResourceMaps
<1>3. \A r \in P : f[r] = resources[r].bytes[p]
  BY DEF Present, BytesOf, ResourceMaps
<1>4. \A r \in ResourceIds \ P : f[r] = 0
  BY DEF Present, BytesOf, ResourceMaps
<1> HIDE DEF f, P
<1>5. Stored(resources, p) = Total(f, P)
  <2>1. [r \in P |-> resources[r].bytes[p]] = [r \in P |-> f[r]]
    BY <1>3
  <2> QED BY <2>1 DEF Stored, Total, P
<1>6. Total(f, ResourceIds \ P) = 0
  <2>1. IsFiniteSet(ResourceIds \ P)
    BY <1>2, FS_Difference
  <2> QED BY <1>4, <2>1, TotalOfZeros
<1>7. Total(f, ResourceIds) = Total(f, P) + Total(f, ResourceIds \ P)
  <2>1. IsFiniteSet(ResourceIds \ P) /\ P \cap (ResourceIds \ P) = {}
    BY <1>2, FS_Difference
  <2>2. P \cup (ResourceIds \ P) = ResourceIds
    BY <1>2
  <2>3. \A r \in P \cup (ResourceIds \ P) : f[r] \in Int
    BY <1>1, <1>2
  <2>4. Total(f, P \cup (ResourceIds \ P)) = Total(f, P) + Total(f, ResourceIds \ P)
    BY <1>2, <2>1, <2>3, TotalUnion
  <2>5. Total(f, P \cup (ResourceIds \ P)) = Total(f, ResourceIds)
    BY <2>2, Zenon
  <2> QED BY <2>4, <2>5
<1>8. Total(f, P) \in Nat
  BY <1>1, <1>2, TotalOfPart
<1>9. Stored(resources, p) = Total(f, ResourceIds)
  BY <1>5, <1>6, <1>7, <1>8
<1>10. Stored(resources, p) \in Nat
  BY <1>5, <1>8
<1> QED BY <1>1, <1>9, <1>10 DEF f

(* Putting x in the place of a resource, or nothing, changes the sum by    *)
(* their difference.                                                       *)
LEMMA StoredChanged ==
    ASSUME NEW resources \in ResourceMaps, NEW r \in ResourceIds,
           NEW changed \in ResourceMaps, NEW p \in Planes,
           \A q \in ResourceIds \ {r} : changed[q] = resources[q]
    PROVE  /\ Stored(changed, p)
                  = Stored(resources, p) - BytesOf(resources[r], p) + BytesOf(changed[r], p)
           /\ BytesOf(resources[r], p) \in Nat /\ BytesOf(changed[r], p) \in Nat
<1> DEFINE f == [q \in ResourceIds |-> BytesOf(resources[q], p)]
           g == [q \in ResourceIds |-> BytesOf(changed[q], p)]
<1>2. /\ Stored(resources, p) = Total(f, ResourceIds)
      /\ \A q \in ResourceIds : f[q] \in Nat
  BY StoredIsTotal
<1>3. /\ Stored(changed, p) = Total(g, ResourceIds)
      /\ \A q \in ResourceIds : g[q] \in Nat
  BY StoredIsTotal
<1>4. \A q \in ResourceIds \ {r} : g[q] = f[q]
  OBVIOUS
<1>5. f[r] = BytesOf(resources[r], p) /\ g[r] = BytesOf(changed[r], p)
  OBVIOUS
<1> HIDE DEF f, g
<1>6. Total(g, ResourceIds) = Total(f, ResourceIds) - f[r] + g[r]
  <2>1. \A q \in ResourceIds : f[q] \in Int /\ g[q] \in Int
    BY <1>2, <1>3
  <2>2. IsFiniteSet(ResourceIds) /\ r \in ResourceIds
    BY SceneAssumption
  <2> QED BY ONLY <1>4, <2>1, <2>2, TotalChanged
<1>7. f[r] \in Nat /\ g[r] \in Nat
  BY <1>2, <1>3
<1> QED BY <1>2, <1>3, <1>5, <1>6, <1>7

(* The accounts of the store: "ps" are its providers and "total" its byte  *)
(* counters.  Beside what BytesAccounted says, they bound the number of    *)
(* providers and of resources, without which no sum is over a finite set.  *)
Accounts(ps, total) ==
    /\ IsFiniteSet(Present(ps)) /\ Cardinality(Present(ps)) <= MaximumProviders
    /\ \A c \in Present(ps) : Cardinality(Present(ps[c].resources)) <= MaximumResources
    /\ \A p \in Planes :
           /\ \A c \in Present(ps) :
                  /\ ps[c].bytes[p] = Stored(ps[c].resources, p)
                  /\ ps[c].bytes[p] <= MaximumProviderBytes[p]
           /\ total[p] = Total([c \in Connections |-> ps[c].bytes[p]], Present(ps))
           /\ total[p] <= MaximumGlobalBytes[p]

(* A provider that registers has stored nothing.                           *)
LEMMA ProviderAdded ==
    ASSUME NEW ps \in [Connections -> ProviderStates \cup {None}],
           NEW total \in [Planes -> Int], Accounts(ps, total),
           NEW c \in Connections, ps[c] = None, Cardinality(Present(ps)) < MaximumProviders,
           NEW qs \in [Connections -> ProviderStates \cup {None}],
           \A d \in Connections \ {c} : qs[d] = ps[d],
           qs[c] \in ProviderStates, Present(qs[c].resources) = {},
           qs[c].bytes = [p \in Planes |-> 0]
    PROVE  Accounts(qs, total)
<1> DEFINE S == Present(ps)
           x == qs[c]
<1>1. /\ Present(qs) = S \cup {c} /\ c \notin S /\ x \in ProviderStates
      /\ \A d \in Connections \ {c} : qs[d] = ps[d]
  BY StoreAssumption DEF Present
<1>2. IsFiniteSet(S) /\ Cardinality(S) \in Nat
  BY FS_CardinalityType DEF Accounts
<1>3. S \subseteq Connections /\ \A d \in S : ps[d] \in ProviderStates
  BY DEF Present
<1> HIDE DEF S
<1>4. IsFiniteSet(Present(qs)) /\ Cardinality(Present(qs)) = Cardinality(S) + 1
  BY <1>1, <1>2, FS_AddElement
<1>5. Cardinality(Present(qs)) <= MaximumProviders
  BY <1>2, <1>4, SceneAssumption DEF S
<1>6. Cardinality(Present(x.resources)) <= MaximumResources
  BY FS_EmptySet, SceneAssumption
<1>7. ASSUME NEW p \in Planes
      PROVE  /\ x.bytes[p] = Stored(x.resources, p)
             /\ x.bytes[p] <= MaximumProviderBytes[p]
             /\ total[p] = Total([d \in Connections |-> qs[d].bytes[p]], Present(qs))
  <2> DEFINE f == [d \in Connections |-> ps[d].bytes[p]]
             g == [d \in Connections |-> qs[d].bytes[p]]
  <2>1. Stored(x.resources, p) = 0
    <3>1. Stored(x.resources, p) = Total([r \in ResourceIds |-> x.resources[r].bytes[p]], {})
      <4>1. [r \in Present(x.resources) |-> x.resources[r].bytes[p]]
                = [r \in {} |-> [q \in ResourceIds |-> x.resources[q].bytes[p]][r]]
        OBVIOUS
      <4> QED BY <4>1, Zenon DEF Stored, Total
    <3> QED BY <3>1, SumOfNone
  <2>2. x.bytes[p] = 0
    OBVIOUS
  <2>3. 0 <= MaximumProviderBytes[p]
    BY SceneAssumption
  <2>4. /\ g[c] = 0 /\ \A d \in S : g[d] = f[d]
        /\ \A d \in S \cup {c} : g[d] \in Int
    BY <1>1, <1>3, <2>2 DEF ProviderStates
  <2> HIDE DEF f, g
  <2>5. Total(g, S \cup {c}) = Total(g, S) + g[c]
    <3>1. IsFiniteSet(S) /\ c \notin S
      BY <1>1, <1>2
    <3>2. \A d \in S \cup {c} : g[d] \in Int
      BY <2>4
    <3> QED BY ONLY <3>1, <3>2, TotalAdd
  <2>6. Total(g, S) = Total(f, S)
    BY <2>4, TotalSame
  <2>7. Total(g, Present(qs)) = Total(g, S \cup {c})
    BY <1>1, Zenon
  <2>8. total[p] = Total(f, S) /\ total[p] \in Int
    BY DEF Accounts, S, f
  <2>9. total[p] = Total(g, Present(qs))
    BY <2>4, <2>5, <2>6, <2>7, <2>8
  <2> QED BY <2>1, <2>2, <2>3, <2>9 DEF g
<1>8. \A d \in Present(qs) : d = c \/ (d \in S /\ qs[d] = ps[d])
  BY <1>1, <1>3
<1>9. \A d \in Present(qs) : Cardinality(Present(qs[d].resources)) <= MaximumResources
  BY <1>6, <1>8 DEF Accounts, S
<1>10. ASSUME NEW p \in Planes, NEW d \in Present(qs)
       PROVE  /\ qs[d].bytes[p] = Stored(qs[d].resources, p)
              /\ qs[d].bytes[p] <= MaximumProviderBytes[p]
  <2>1. CASE d = c
    BY <1>7, <2>1
  <2>2. CASE d \in S /\ qs[d] = ps[d]
    BY <2>2 DEF Accounts, S
  <2> QED BY <1>8, <2>1, <2>2
<1>11. \A p \in Planes : total[p] <= MaximumGlobalBytes[p]
  BY DEF Accounts
<1> QED BY <1>4, <1>5, <1>7, <1>9, <1>10, <1>11, Zenon DEF Accounts

(* A provider that leaves takes its bytes along.                           *)
LEMMA ProviderRemoved ==
    ASSUME NEW ps \in [Connections -> ProviderStates \cup {None}],
           NEW total \in [Planes -> Int], Accounts(ps, total), NEW c \in Present(ps),
           NEW qs \in [Connections -> ProviderStates \cup {None}],
           \A d \in Connections \ {c} : qs[d] = ps[d],
           qs[c] = None, NEW left, \A p \in Planes : left[p] = total[p] - ps[c].bytes[p]
    PROVE  Accounts(qs, left)
<1> DEFINE S == Present(ps)
<1>1. /\ \A d \in Connections \ {c} : qs[d] = ps[d]
      /\ Present(qs) = S \ {c} /\ S = Present(qs) \cup {c} /\ c \in S /\ c \notin Present(qs)
  BY DEF Present
<1>2. IsFiniteSet(S) /\ Cardinality(S) \in Nat
  BY FS_CardinalityType DEF Accounts
<1>3. S \subseteq Connections /\ \A d \in S : ps[d] \in ProviderStates
  BY DEF Present
<1> HIDE DEF S
<1>4. IsFiniteSet(Present(qs)) /\ Cardinality(Present(qs)) = Cardinality(S) - 1
  <2>1. IsFiniteSet(S \ {c}) /\ Cardinality(S \ {c}) = Cardinality(S) - 1
    BY <1>1, <1>2, FS_RemoveElement
  <2> QED BY <1>1, <2>1, Zenon
<1>5. Cardinality(Present(qs)) <= MaximumProviders
  BY <1>2, <1>4, SceneAssumption DEF S, Accounts
<1>7. ASSUME NEW p \in Planes
      PROVE  /\ left[p] = Total([d \in Connections |-> qs[d].bytes[p]], Present(qs))
             /\ left[p] <= MaximumGlobalBytes[p]
  <2> DEFINE f == [d \in Connections |-> ps[d].bytes[p]]
             g == [d \in Connections |-> qs[d].bytes[p]]
             T == Present(qs)
  <2>1. ps[c].bytes[p] \in Nat
    <3>1. ps[c].bytes[p] = Stored(ps[c].resources, p)
      BY <1>1 DEF Accounts, S
    <3>2. ps[c].resources \in ResourceMaps
      BY <1>1, <1>3 DEF ProviderStates
    <3> QED BY <3>1, <3>2, StoredIsTotal
  <2>2. /\ f[c] = ps[c].bytes[p] /\ \A d \in T : g[d] = f[d]
        /\ \A d \in T \cup {c} : f[d] \in Int
    BY <1>1, <1>3 DEF ProviderStates
  <2> HIDE DEF f, g, T
  <2>3. Total(f, T \cup {c}) = Total(f, T) + f[c] /\ Total(f, T) \in Int
    BY <1>1, <1>4, <2>2, TotalAdd, SumType DEF T
  <2>4. Total(g, T) = Total(f, T)
    BY <2>2, TotalSame
  <2>5. Total(f, S) = Total(f, T \cup {c})
    BY <1>1, Zenon DEF T
  <2>6. total[p] = Total(f, S) /\ total[p] \in Int /\ total[p] <= MaximumGlobalBytes[p]
    BY DEF Accounts, S, f
  <2>7. left[p] = Total(g, T)
    BY <2>1, <2>2, <2>3, <2>4, <2>5, <2>6
  <2>8. left[p] <= MaximumGlobalBytes[p]
    BY <2>1, <2>6, SceneAssumption
  <2> QED BY <2>7, <2>8 DEF g, T
<1>8. \A d \in Present(qs) : d \in S /\ qs[d] = ps[d]
  BY <1>1, <1>3
<1>9. \A d \in Present(qs) : Cardinality(Present(qs[d].resources)) <= MaximumResources
  BY <1>8 DEF Accounts, S
<1>10. \A p \in Planes : \A d \in Present(qs) :
           /\ qs[d].bytes[p] = Stored(qs[d].resources, p)
           /\ qs[d].bytes[p] <= MaximumProviderBytes[p]
  BY <1>8 DEF Accounts, S
<1> QED BY <1>4, <1>5, <1>7, <1>9, <1>10, Zenon DEF Accounts

(* A provider whose own account is right and whose bytes are counted.      *)
LEMMA ProviderChanged ==
    ASSUME NEW ps \in [Connections -> ProviderStates \cup {None}],
           NEW total \in [Planes -> Int], Accounts(ps, total), NEW c \in Present(ps),
           NEW qs \in [Connections -> ProviderStates \cup {None}],
           \A d \in Connections \ {c} : qs[d] = ps[d],
           qs[c] \in ProviderStates, Cardinality(Present(qs[c].resources)) <= MaximumResources,
           NEW new \in [Planes -> Int],
           \A p \in Planes :
               /\ qs[c].bytes[p] = Stored(qs[c].resources, p)
               /\ qs[c].bytes[p] <= MaximumProviderBytes[p]
               /\ new[p] = total[p] - ps[c].bytes[p] + qs[c].bytes[p]
               /\ new[p] <= MaximumGlobalBytes[p]
    PROVE  Accounts(qs, new)
<1> DEFINE S == Present(ps)
           x == qs[c]
<1>1. /\ Present(qs) = S /\ c \in S /\ x \in ProviderStates
      /\ \A d \in Connections \ {c} : qs[d] = ps[d]
  BY StoreAssumption DEF Present
<1>2. IsFiniteSet(S) /\ Cardinality(S) <= MaximumProviders
  BY DEF Accounts
<1>3. S \subseteq Connections /\ \A d \in S : ps[d] \in ProviderStates
  BY DEF Present
<1> HIDE DEF S
<1>4. ASSUME NEW p \in Planes
      PROVE  new[p] = Total([d \in Connections |-> qs[d].bytes[p]], Present(qs))
  <2> DEFINE f == [d \in Connections |-> ps[d].bytes[p]]
             g == [d \in Connections |-> qs[d].bytes[p]]
  <2>1. /\ f[c] = ps[c].bytes[p] /\ g[c] = x.bytes[p]
        /\ \A d \in S \ {c} : g[d] = f[d]
        /\ \A d \in S : f[d] \in Int /\ g[d] \in Int
    BY <1>1, <1>3 DEF ProviderStates
  <2>2. new[p] = total[p] - ps[c].bytes[p] + x.bytes[p]
    OBVIOUS
  <2>3. total[p] = Total(f, S)
    BY DEF Accounts, S
  <2> HIDE DEF f, g
  <2>4. Total(g, S) = Total(f, S) - f[c] + g[c]
    BY <1>1, <1>2, <2>1, TotalChanged
  <2>5. new[p] = Total(g, S)
    BY <2>1, <2>2, <2>3, <2>4
  <2> QED BY <1>1, <2>5 DEF g
<1>5. \A d \in Present(qs) : d = c \/ (d \in S /\ qs[d] = ps[d])
  BY <1>1, <1>3
<1>6. ASSUME NEW d \in Present(qs)
      PROVE  /\ Cardinality(Present(qs[d].resources)) <= MaximumResources
             /\ \A p \in Planes : /\ qs[d].bytes[p] = Stored(qs[d].resources, p)
                                  /\ qs[d].bytes[p] <= MaximumProviderBytes[p]
  <2>1. CASE d = c
    BY <1>1, <2>1
  <2>2. CASE d \in S /\ qs[d] = ps[d]
    BY <2>2 DEF Accounts, S
  <2> QED BY <1>5, <2>1, <2>2
<1>7. \A p \in Planes : new[p] <= MaximumGlobalBytes[p]
  OBVIOUS
<1>8. Accounts(qs, new)
  BY <1>1, <1>2, <1>4, <1>6, <1>7 DEF Accounts
<1> QED BY <1>8

(* A resource that is stored, replaced or released: what the counters gain *)
(* is the difference of the two resources.                                 *)
LEMMA ResourceChanged ==
    ASSUME NEW ps \in [Connections -> ProviderStates \cup {None}],
           NEW total \in [Planes -> Int], Accounts(ps, total), NEW c \in Present(ps),
           NEW qs \in [Connections -> ProviderStates \cup {None}],
           \A d \in Connections \ {c} : qs[d] = ps[d],
           qs[c] \in ProviderStates, Cardinality(Present(qs[c].resources)) <= MaximumResources,
           NEW r \in ResourceIds,
           \A q \in ResourceIds \ {r} : qs[c].resources[q] = ps[c].resources[q],
           NEW new \in [Planes -> Int],
           \A p \in Planes :
               /\ qs[c].bytes[p] = ps[c].bytes[p] - BytesOf(ps[c].resources[r], p)
                                      + BytesOf(qs[c].resources[r], p)
               /\ qs[c].bytes[p] <= MaximumProviderBytes[p]
               /\ new[p] = total[p] - BytesOf(ps[c].resources[r], p)
                              + BytesOf(qs[c].resources[r], p)
               /\ new[p] <= MaximumGlobalBytes[p]
    PROVE  Accounts(qs, new)
<1> DEFINE x == qs[c]
<1>1. /\ ps[c].resources \in ResourceMaps /\ x.resources \in ResourceMaps
      /\ \A q \in ResourceIds \ {r} : x.resources[q] = ps[c].resources[q]
  BY DEF Present, ProviderStates, ResourceMaps
<1>2. ASSUME NEW p \in Planes
      PROVE  /\ x.bytes[p] = Stored(x.resources, p)
             /\ x.bytes[p] <= MaximumProviderBytes[p]
             /\ new[p] = total[p] - ps[c].bytes[p] + x.bytes[p]
             /\ new[p] <= MaximumGlobalBytes[p]
  <2> DEFINE before == BytesOf(ps[c].resources[r], p)
             after == BytesOf(x.resources[r], p)
             stored == Stored(ps[c].resources, p)
  <2>1. ps[c].bytes[p] = stored
    BY DEF Accounts
  <2>2. Stored(x.resources, p) = stored - before + after /\ before \in Nat /\ after \in Nat
    <3> DEFINE old == ps[c].resources
               changed == x.resources
    <3>1. /\ old \in ResourceMaps /\ changed \in ResourceMaps /\ r \in ResourceIds
          /\ \A q \in ResourceIds \ {r} : changed[q] = old[q]
      BY <1>1
    <3>2. p \in Planes
      OBVIOUS
    <3> HIDE DEF old, changed
    <3>3. /\ Stored(changed, p)
                 = Stored(old, p) - BytesOf(old[r], p) + BytesOf(changed[r], p)
          /\ BytesOf(old[r], p) \in Nat /\ BytesOf(changed[r], p) \in Nat
      BY ONLY <3>1, <3>2, StoredChanged
    <3> QED BY <1>1, <3>3 DEF old, changed
  <2>3. stored \in Nat /\ total[p] \in Int
    BY <1>1, StoredIsTotal
  <2>4. /\ x.bytes[p] = ps[c].bytes[p] - before + after
        /\ new[p] = total[p] - before + after
        /\ x.bytes[p] <= MaximumProviderBytes[p] /\ new[p] <= MaximumGlobalBytes[p]
    OBVIOUS
  <2> HIDE DEF before, after, stored, x
  <2> QED BY <2>1, <2>2, <2>3, <2>4
<1> QED BY <1>2, ProviderChanged

(* Every operation keeps the accounts: what it adds to the two counters or *)
(* takes from them is what it adds to the stored resources or takes away.  *)
LEMMA NextAccounts ==
    ASSUME TypeOK, Accounts(providers, resource_bytes), [Next]_vars
    PROVE  Accounts(providers', resource_bytes')
<1> DEFINE Typed == /\ providers \in [Connections -> ProviderStates \cup {None}]
                    /\ resource_bytes \in [Planes -> Int]
           Elsewhere(c) == \A d \in Connections \ {c} : providers'[d] = providers[d]
<1>1. Typed /\ Typed'
  BY NextTypeOK DEF TypeOK
<1>2. Registered = Present(providers)
  BY <1>1 DEF Registered, Present
<1>3. ASSUME NEW c \in Connections, NEW i \in Identities, register_provider(c, i)
      PROVE  Accounts(providers', resource_bytes')
  <2>1. /\ providers'[c].resources = [r \in ResourceIds |-> None]
        /\ providers'[c].bytes = [p \in Planes |-> 0]
        /\ Elsewhere(c) /\ UNCHANGED resource_bytes
    BY <1>1, <1>3 DEF register_provider
  <2>2. providers[c] = None /\ Cardinality(Present(providers)) < MaximumProviders
    BY <1>2, <1>3 DEF register_provider, CanRegister
  <2>3. providers'[c] \in ProviderStates
    BY <1>3, RegistrationType
  <2>4. Present(providers'[c].resources) = {}
    BY <2>1 DEF Present
  <2>5. Accounts(providers', resource_bytes)
    BY <1>1, <2>1, <2>2, <2>3, <2>4, ProviderAdded
  <2> QED BY <2>1, <2>5
<1>4. ASSUME NEW c \in Connections, disconnect(c)
      PROVE  Accounts(providers', resource_bytes')
  <2>1. /\ providers'[c] = None /\ Elsewhere(c) /\ c \in Present(providers)
        /\ \A p \in Planes : resource_bytes'[p] = resource_bytes[p] - providers[c].bytes[p]
    BY <1>1, <1>2, <1>4 DEF disconnect
  <2> QED BY <1>1, <2>1, ProviderRemoved
<1>6. ASSUME NEW c \in Registered, NEW r \in ResourceIds, NEW x \in Resources,
             store_resource(c, r, x)
      PROVE  Accounts(providers', resource_bytes')
  <2> DEFINE old == providers[c]
             state == providers'[c]
             replaced == old.resources[r]
  <2>1. c \in Present(providers) /\ old \in ProviderStates
    BY <1>1, <1>2 DEF Present
  <2>2. state \in ProviderStates
    BY <1>6, StoreType
  <2>3. /\ Elsewhere(c)
        /\ state.resources = [old.resources EXCEPT ![r] = x]
        /\ state.bytes = [p \in Planes |-> old.bytes[p] - BytesOf(replaced, p) + BytesOf(x, p)]
        /\ resource_bytes' = [p \in Planes |->
               resource_bytes[p] - BytesOf(replaced, p) + BytesOf(x, p)]
    <3> DEFINE bytes == [p \in Planes |-> old.bytes[p] - BytesOf(replaced, p) + BytesOf(x, p)]
               new == [old EXCEPT !.resources = [old.resources EXCEPT ![r] = x], !.bytes = bytes]
    <3>1. /\ providers' = [providers EXCEPT ![c] = new]
          /\ resource_bytes' = [p \in Planes |->
                 resource_bytes[p] - BytesOf(replaced, p) + BytesOf(x, p)]
      BY <1>1, <1>6, <2>1 DEF store_resource, ProviderStates
    <3>2. new.resources = [old.resources EXCEPT ![r] = x] /\ new.bytes = bytes
      BY <2>1 DEF ProviderStates
    <3> HIDE DEF new, bytes
    <3>3. state = new /\ Elsewhere(c)
      BY <1>1, <3>1 DEF Registered
    <3> QED BY <3>1, <3>2, <3>3 DEF bytes
  <2>4. \A p \in Planes :
            /\ FitsReplacement(old.bytes[p], BytesOf(replaced, p), x.bytes[p],
                               MaximumProviderBytes[p])
            /\ FitsReplacement(resource_bytes[p], BytesOf(replaced, p), x.bytes[p],
                               MaximumGlobalBytes[p])
    BY <1>6 DEF store_resource, CanStore
  <2>5. Cardinality(Present(state.resources)) <= MaximumResources
    <3>1. IsFiniteSet(Present(old.resources)) /\ Cardinality(Present(old.resources)) \in Nat
      BY <2>1, SceneAssumption, FS_Subset, FS_CardinalityType
      DEF ProviderStates, ResourceMaps, Present
    <3>2. Present(state.resources) = Present(old.resources) \cup {r}
      BY <2>1, <2>3, SceneAssumption DEF Present, ProviderStates, ResourceMaps
    <3>3. CASE replaced # None
      <4>1. Present(state.resources) = Present(old.resources)
        BY <2>1, <3>2, <3>3 DEF Present, ProviderStates, ResourceMaps
      <4>2. Cardinality(Present(old.resources)) <= MaximumResources
        BY <2>1 DEF Accounts
      <4> QED BY <4>1, <4>2, Zenon
    <3>4. CASE replaced = None
      <4>1. Cardinality(Present(old.resources)) < MaximumResources
        BY <1>6, <3>4 DEF store_resource, CanStore
      <4>2. r \notin Present(old.resources)
        BY <3>4 DEF Present
      <4>3. Cardinality(Present(old.resources) \cup {r}) = Cardinality(Present(old.resources)) + 1
        BY <3>1, <4>2, FS_AddElement
      <4>4. Cardinality(Present(old.resources) \cup {r}) <= MaximumResources
        BY <3>1, <4>1, <4>3, SceneAssumption
      <4> QED BY <3>2, <4>4, Zenon
    <3> QED BY <3>3, <3>4
  <2>6. ASSUME NEW p \in Planes
        PROVE  /\ state.bytes[p] = old.bytes[p] - BytesOf(replaced, p) + BytesOf(x, p)
               /\ state.bytes[p] <= MaximumProviderBytes[p]
               /\ resource_bytes'[p] = resource_bytes[p] - BytesOf(replaced, p) + BytesOf(x, p)
               /\ resource_bytes'[p] <= MaximumGlobalBytes[p]
    <3>1. old.bytes[p] \in Int /\ resource_bytes[p] \in Int
      BY <1>1, <2>1 DEF ProviderStates
    <3>2. old.resources \in ResourceMaps
      BY <2>1 DEF ProviderStates
    <3>3. BytesOf(replaced, p) \in Nat /\ BytesOf(x, p) \in Nat
      BY <3>2, SceneAssumption DEF ResourceMaps, BytesOf
    <3>4. BytesOf(x, p) = x.bytes[p]
      BY SceneAssumption DEF BytesOf
    <3>5. MaximumProviderBytes[p] \in Nat /\ MaximumGlobalBytes[p] \in Nat
      BY SceneAssumption
    <3>6. /\ state.bytes[p] = old.bytes[p] - BytesOf(replaced, p) + BytesOf(x, p)
          /\ resource_bytes'[p] = resource_bytes[p] - BytesOf(replaced, p) + BytesOf(x, p)
      BY <2>3
    <3> HIDE DEF old, state, replaced
    <3> QED BY <2>4, <3>1, <3>3, <3>4, <3>5, <3>6 DEF FitsReplacement
  <2>7. /\ \A q \in ResourceIds \ {r} : state.resources[q] = old.resources[q]
        /\ state.resources[r] = x
    BY <2>1, <2>3 DEF ProviderStates, ResourceMaps
  <2>8. \A p \in Planes :
            /\ state.bytes[p] = old.bytes[p] - BytesOf(old.resources[r], p)
                                   + BytesOf(state.resources[r], p)
            /\ state.bytes[p] <= MaximumProviderBytes[p]
            /\ resource_bytes'[p] = resource_bytes[p] - BytesOf(old.resources[r], p)
                                        + BytesOf(state.resources[r], p)
            /\ resource_bytes'[p] <= MaximumGlobalBytes[p]
    BY <2>6, <2>7
  <2>9. \A d \in Connections \ {c} : providers'[d] = providers[d]
    BY <2>3
  <2>10. \A q \in ResourceIds \ {r} : state.resources[q] = old.resources[q]
    BY <2>7
  <2>11. /\ providers \in [Connections -> ProviderStates \cup {None}]
         /\ resource_bytes \in [Planes -> Int]
         /\ providers' \in [Connections -> ProviderStates \cup {None}]
         /\ resource_bytes' \in [Planes -> Int]
    BY <1>1
  <2> QED
    BY ONLY <2>1, <2>2, <2>5, <2>8, <2>9, <2>10, <2>11, r \in ResourceIds,
       Accounts(providers, resource_bytes), ResourceChanged
<1>7. ASSUME NEW c \in Registered, NEW r \in ResourceIds, release_resource(c, r)
      PROVE  Accounts(providers', resource_bytes')
  <2> DEFINE old == providers[c]
             state == providers'[c]
             released == old.resources[r]
  <2>1. c \in Present(providers) /\ old \in ProviderStates
    BY <1>1, <1>2 DEF Present
  <2>2. state \in ProviderStates
    BY <1>7, ReleaseType
  <2>3. /\ Elsewhere(c)
        /\ state.resources = [old.resources EXCEPT ![r] = None]
        /\ state.bytes = [p \in Planes |-> old.bytes[p] - BytesOf(released, p)]
        /\ resource_bytes' = [p \in Planes |-> resource_bytes[p] - BytesOf(released, p)]
    <3> DEFINE bytes == [p \in Planes |-> old.bytes[p] - BytesOf(released, p)]
               new == [old EXCEPT !.resources = [old.resources EXCEPT ![r] = None],
                                  !.bytes = bytes]
    <3>1. /\ providers' = [providers EXCEPT ![c] = new]
          /\ resource_bytes' = [p \in Planes |-> resource_bytes[p] - BytesOf(released, p)]
      BY <1>1, <1>7, <2>1 DEF release_resource, ProviderStates
    <3>2. new.resources = [old.resources EXCEPT ![r] = None] /\ new.bytes = bytes
      BY <2>1 DEF ProviderStates
    <3> HIDE DEF new, bytes
    <3>3. state = new /\ Elsewhere(c)
      BY <1>1, <3>1 DEF Registered
    <3> QED BY <3>1, <3>2, <3>3 DEF bytes
  <2>4. Cardinality(Present(state.resources)) <= MaximumResources
    <3>1. Present(state.resources) \subseteq Present(old.resources)
      BY <2>1, <2>3 DEF Present, ProviderStates, ResourceMaps
    <3>2. IsFiniteSet(Present(old.resources)) /\ Cardinality(Present(old.resources)) \in Nat
      BY <2>1, SceneAssumption, FS_Subset, FS_CardinalityType
      DEF ProviderStates, ResourceMaps, Present
    <3>3. /\ Cardinality(Present(state.resources)) <= Cardinality(Present(old.resources))
          /\ Cardinality(Present(state.resources)) \in Nat
      BY <3>1, <3>2, FS_Subset, FS_CardinalityType
    <3>4. Cardinality(Present(old.resources)) <= MaximumResources
      BY <2>1 DEF Accounts
    <3> QED BY <3>2, <3>3, <3>4, SceneAssumption
  <2>5. ASSUME NEW p \in Planes
        PROVE  /\ state.bytes[p] = old.bytes[p] - BytesOf(released, p) + BytesOf(None, p)
               /\ state.bytes[p] <= MaximumProviderBytes[p]
               /\ resource_bytes'[p] = resource_bytes[p] - BytesOf(released, p) + BytesOf(None, p)
               /\ resource_bytes'[p] <= MaximumGlobalBytes[p]
    <3>1. old.bytes[p] \in Int /\ resource_bytes[p] \in Int
      BY <1>1, <2>1 DEF ProviderStates
    <3>2. old.resources \in ResourceMaps
      BY <2>1 DEF ProviderStates
    <3>3. BytesOf(released, p) \in Nat /\ BytesOf(None, p) = 0
      BY <3>2, SceneAssumption DEF ResourceMaps, BytesOf
    <3>4. old.bytes[p] <= MaximumProviderBytes[p] /\ resource_bytes[p] <= MaximumGlobalBytes[p]
      BY <2>1 DEF Accounts
    <3>5. MaximumProviderBytes[p] \in Nat /\ MaximumGlobalBytes[p] \in Nat
      BY SceneAssumption
    <3>6. /\ state.bytes[p] = old.bytes[p] - BytesOf(released, p)
          /\ resource_bytes'[p] = resource_bytes[p] - BytesOf(released, p)
      BY <2>3
    <3> HIDE DEF old, state, released
    <3> QED BY <3>1, <3>3, <3>4, <3>5, <3>6
  <2>7. /\ \A q \in ResourceIds \ {r} : state.resources[q] = old.resources[q]
        /\ state.resources[r] = None
    BY <2>1, <2>3 DEF ProviderStates, ResourceMaps
  <2>8. \A p \in Planes :
            /\ state.bytes[p] = old.bytes[p] - BytesOf(old.resources[r], p)
                                   + BytesOf(state.resources[r], p)
            /\ state.bytes[p] <= MaximumProviderBytes[p]
            /\ resource_bytes'[p] = resource_bytes[p] - BytesOf(old.resources[r], p)
                                        + BytesOf(state.resources[r], p)
            /\ resource_bytes'[p] <= MaximumGlobalBytes[p]
    BY <2>5, <2>7
  <2>9. Elsewhere(c)
    BY <2>3
  <2> QED BY <1>1, <2>1, <2>2, <2>4, <2>7, <2>8, <2>9, ResourceChanged
<1>8. ASSUME NEW c \in Registered, NEW id \in TransactionIds, NEW m \in Mutations,
             commit(c, id, m)
      PROVE  Accounts(providers', resource_bytes')
  <2> DEFINE old == providers[c]
             state == providers'[c]
  <2>1. c \in Present(providers) /\ old \in ProviderStates
    BY <1>1, <1>2 DEF Present
  <2>2. state \in ProviderStates
    BY <1>8, CommitType
  <2>3. /\ Elsewhere(c)
        /\ state.resources = old.resources /\ state.bytes = old.bytes
        /\ UNCHANGED resource_bytes
    BY <1>1, <1>8, <2>1 DEF commit, ProviderStates
  <2>4. Cardinality(Present(state.resources)) <= MaximumResources
    BY <2>1, <2>3 DEF Accounts
  <2>5. ASSUME NEW p \in Planes
        PROVE  /\ state.bytes[p] = Stored(state.resources, p)
               /\ state.bytes[p] <= MaximumProviderBytes[p]
               /\ resource_bytes[p] = resource_bytes[p] - old.bytes[p] + state.bytes[p]
               /\ resource_bytes[p] <= MaximumGlobalBytes[p]
    <3>1. old.bytes[p] \in Int /\ resource_bytes[p] \in Int
      BY <1>1, <2>1 DEF ProviderStates
    <3>2. /\ old.bytes[p] = Stored(old.resources, p)
          /\ old.bytes[p] <= MaximumProviderBytes[p]
          /\ resource_bytes[p] <= MaximumGlobalBytes[p]
      BY <2>1 DEF Accounts
    <3> HIDE DEF old, state
    <3> QED BY <2>3, <3>1, <3>2
  <2>6. Accounts(providers', resource_bytes)
    BY <1>1, <2>1, <2>2, <2>3, <2>4, <2>5, ProviderChanged
  <2> QED BY <2>3, <2>6
<1>9. ASSUME SetEnabled \/ SetRequireApproval \/ SetApplicationPolicy
               \/ SetApplicationPosition \/ UNCHANGED vars
      PROVE  Accounts(providers', resource_bytes')
  <2>1. UNCHANGED <<providers, resource_bytes>>
    BY <1>9 DEF SetEnabled, SetRequireApproval, SetApplicationPolicy,
                SetApplicationPosition, set_enabled, set_require_approval,
                set_application_policy, set_application_position, vars
  <2> QED BY <2>1
<1> QED
  BY <1>3, <1>4, <1>6, <1>7, <1>8, <1>9
  DEF Next, Register, Disconnect, Store, Release, Commit

(* The accounts of the state say what BytesAccounted says.                 *)
LEMMA AccountsAreExact ==
    ASSUME TypeOK, Accounts(providers, resource_bytes)
    PROVE  BytesAccounted
<1>1. /\ Registered = Present(providers)
      /\ \A c \in Registered : c \in Connections /\ providers[c] \in ProviderStates
  BY DEF TypeOK, Registered, Present
<1>2. ASSUME NEW p \in Planes
      PROVE  /\ \A c \in Registered :
                    /\ providers[c].bytes[p] = Stored(providers[c].resources, p)
                    /\ providers[c].bytes[p] <= MaximumProviderBytes[p]
             /\ resource_bytes[p]
                    = SumFunction([c \in Registered |-> Stored(providers[c].resources, p)])
             /\ resource_bytes[p] <= MaximumGlobalBytes[p]
  <2> DEFINE f == [c \in Connections |-> providers[c].bytes[p]]
  <2>1. /\ \A c \in Registered :
               /\ providers[c].bytes[p] = Stored(providers[c].resources, p)
               /\ providers[c].bytes[p] <= MaximumProviderBytes[p]
        /\ resource_bytes[p] = Total(f, Present(providers))
        /\ resource_bytes[p] <= MaximumGlobalBytes[p]
    BY <1>1 DEF Accounts
  <2>2. Total(f, Registered) = Total(f, Present(providers))
    BY <1>1, Zenon
  <2>3. [c \in Registered |-> f[c]] = [c \in Registered |-> Stored(providers[c].resources, p)]
    BY <1>1, <2>1
  <2>4. Total(f, Registered)
            = SumFunction([c \in Registered |-> Stored(providers[c].resources, p)])
    BY <2>3, Zenon DEF Total
  <2> QED BY <2>1, <2>2, <2>4
<1> QED BY <1>2 DEF BytesAccounted, Stored

(* The accounts hold in every reachable state.                             *)
LEMMA AccountsAreKept == Spec => []Accounts(providers, resource_bytes)
<1>1. Init => Accounts(providers, resource_bytes)
  <2> SUFFICES ASSUME Init PROVE Accounts(providers, resource_bytes)
    OBVIOUS
  <2>1. Present(providers) = {} /\ resource_bytes = [p \in Planes |-> 0]
    BY DEF Init, NoProviders, Present, NoBytes
  <2>2. IsFiniteSet({}) /\ Cardinality({}) <= MaximumProviders
    BY FS_EmptySet, SceneAssumption
  <2>3. ASSUME NEW p \in Planes
        PROVE  /\ resource_bytes[p]
                      = Total([c \in Connections |-> providers[c].bytes[p]], Present(providers))
               /\ resource_bytes[p] <= MaximumGlobalBytes[p]
    <3> DEFINE f == [c \in Connections |-> providers[c].bytes[p]]
    <3>1. Total(f, Present(providers)) = Total(f, {})
      BY <2>1, Zenon
    <3>2. Total(f, {}) = 0
      BY SumOfNone
    <3>3. resource_bytes[p] = 0 /\ 0 <= MaximumGlobalBytes[p]
      BY <2>1, SceneAssumption
    <3> QED BY <3>1, <3>2, <3>3
  <2> QED BY <2>1, <2>2, <2>3 DEF Accounts
<1>2. TypeOK /\ Accounts(providers, resource_bytes) /\ [Next]_vars
          => Accounts(providers, resource_bytes)'
  BY NextAccounts
<1> QED BY <1>1, <1>2, TypeCorrect, PTL DEF Spec

(* No drift of the counters: after any sequence of uploads, releases,      *)
(* registrations and disconnections they are the sums of what is stored,   *)
(* and within the limits.                                                  *)
THEOREM BytesAreAccounted == Spec => []BytesAccounted
<1>1. TypeOK /\ Accounts(providers, resource_bytes) => BytesAccounted
  BY AccountsAreExact
<1> QED BY <1>1, TypeCorrect, AccountsAreKept, PTL

=============================================================================
