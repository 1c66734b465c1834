-------------------------- MODULE StoreFeedProofs ---------------------------
(***************************************************************************)
(* What the scene store publishes: its cached snapshot is current, its     *)
(* retained changes are consecutive, a transaction applies once, what is   *)
(* visible fits the limits, and the store implements the change feed that  *)
(* the renderer sessions and SceneStream are about.                        *)
(***************************************************************************)
EXTENDS SceneStoreProofs

-----------------------------------------------------------------------------
(* Steps that record nothing.                                              *)

(* Nothing is recorded, and nothing that a renderer would see changes.     *)
Quiet ==
    /\ UNCHANGED feedVars
    /\ VisibleScenes' = VisibleScenes
    /\ VisibleOrder' = VisibleOrder

Recorded == \E kind, identity, provider : Record(kind, identity, provider)

(* The visible scenes stay when the same connections show the same scenes. *)
LEMMA SameScenes ==
    ASSUME \A r \in Connections :
               (r \in Registered' /\ Shown(r)') <=> (r \in Registered /\ Shown(r)),
           \A r \in Registered :
               Shown(r) => providers'[r].published = providers[r].published
    PROVE  VisibleScenes' = VisibleScenes
BY DEF VisibleScenes, Registered

(* What is visible belongs to an application that the user sees.           *)
LEMMA VisibleIsKnown ==
    ASSUME TypeOK, PublishedIsCommitted, NEW a \in ApplicationsOf(VisibleScenes)
    PROVE  a \in Applications /\ policies[a] # None /\ ProviderVisible(a)
<1>1. PICK c \in Registered : Shown(c) /\ a = providers[c].published.identity.application_id
  BY DEF ApplicationsOf, VisibleScenes
<1>2. c \in Connections /\ providers[c] \in ProviderStates
  BY <1>1 DEF Registered, TypeOK
<1>3. providers[c].published.identity = providers[c].identity
  <2> DEFINE provider == providers[c]
  <2>1. provider.published =
            PublishedScene(provider.identity, provider.elements, provider.resources)
    BY <1>1 DEF PublishedIsCommitted
  <2>2. PublishedScene(provider.identity, provider.elements, provider.resources).identity
            = provider.identity
    BY DEF PublishedScene
  <2> QED BY <2>1, <2>2
<1>4. a = providers[c].identity.application_id /\ providers[c].identity \in Identities
  BY <1>1, <1>2, <1>3 DEF ProviderStates
<1> QED BY <1>1, <1>4 DEF Shown, ProviderVisible, Identities

(* Nothing changes for a renderer when the policies stay as well.          *)
LEMMA SamePolicies ==
    ASSUME TypeOK, VisibleScenes' = VisibleScenes, UNCHANGED policies
    PROVE  VisibleOrder' = VisibleOrder
BY DEF VisibleOrder

(* A registration that shows nothing.                                      *)
LEMMA HiddenRegistration ==
    ASSUME TypeOK, PublishedIsCommitted, NEW c \in Connections, NEW i \in Identities,
           register_provider(c, i), ~Shown(c)'
    PROVE  Quiet
<1> DEFINE a == i.application_id
<1>1. a \in Applications /\ c \notin Registered
  BY DEF Identities, register_provider, CanRegister, Registered
<1>2. /\ UNCHANGED <<feedVars, enabled>>
      /\ \A r \in Registered : providers'[r] = providers[r]
      /\ Registered' \subseteq Registered \cup {c} /\ Registered \subseteq Registered'
      /\ providers'[c].identity = i
  BY <1>1, StoreAssumption
     DEF register_provider, RecordUpsertIfVisible, Registered, TypeOK
<1>3. ~ProviderVisible(a)'
  BY <1>2 DEF Shown
<1>4. /\ \A b \in Applications : b # a => policies'[b] = policies[b]
      /\ policies[a] # None => policies'[a] = policies[a]
  BY <1>1 DEF register_provider, TypeOK, PolicyMaps
<1>5. \A b \in Applications : ProviderVisible(b)' <=> ProviderVisible(b)
  BY <1>2, <1>3, <1>4 DEF ProviderVisible
<1>6. \A r \in Registered : providers[r].identity.application_id \in Applications
  BY DEF Registered, TypeOK, ProviderStates, Identities
<1>7. \A r \in Registered : Shown(r)' <=> Shown(r)
  BY <1>2, <1>5, <1>6 DEF Shown
<1>8. VisibleScenes' = VisibleScenes
  BY <1>2, <1>7, SameScenes
<1>9. \A b \in ApplicationsOf(VisibleScenes) : policies'[b] = policies[b]
  BY <1>4, VisibleIsKnown
<1>10. VisibleOrder' = VisibleOrder
  BY <1>8, <1>9 DEF VisibleOrder
<1> QED BY <1>2, <1>8, <1>10 DEF Quiet

(* A connection that shows nothing leaves, or commits.                     *)
LEMMA HiddenStep ==
    ASSUME TypeOK, NEW c \in Connections, c \in Registered, ~Shown(c), ~Shown(c)' \/ c \notin Registered',
           \A r \in Connections : r # c => providers'[r] = providers[r],
           UNCHANGED <<policyVars, feedVars>>
    PROVE  Quiet
<1>1. \A r \in Connections :
          (r \in Registered' /\ Shown(r)') <=> (r \in Registered /\ Shown(r))
  BY DEF Registered, Shown, ProviderVisible, policyVars
<1>2. \A r \in Registered :
          Shown(r) => providers'[r].published = providers[r].published
  BY DEF Registered
<1>3. VisibleScenes' = VisibleScenes
  BY <1>1, <1>2, SameScenes
<1>4. VisibleOrder' = VisibleOrder
  BY <1>3, SamePolicies DEF policyVars
<1> QED BY <1>3, <1>4 DEF Quiet

(* A resource operation touches no identity and no published scene.        *)
LEMMA ResourceStep ==
    ASSUME TypeOK, NEW c \in Connections, c \in Registered,
           providers'[c] # None,
           providers'[c].identity = providers[c].identity,
           providers'[c].published = providers[c].published,
           \A r \in Connections : r # c => providers'[r] = providers[r],
           UNCHANGED <<policyVars, feedVars>>
    PROVE  Quiet
<1>1. Registered' = Registered
  BY DEF Registered
<1>2. \A r \in Registered : /\ Shown(r)' <=> Shown(r)
                            /\ providers'[r].published = providers[r].published
  BY DEF Registered, Shown, ProviderVisible, policyVars
<1>3. VisibleScenes' = VisibleScenes
  BY <1>1, <1>2, SameScenes
<1>4. VisibleOrder' = VisibleOrder
  BY <1>3, SamePolicies DEF policyVars
<1> QED BY <1>3, <1>4 DEF Quiet

(* Every step of the store records one change or is not seen.              *)
LEMMA RecordedOrQuiet ==
    ASSUME TypeOK, PublishedIsCommitted, [Next]_vars, TypeOK'
    PROVE  Recorded \/ Quiet
<1>1. ASSUME NEW c \in Connections, NEW i \in Identities, register_provider(c, i)
      PROVE  Recorded \/ Quiet
  <2>1. CASE Shown(c)'
    BY <1>1, <2>1 DEF register_provider, RecordUpsertIfVisible, Recorded
  <2>2. CASE ~Shown(c)'
    BY <1>1, <2>2, HiddenRegistration
  <2> QED BY <2>1, <2>2
<1>2. ASSUME NEW c \in Connections, disconnect(c)
      PROVE  Recorded \/ Quiet
  <2>1. CASE Shown(c)
    BY <1>2, <2>1 DEF disconnect, Recorded
  <2>2. CASE ~Shown(c)
    <3>1. /\ c \in Registered /\ c \notin Registered'
          /\ \A r \in Connections : r # c => providers'[r] = providers[r]
          /\ UNCHANGED <<policyVars, feedVars>>
      BY <1>2, <2>2 DEF disconnect, TypeOK, Registered
    <3> QED BY <2>2, <3>1, HiddenStep
  <2> QED BY <2>1, <2>2
<1>3. ASSUME NEW c \in Registered, NEW r \in ResourceIds, NEW x \in Resources,
             store_resource(c, r, x)
      PROVE  Recorded \/ Quiet
  <2>1. c \in Connections /\ providers[c] \in ProviderStates
    BY DEF Registered, TypeOK
  <2>2. /\ providers'[c].identity = providers[c].identity
        /\ providers'[c].published = providers[c].published
        /\ \A k \in Connections : k # c => providers'[k] = providers[k]
        /\ UNCHANGED <<policyVars, feedVars>>
    BY <1>3, <2>1 DEF store_resource, TypeOK, ProviderStates
  <2>3. providers'[c] # None
    BY <1>3, StoreType, StoreAssumption
  <2> QED BY <2>1, <2>2, <2>3, ResourceStep
<1>4. ASSUME NEW c \in Registered, NEW r \in ResourceIds, release_resource(c, r)
      PROVE  Recorded \/ Quiet
  <2>1. c \in Connections /\ providers[c] \in ProviderStates
    BY DEF Registered, TypeOK
  <2>2. /\ providers'[c].identity = providers[c].identity
        /\ providers'[c].published = providers[c].published
        /\ \A k \in Connections : k # c => providers'[k] = providers[k]
        /\ UNCHANGED <<policyVars, feedVars>>
    BY <1>4, <2>1 DEF release_resource, TypeOK, ProviderStates
  <2>3. providers'[c] # None
    BY <1>4, ReleaseType, StoreAssumption
  <2> QED BY <2>1, <2>2, <2>3, ResourceStep
<1>5. ASSUME NEW c \in Registered, NEW id \in TransactionIds, NEW m \in Mutations,
             commit(c, id, m)
      PROVE  Recorded \/ Quiet
  <2>1. c \in Connections /\ providers[c] \in ProviderStates
    BY DEF Registered, TypeOK
  <2>2. CASE Shown(c)'
    BY <1>5, <2>2 DEF commit, RecordUpsertIfVisible, Recorded
  <2>3. CASE ~Shown(c)'
    <3>1. /\ providers'[c].identity = providers[c].identity
          /\ \A r \in Connections : r # c => providers'[r] = providers[r]
          /\ UNCHANGED <<policyVars, feedVars>>
      BY <1>5, <2>1, <2>3 DEF commit, RecordUpsertIfVisible, TypeOK, ProviderStates
    <3>2. ~Shown(c)
      BY <2>3, <3>1 DEF Shown, ProviderVisible, policyVars
    <3> QED BY <2>1, <2>3, <3>1, <3>2, HiddenStep
  <2> QED BY <2>2, <2>3
<1>6. ASSUME RecordReset
      PROVE  Recorded
  BY <1>6 DEF RecordReset, Recorded
<1>7. ASSUME NEW required \in BOOLEAN, set_require_approval(required)
      PROVE  Quiet
  BY <1>7 DEF set_require_approval, Quiet, VisibleScenes, VisibleOrder, Registered,
              Shown, ProviderVisible
<1>8. CASE UNCHANGED vars
  BY <1>8 DEF vars, feedVars, Quiet, VisibleScenes, VisibleOrder, Registered,
              Shown, ProviderVisible
<1> QED
  BY <1>1, <1>2, <1>3, <1>4, <1>5, <1>6, <1>7, <1>8
  DEF Next, Register, Disconnect, Store, Release, Commit, SetEnabled, set_enabled,
      SetRequireApproval, SetApplicationPolicy, set_application_policy,
      SetApplicationPosition, set_application_position

-----------------------------------------------------------------------------
(* The retained changes.                                                   *)

(* Retaining the newest of consecutive changes leaves consecutive changes. *)
LEMMA RecordedIsContiguous ==
    ASSUME TypeOK, FeedIsContiguous, Recorded
    PROVE  FeedIsContiguous'
<1>1. PICK kind, identity, provider : Record(kind, identity, provider)
  BY DEF Recorded
<1> DEFINE r == Change(revision + 1, kind, identity, provider)
           feed == Append(changes, r)
<1>2. revision \in Nat /\ changes \in Seq(ChangeRecords) /\ Len(changes) \in Nat
  BY DEF TypeOK
<1>3. RetainedLimit \in Nat \ {0}
  BY SceneAssumption DEF RetainedLimit
<1>4. r.revision = revision + 1
  BY DEF Change
<1>5. Len(feed) = Len(changes) + 1
  <2> HIDE DEF r
  <2> QED BY <1>2
<1>6. \A i \in 1..Len(feed) : feed[i].revision = (revision + 1) - Len(feed) + i
  <2> HIDE DEF r
  <2> TAKE i \in 1..Len(feed)
  <2>1. CASE i = Len(feed)
    BY <1>2, <1>4, <1>5, <2>1
  <2>2. CASE i # Len(feed)
    <3>1. i \in 1..Len(changes) /\ feed[i] = changes[i]
      BY <1>2, <1>5, <2>2
    <3> QED BY <1>2, <1>5, <3>1 DEF FeedIsContiguous
  <2> QED BY <2>1, <2>2
<1>7. revision' = revision + 1 /\ changes' = Retained(feed)
  BY <1>1 DEF Record
<1>8. Len(changes) = IF revision < RetainedLimit THEN revision ELSE RetainedLimit
  BY DEF FeedIsContiguous
<1>9. CASE Len(feed) > RetainedLimit
  <2> DEFINE first == Len(feed) - RetainedLimit + 1
  <2>1. changes' = SubSeq(feed, first, Len(feed))
    BY <1>7, <1>9 DEF Retained
  <2>2. feed \in Seq(ChangeRecords \cup {r})
    BY <1>2
  <2>3. first \in 1..Len(feed) /\ Len(feed) - first + 1 = RetainedLimit
    <3> HIDE DEF feed
    <3> QED BY <1>2, <1>3, <1>5, <1>9
  <2>4. Len(changes') = RetainedLimit
        /\ \A i \in 1..RetainedLimit : changes'[i] = feed[first + i - 1]
    <3> HIDE DEF feed, first
    <3> QED BY <1>2, <1>5, <2>1, <2>2, <2>3
  <2>5. \A i \in 1..RetainedLimit : first + i - 1 \in 1..Len(feed)
    <3> HIDE DEF feed
    <3> QED BY <1>2, <1>3, <1>5, <1>9
  <2>6. revision >= RetainedLimit
    <3> HIDE DEF feed
    <3> QED BY <1>2, <1>3, <1>5, <1>8, <1>9
  <2>7. ASSUME NEW i \in 1..RetainedLimit
        PROVE  changes'[i].revision = revision' - Len(changes') + i
    <3>1. changes'[i].revision = (revision + 1) - Len(feed) + (first + i - 1)
      <4> HIDE DEF feed, first
      <4> QED BY <1>6, <2>4, <2>5
    <3> HIDE DEF feed
    <3> QED BY <1>2, <1>3, <1>5, <1>7, <2>4, <3>1
  <2> HIDE DEF feed, first
  <2>8. ~(revision' < RetainedLimit)
    BY <1>2, <1>3, <1>7, <2>6
  <2> QED BY <2>4, <2>7, <2>8 DEF FeedIsContiguous, RetainedLimit
<1>10. CASE ~(Len(feed) > RetainedLimit)
  <2>1. changes' = feed
    BY <1>7, <1>10 DEF Retained
  <2> HIDE DEF feed
  <2>2. Len(feed) = revision + 1
    BY <1>2, <1>3, <1>5, <1>8, <1>10
  <2>3. Len(feed) <= RetainedLimit
    BY <1>2, <1>3, <1>5, <1>10
  <2> QED BY <1>2, <1>3, <1>6, <1>7, <2>1, <2>2, <2>3 DEF FeedIsContiguous, RetainedLimit
<1> QED BY <1>9, <1>10

(* What the sessions rely on to tell a gap from a complete answer: the     *)
(* retained changes are consecutive, end at the current revision, and none *)
(* was dropped while there was room.                                       *)
THEOREM RetainedAreConsecutive == Spec => []FeedIsContiguous
<1>1. Init => FeedIsContiguous
  BY SceneAssumption DEF Init, FeedIsContiguous, RetainedLimit
<1>2. TypeOK /\ PublishedIsCommitted /\ FeedIsContiguous /\ [Next]_vars /\ TypeOK'
        => FeedIsContiguous'
  <2> SUFFICES ASSUME TypeOK, PublishedIsCommitted, FeedIsContiguous, [Next]_vars, TypeOK'
               PROVE  FeedIsContiguous'
    OBVIOUS
  <2>1. CASE Quiet
    BY <2>1 DEF Quiet, feedVars, FeedIsContiguous, RetainedLimit
  <2> QED BY <2>1, RecordedOrQuiet, RecordedIsContiguous
<1> QED BY <1>1, <1>2, TypeCorrect, ScenesStayWhole, PTL DEF Spec

-----------------------------------------------------------------------------
(* The cached snapshot.                                                    *)

(* There are no layers of no scenes.                                       *)
LEMMA NothingLayered ==
    ASSUME NEW order
    PROVE  Layered({}, order) = <<>>
<1>1. Cardinality({}) = 0
  BY FS_EmptySet
<1> QED BY <1>1 DEF Layered, InOrder

(* The snapshot a renderer would be given is what would be built now.      *)
THEOREM SnapshotNeverStale == Spec => []SnapshotIsCurrent
<1>1. Init => SnapshotIsCurrent
  <2> SUFFICES ASSUME Init PROVE SnapshotIsCurrent
    OBVIOUS
  <2>1. VisibleScenes = {}
    BY DEF Init, NoProviders, VisibleScenes, Registered
  <2>2. PublishedLayers = <<>>
    BY <2>1, NothingLayered DEF PublishedLayers
  <2> QED BY <2>2 DEF Init, EmptySnapshot, SnapshotIsCurrent
<1>2. TypeOK /\ PublishedIsCommitted /\ SnapshotIsCurrent /\ [Next]_vars /\ TypeOK'
        => SnapshotIsCurrent'
  <2> SUFFICES ASSUME TypeOK, PublishedIsCommitted, SnapshotIsCurrent, [Next]_vars, TypeOK'
               PROVE  SnapshotIsCurrent'
    OBVIOUS
  <2>1. CASE Quiet
    <3>1. PublishedLayers' = PublishedLayers
      BY <2>1 DEF Quiet, PublishedLayers
    <3> QED BY <2>1, <3>1 DEF Quiet, feedVars, SnapshotIsCurrent
  <2>2. CASE Recorded
    BY <2>2 DEF Recorded, Record, SnapshotIsCurrent
  <2> QED BY <2>1, <2>2, RecordedOrQuiet
<1> QED BY <1>1, <1>2, TypeCorrect, ScenesStayWhole, PTL DEF Spec

-----------------------------------------------------------------------------
(* Transactions.                                                           *)

(* A provider's elements change only with a greater transaction id.        *)
THEOREM AppliesOnce == Spec => EveryTransactionAppliesOnce
<1>1. ASSUME TypeOK, [Next]_vars
      PROVE  TransactionAppliesOnce
  <2> SUFFICES ASSUME NEW k \in Registered, k \in Registered'
               PROVE  \/ /\ providers'[k].elements = providers[k].elements
                         /\ providers'[k].last_transaction_id
                                = providers[k].last_transaction_id
                      \/ providers'[k].last_transaction_id
                             > providers[k].last_transaction_id
    BY DEF TransactionAppliesOnce
  <2>0. k \in Connections /\ providers[k] \in ProviderStates /\ providers'[k] # None
    BY <1>1 DEF Registered, TypeOK
  <2>1. ASSUME NEW c \in Connections, NEW i \in Identities, register_provider(c, i)
        PROVE  providers'[k] = providers[k]
    BY <1>1, <2>0, <2>1 DEF register_provider, CanRegister, Registered, TypeOK
  <2>2. ASSUME NEW c \in Connections, disconnect(c)
        PROVE  providers'[k] = providers[k]
    BY <1>1, <2>0, <2>2 DEF disconnect, TypeOK
  <2>3. ASSUME NEW c \in Registered, NEW r \in ResourceIds, NEW x \in Resources,
               store_resource(c, r, x)
        PROVE  /\ providers'[k].elements = providers[k].elements
               /\ providers'[k].last_transaction_id = providers[k].last_transaction_id
    <3>1. CASE c = k
      BY <1>1, <2>0, <2>3, <3>1 DEF store_resource, TypeOK, ProviderStates
    <3>2. CASE c # k
      BY <1>1, <2>0, <2>3, <3>2 DEF store_resource, Registered, TypeOK
    <3> QED BY <3>1, <3>2
  <2>4. ASSUME NEW c \in Registered, NEW r \in ResourceIds, release_resource(c, r)
        PROVE  /\ providers'[k].elements = providers[k].elements
               /\ providers'[k].last_transaction_id = providers[k].last_transaction_id
    <3>1. CASE c = k
      BY <1>1, <2>0, <2>4, <3>1 DEF release_resource, TypeOK, ProviderStates
    <3>2. CASE c # k
      BY <1>1, <2>0, <2>4, <3>2 DEF release_resource, Registered, TypeOK
    <3> QED BY <3>1, <3>2
  <2>5. ASSUME NEW c \in Registered, NEW id \in TransactionIds, NEW m \in Mutations,
               commit(c, id, m)
        PROVE  \/ providers'[k] = providers[k]
               \/ providers'[k].last_transaction_id > providers[k].last_transaction_id
    <3>1. c = k => providers'[k].last_transaction_id = id
      BY <1>1, <2>0, <2>5 DEF commit, TypeOK, ProviderStates
    <3>2. c = k => id > providers[k].last_transaction_id
      BY <2>5 DEF commit, CanCommit, NewerTransaction
    <3>3. c # k => providers'[k] = providers[k]
      BY <1>1, <2>0, <2>5 DEF commit, TypeOK
    <3> QED BY <3>1, <3>2, <3>3
  <2>6. ASSUME UNCHANGED providers
        PROVE  providers'[k] = providers[k]
    BY <2>6
  <2> QED
    BY <1>1, <2>1, <2>2, <2>3, <2>4, <2>5, <2>6
    DEF Next, vars, Register, Disconnect, Store, Release, Commit, SetEnabled, set_enabled,
        SetRequireApproval, set_require_approval, SetApplicationPolicy,
        set_application_policy, SetApplicationPosition, set_application_position
<1>2. TypeOK /\ [Next]_vars => [TransactionAppliesOnce]_vars
  BY <1>1
<1> QED BY <1>2, TypeCorrect, PTL DEF Spec, EveryTransactionAppliesOnce

-----------------------------------------------------------------------------
(* The instance of SceneFeed has copies of the operators of Scene.         *)

(* Applications, retained changes and change records are the same.         *)
LEMMA SameOperators ==
    ASSUME NEW scenes, NEW feed, NEW rev, NEW kind, NEW identity, NEW provider
    PROVE  /\ Feed!ApplicationsOf(scenes) = ApplicationsOf(scenes)
           /\ Feed!Retained(feed) = Retained(feed)
           /\ Feed!Change(rev, kind, identity, provider)
                  = Change(rev, kind, identity, provider)
<1>1. Feed!ApplicationsOf(scenes) = ApplicationsOf(scenes)
  BY DEF Feed!ApplicationsOf, ApplicationsOf
<1>2. Feed!Retained(feed) = Retained(feed)
  BY DEF Feed!Retained, Retained, Feed!RetainedLimit, RetainedLimit
<1>3. Feed!Change(rev, kind, identity, provider) = Change(rev, kind, identity, provider)
  BY DEF Feed!Change, Change
<1> QED BY <1>1, <1>2, <1>3

(* So are the scenes that may be published.                                *)
LEMMA SamePublishable == Feed!PublishableScenes = PublishableScenes
<1>1. Feed!Scenes = Scenes
  BY DEF Feed!Scenes, Scenes, Feed!Identities, Identities, Feed!ElementMaps, ElementMaps,
         Feed!ResourceMaps, ResourceMaps
<1>2. \A map : Feed!Present(map) = Present(map)
  BY DEF Feed!Present, Present
<1>3. \A elements, r : Feed!ReferencedBy(elements, r) <=> ReferencedBy(elements, r)
  BY <1>2 DEF Feed!ReferencedBy, ReferencedBy
<1>4. \A elements, resources :
          Feed!ResourcesUsable(elements, resources) <=> ResourcesUsable(elements, resources)
  BY <1>2 DEF Feed!ResourcesUsable, ResourcesUsable
<1> QED BY <1>1, <1>2, <1>3, <1>4 DEF Feed!PublishableScenes, PublishableScenes

(* So is whether a set of scenes fits the limits.                          *)
LEMMA SameLimits == \A scenes : Feed!ScenesFit(scenes) <=> ScenesFit(scenes)
<1>1. \A f : Feed!SumFunction(f) = SumFunction(f)
  BY Zenon DEF Feed!SumFunction, SumFunction, Feed!SumFunctionOnSet, SumFunctionOnSet,
     Feed!FoldFunctionOnSet, FoldFunctionOnSet, Feed!MapThenFoldSet, MapThenFoldSet
<1>2. \A held, p : Feed!HeldBytes(held, p) = HeldBytes(held, p)
  BY <1>1, Zenon DEF Feed!HeldBytes, HeldBytes
<1>3. \A held, identity : Feed!Of(held, identity) = Of(held, identity)
  BY Zenon DEF Feed!Of, Of
<1>4. \A S : Feed!Cardinality(S) = Cardinality(S)
  BY Zenon DEF Feed!Cardinality, Cardinality
<1>5. Feed!Planes = Planes
  BY Zenon DEF Feed!Planes, Planes
<1>6. ASSUME NEW held
      PROVE  Feed!HeldFits(held) <=> HeldFits(held)
  BY <1>2, <1>3, <1>4, <1>5 DEF Feed!HeldFits, HeldFits
<1>7. \A map : Feed!Present(map) = Present(map)
  BY Zenon DEF Feed!Present, Present
<1>8. ASSUME NEW scenes
      PROVE  Feed!ScenesFit(scenes) <=> ScenesFit(scenes)
  <2> DEFINE H == UNION {{[identity |-> s.identity, id |-> r, resource |-> s.resources[r]] :
                            r \in Present(s.resources)} : s \in scenes}
             G == UNION {{[identity |-> s.identity, id |-> r, resource |-> s.resources[r]] :
                            r \in Feed!Present(s.resources)} : s \in scenes}
  <2>1. G = H
    BY <1>7
  <2>2. Feed!HeldFits(G) <=> HeldFits(H)
    <3> HIDE DEF G, H
    <3> QED BY <1>6, <2>1
  <2> QED BY <2>2, Zenon DEF Feed!ScenesFit, ScenesFit
<1> QED BY <1>8

(* So are the identities.                                                  *)
LEMMA SameIdentities == Feed!Identities = Identities
BY DEF Feed!Identities, Identities

(* A recorded change is one of the feed.                                   *)
LEMMA FeedRecords ==
    ASSUME NEW kind, NEW identity, NEW provider, Record(kind, identity, provider)
    PROVE  Feed!Record(kind, identity, provider)
BY SameOperators DEF Record, Feed!Record

-----------------------------------------------------------------------------
(* Who is registered.                                                      *)

(* No two connections have the same identity.                              *)
RegisteredOnce ==
    \A c, d \in Registered : providers[c].identity = providers[d].identity => c = d

(* The user's policy knows every registered application.                   *)
RegisteredKnown ==
    \A c \in Registered : policies[providers[c].identity.application_id] # None

(* A step that registers nobody and forgets no application keeps both.     *)
LEMMA NobodyRegisters ==
    ASSUME TypeOK, RegisteredOnce, RegisteredKnown,
           \A c \in Registered' :
               c \in Registered /\ providers'[c].identity = providers[c].identity,
           \A a \in Applications : policies[a] # None => policies'[a] # None
    PROVE  RegisteredOnce' /\ RegisteredKnown'
<1>1. \A c \in Registered : providers[c].identity.application_id \in Applications
  BY DEF Registered, TypeOK, ProviderStates, Identities
<1>2. RegisteredOnce'
  BY DEF RegisteredOnce
<1>3. RegisteredKnown'
  BY <1>1 DEF RegisteredKnown
<1> QED BY <1>2, <1>3

(* Every step keeps them.                                                  *)
LEMMA RegisteredStep ==
    ASSUME TypeOK, RegisteredOnce, RegisteredKnown, [Next]_vars, TypeOK'
    PROVE  RegisteredOnce' /\ RegisteredKnown'
<1>0. \A c \in Registered : c \in Connections /\ providers[c] \in ProviderStates
  BY DEF Registered, TypeOK
<1>1. ASSUME NEW c \in Connections, NEW i \in Identities, register_provider(c, i)
      PROVE  RegisteredOnce' /\ RegisteredKnown'
  <2> DEFINE a == i.application_id
  <2>1. a \in Applications /\ c \notin Registered
        /\ \A r \in Registered : providers[r].identity # i
    BY <1>1 DEF Identities, register_provider, CanRegister, Registered
  <2>2. /\ Registered' \subseteq Registered \cup {c}
        /\ providers'[c].identity = i
        /\ \A r \in Registered : providers'[r] = providers[r]
    BY <1>1, <2>1 DEF register_provider, Registered, TypeOK
  <2>3. RegisteredOnce'
    BY <2>1, <2>2 DEF RegisteredOnce
  <2>4. policies'[a] # None /\ \A b \in Applications : policies[b] # None => policies'[b] # None
    <3>1. CASE policies[a] # None
      BY <1>1, <3>1 DEF register_provider
    <3>2. CASE policies[a] = None
      <4> DEFINE p == [approved |-> ~require_approval, visible |-> TRUE, order |-> next_order]
      <4>1. p \in Policies
        BY DEF Policies, TypeOK
      <4>2. policies' = [policies EXCEPT ![a] = p]
        BY <1>1, <3>2 DEF register_provider
      <4> HIDE DEF p
      <4> QED BY <2>1, <4>1, <4>2, PolicyAssumption DEF TypeOK, PolicyMaps
    <3> QED BY <3>1, <3>2
  <2>5. \A r \in Registered : providers[r].identity.application_id \in Applications
    BY <1>0 DEF ProviderStates, Identities
  <2> QED BY <2>2, <2>3, <2>4, <2>5 DEF RegisteredKnown
<1>2. ASSUME NEW c \in Connections, disconnect(c)
      PROVE  RegisteredOnce' /\ RegisteredKnown'
  BY <1>2, NobodyRegisters DEF disconnect, Registered, TypeOK, policyVars
<1>3. ASSUME NEW c \in Registered, NEW r \in ResourceIds, NEW x \in Resources,
             store_resource(c, r, x)
      PROVE  RegisteredOnce' /\ RegisteredKnown'
  <2>1. \A k \in Connections : k # c => providers'[k] = providers[k]
    BY <1>3, <1>0 DEF store_resource, TypeOK
  <2>2. providers'[c].identity = providers[c].identity
    BY <1>3, <1>0 DEF store_resource, TypeOK, ProviderStates
  <2> QED BY <1>3, <2>1, <2>2, NobodyRegisters DEF store_resource, Registered, policyVars
<1>4. ASSUME NEW c \in Registered, NEW r \in ResourceIds, release_resource(c, r)
      PROVE  RegisteredOnce' /\ RegisteredKnown'
  <2>1. \A k \in Connections : k # c => providers'[k] = providers[k]
    BY <1>4, <1>0 DEF release_resource, TypeOK
  <2>2. providers'[c].identity = providers[c].identity
    BY <1>4, <1>0 DEF release_resource, TypeOK, ProviderStates
  <2> QED BY <1>4, <2>1, <2>2, NobodyRegisters DEF release_resource, Registered, policyVars
<1>5. ASSUME NEW c \in Registered, NEW id \in TransactionIds, NEW m \in Mutations,
             commit(c, id, m)
      PROVE  RegisteredOnce' /\ RegisteredKnown'
  <2>1. \A k \in Connections : k # c => providers'[k] = providers[k]
    BY <1>5, <1>0 DEF commit, TypeOK
  <2>2. providers'[c].identity = providers[c].identity
    BY <1>5, <1>0 DEF commit, TypeOK, ProviderStates
  <2> QED BY <1>5, <2>1, <2>2, NobodyRegisters DEF commit, Registered, policyVars
<1>6. ASSUME NEW a \in Applications, NEW approved \in BOOLEAN, NEW visible \in BOOLEAN,
             NEW order \in Orders, set_application_policy(a, approved, visible, order)
      PROVE  RegisteredOnce' /\ RegisteredKnown'
  <2> DEFINE p == [approved |-> approved, visible |-> visible, order |-> order]
  <2>1. p \in Policies
    BY StoreAssumption DEF Policies
  <2>2. policies' = [policies EXCEPT ![a] = p] /\ UNCHANGED providers
    BY <1>6 DEF set_application_policy
  <2> HIDE DEF p
  <2>3. \A b \in Applications : policies[b] # None => policies'[b] # None
    BY <2>1, <2>2, PolicyAssumption DEF TypeOK, PolicyMaps
  <2> QED BY <2>2, <2>3, NobodyRegisters DEF Registered
<1>7. ASSUME NEW a \in Applications, NEW position \in 0..Cardinality(Applications),
             set_application_position(a, position)
      PROVE  RegisteredOnce' /\ RegisteredKnown'
  <2>1. UNCHANGED providers /\ \A b \in Known : policies'[b] # None
    BY <1>7, MovedType, PolicyAssumption DEF set_application_position
  <2> QED BY <2>1, NobodyRegisters DEF Registered, Known
<1>8. ASSUME UNCHANGED <<providers, policies>>
      PROVE  RegisteredOnce' /\ RegisteredKnown'
  BY <1>8, NobodyRegisters DEF Registered
<1> QED
  BY <1>1, <1>2, <1>3, <1>4, <1>5, <1>6, <1>7, <1>8
  DEF Next, vars, Register, Disconnect, Store, Release, Commit, SetEnabled, set_enabled,
      SetRequireApproval, set_require_approval, SetApplicationPolicy,
      SetApplicationPosition

-----------------------------------------------------------------------------
(* What is visible, in every state.                                        *)

StoreInv ==
    /\ TypeOK /\ ScenesAreWhole /\ RegisteredOnce /\ RegisteredKnown
    /\ Accounts(providers, resource_bytes)

(* The scenes a renderer may be sent are whole, one for each identity, and *)
(* their applications have an order.                                       *)
VisibleIsSound ==
    /\ \A c \in Registered : /\ providers[c].published \in PublishableScenes
                             /\ providers[c].published.identity = providers[c].identity
                             /\ providers[c].identity \in Identities
    /\ VisibleScenes \subseteq PublishableScenes
    /\ \A s, t \in VisibleScenes : s.identity = t.identity => s = t
    /\ VisibleOrder \in [ApplicationsOf(VisibleScenes) -> Int]

(* A scene made of elements that find their resources may be published.    *)
LEMMA WholeIsPublishable ==
    ASSUME NEW identity \in Identities, NEW elements \in ElementMaps,
           NEW resources \in ResourceMaps, ResourcesUsable(elements, resources)
    PROVE  /\ PublishedScene(identity, elements, resources) \in PublishableScenes
           /\ PublishedScene(identity, elements, resources).identity = identity
<1> DEFINE shared == [r \in ResourceIds |->
                         IF ReferencedBy(elements, r) THEN resources[r] ELSE None]
           s == PublishedScene(identity, elements, resources)
<1>1. s \in Scenes
  BY PublishedSceneType
<1>2. s.identity = identity /\ s.elements = elements /\ s.resources = shared
  BY DEF PublishedScene
<1>3. \A e \in Present(elements) : elements[e].kind \in {"image", "gif"} =>
          /\ elements[e].resource_id \in ResourceIds
          /\ resources[elements[e].resource_id] # None
          /\ ReferencedBy(elements, elements[e].resource_id)
  BY DEF ResourcesUsable, ReferencedBy, Present, ResourceMaps
<1>4. \A r \in ResourceIds : ReferencedBy(elements, r) => resources[r] # None
  BY <1>3 DEF ReferencedBy
<1>5. Present(shared) = {r \in ResourceIds : ReferencedBy(elements, r)}
  BY <1>4 DEF Present
<1>6. ResourcesUsable(elements, shared)
  <2> SUFFICES ASSUME NEW e \in Present(elements),
                      elements[e].kind \in {"image", "gif"}
               PROVE  /\ elements[e].resource_id \in Present(shared)
                      /\ elements[e].kind = "gif" =>
                             /\ shared[elements[e].resource_id].frames >= 2
                             /\ elements[e].frame_index
                                    < shared[elements[e].resource_id].frames
    BY DEF ResourcesUsable
  <2>1. shared[elements[e].resource_id] = resources[elements[e].resource_id]
        /\ elements[e].resource_id \in Present(shared)
    BY <1>3, <1>5
  <2> HIDE DEF shared
  <2> QED BY <2>1 DEF ResourcesUsable
<1> HIDE DEF s, shared
<1>7. s \in PublishableScenes
  BY <1>1, <1>2, <1>5, <1>6 DEF PublishableScenes
<1> QED BY <1>2, <1>7 DEF s

(* The invariants make what is visible sound.                              *)
LEMMA InvMakesSound == StoreInv => VisibleIsSound
<1> SUFFICES ASSUME StoreInv PROVE VisibleIsSound
  OBVIOUS
<1>0. TypeOK /\ NoDanglingResource /\ PublishedIsCommitted
  BY DEF StoreInv, ScenesAreWhole
<1>1. ASSUME NEW c \in Registered
      PROVE  /\ providers[c].published \in PublishableScenes
             /\ providers[c].published.identity = providers[c].identity
             /\ providers[c].identity \in Identities
  <2> DEFINE provider == providers[c]
  <2>1. /\ provider.identity \in Identities /\ provider.elements \in ElementMaps
        /\ provider.resources \in ResourceMaps
    BY <1>0 DEF TypeOK, Registered, ProviderStates
  <2>2. provider.published =
            PublishedScene(provider.identity, provider.elements, provider.resources)
    BY <1>0 DEF PublishedIsCommitted
  <2>3. ResourcesUsable(provider.elements, provider.resources)
    BY <1>0 DEF NoDanglingResource
  <2> HIDE DEF provider
  <2>4. /\ provider.published \in PublishableScenes
        /\ provider.published.identity = provider.identity
    BY <2>1, <2>2, <2>3, WholeIsPublishable
  <2> QED BY <2>1, <2>4 DEF provider
<1>2. VisibleScenes \subseteq PublishableScenes
  BY <1>1 DEF VisibleScenes
<1>3. \A s, t \in VisibleScenes : s.identity = t.identity => s = t
  BY <1>1 DEF VisibleScenes, StoreInv, RegisteredOnce
<1>4. \A a \in ApplicationsOf(VisibleScenes) : policies[a].order \in Int
  BY <1>0, VisibleIsKnown DEF TypeOK, PolicyMaps, Policies
<1>5. VisibleOrder \in [ApplicationsOf(VisibleScenes) -> Int]
  BY <1>4 DEF VisibleOrder
<1> QED BY <1>1, <1>2, <1>3, <1>5 DEF VisibleIsSound

(* The resources of the visible scenes are among those that the counters   *)
(* count.                                                                  *)
LEMMA VisibleFit ==
    ASSUME StoreInv, VisibleIsSound
    PROVE  /\ ScenesFit(VisibleScenes)
           /\ IsFiniteSet(VisibleScenes) /\ Cardinality(VisibleScenes) <= MaximumProviders
<1> DEFINE C == {r \in Registered : Shown(r)}
           scene == [c \in C |-> providers[c].published]
           part == [c \in C |-> Shared(scene[c])]
           held == UNION {part[c] : c \in C}
<1>0. /\ TypeOK /\ PublishedIsCommitted /\ RegisteredOnce
      /\ Accounts(providers, resource_bytes)
  BY DEF StoreInv, ScenesAreWhole
<1>1. /\ Registered = Present(providers) /\ C \subseteq Registered
      /\ \A c \in Registered : c \in Connections /\ providers[c] \in ProviderStates
  BY <1>0 DEF TypeOK, Registered, Present
<1>2. IsFiniteSet(C) /\ Cardinality(C) <= MaximumProviders
  <2>1. IsFiniteSet(Registered) /\ Cardinality(Registered) <= MaximumProviders
    BY <1>0, <1>1, Zenon DEF Accounts
  <2>2. /\ IsFiniteSet(C) /\ Cardinality(C) <= Cardinality(Registered)
        /\ Cardinality(C) \in Nat /\ Cardinality(Registered) \in Nat
    BY <1>1, <2>1, FS_Subset, FS_CardinalityType
  <2> HIDE DEF C
  <2> QED BY <2>1, <2>2, SceneAssumption
<1>3. \A c, d \in C : scene[c].identity = scene[d].identity => c = d
  BY <1>0 DEF VisibleIsSound, RegisteredOnce
<1>4. VisibleScenes = {scene[c] : c \in C}
  BY DEF VisibleScenes
<1>5. IsFiniteSet(VisibleScenes) /\ Cardinality(VisibleScenes) = Cardinality(C)
  <2> HIDE DEF C, scene
  <2>1. scene \in Bijection(C, VisibleScenes)
    <3>1. scene \in [C -> VisibleScenes]
      BY <1>4 DEF scene
    <3> QED BY <1>3, <1>4, <3>1 DEF Bijection, Injection, Surjection, IsInjective
  <2>2. ExistsBijection(C, VisibleScenes)
    BY <2>1 DEF ExistsBijection
  <2> QED BY ONLY <1>2, <2>2, FS_Bijection
<1>6. ASSUME NEW c \in C
      PROVE  /\ scene[c] \in Scenes
             /\ Cardinality(Present(scene[c].resources)) <= MaximumResources
             /\ \A p \in Planes : /\ HeldBytes(part[c], p) <= providers[c].bytes[p]
                                  /\ providers[c].bytes[p] \in Nat
  <2> DEFINE provider == providers[c]
             few == Present(scene[c].resources)
             all == Present(provider.resources)
  <2>1. provider \in ProviderStates /\ scene[c] \in Scenes
    BY <1>1 DEF ProviderStates
  <2>2. provider.resources \in ResourceMaps /\ scene[c].resources \in ResourceMaps
    BY <2>1 DEF ProviderStates, Scenes
  <2>3. scene[c].resources = [r \in ResourceIds |->
            IF ReferencedBy(provider.elements, r) THEN provider.resources[r] ELSE None]
    <3>1. scene[c] =
              PublishedScene(provider.identity, provider.elements, provider.resources)
      BY <1>0 DEF PublishedIsCommitted
    <3> HIDE DEF scene, provider
    <3> QED BY <3>1 DEF PublishedScene
  <2>4. /\ few \subseteq all /\ all \subseteq ResourceIds
        /\ \A r \in few : scene[c].resources[r] = provider.resources[r]
        /\ \A r \in all : provider.resources[r] \in Resources
    BY <2>2, <2>3 DEF Present, ResourceMaps
  <2>5. IsFiniteSet(all)
    BY <1>0, <2>4, SceneAssumption, FS_Subset
  <2>6. Cardinality(few) <= MaximumResources
    <3>1. /\ Cardinality(few) <= Cardinality(all)
          /\ Cardinality(few) \in Nat /\ Cardinality(all) \in Nat
      BY <2>4, <2>5, FS_Subset, FS_CardinalityType
    <3>2. Cardinality(all) <= MaximumResources
      BY <1>0, <1>1 DEF Accounts
    <3> QED BY <3>1, <3>2, SceneAssumption
  <2>7. ASSUME NEW p \in Planes
        PROVE  /\ HeldBytes(part[c], p) <= providers[c].bytes[p]
               /\ providers[c].bytes[p] \in Nat
    <3> DEFINE f == [r \in ResourceIds |-> scene[c].resources[r].bytes[p]]
               g == [r \in ResourceIds |-> provider.resources[r].bytes[p]]
    <3>1. HeldBytes(part[c], p) = Total(f, few)
      BY <2>1, SharedByScene
    <3>2. /\ \A r \in few : f[r] = g[r]
          /\ \A r \in all : g[r] \in Nat
      BY <2>4, SceneAssumption
    <3>3. Stored(provider.resources, p) = Total(g, all)
      <4>1. [r \in all |-> provider.resources[r].bytes[p]] = [r \in all |-> g[r]]
        BY <2>4
      <4> QED BY <4>1, Zenon DEF Stored, Total
    <3>4. provider.bytes[p] = Stored(provider.resources, p)
      BY <1>0, <1>1 DEF Accounts
    <3> HIDE DEF f, g, few, all, provider
    <3>5. Total(f, few) = Total(g, few)
      BY <3>2, TotalSame
    <3>6. Total(g, few) <= Total(g, all)
      BY <2>4, <2>5, <3>2, TotalOfPart
    <3>7. Total(g, all) \in Nat
      BY <2>5, <3>2, TotalOfPart
    <3> QED BY <3>1, <3>3, <3>4, <3>5, <3>6, <3>7 DEF provider
  <2> QED BY <2>1, <2>6, <2>7
<1>7. ASSUME NEW c \in C
      PROVE  /\ IsFiniteSet(part[c]) /\ Countable(part[c])
             /\ Cardinality(part[c]) <= MaximumResources
             /\ \A h \in part[c] : h.identity = scene[c].identity
  <2>1. scene[c] \in Scenes /\ Cardinality(Present(scene[c].resources)) <= MaximumResources
    BY <1>6
  <2>2. "encoded" \in Planes /\ part[c] = Shared(scene[c])
    BY DEF Planes
  <2>3. \A h \in Shared(scene[c]) : h.identity = scene[c].identity
    BY DEF Shared
  <2> HIDE DEF C, scene, part
  <2>4. /\ IsFiniteSet(Shared(scene[c])) /\ Countable(Shared(scene[c]))
        /\ Cardinality(Shared(scene[c])) = Cardinality(Present(scene[c].resources))
    BY <2>1, <2>2, SharedByScene
  <2> QED BY <2>1, <2>2, <2>3, <2>4
<1>8. ScenesFit(VisibleScenes) <=> HeldFits(held)
  <2>1. UNION {{[identity |-> s.identity, id |-> r, resource |-> s.resources[r]] :
                   r \in Present(s.resources)} : s \in VisibleScenes} = held
    BY <1>4 DEF Shared
  <2> HIDE DEF held
  <2> QED BY <2>1, Zenon DEF ScenesFit
<1> HIDE DEF scene
<1>9. \A c \in C : Of(held, scene[c].identity) = part[c]
  <2> HIDE DEF part
  <2> QED BY <1>3, <1>7 DEF Of
<1>10. \A h \in held : \E c \in C : h \in part[c] /\ h.identity = scene[c].identity
  <2> HIDE DEF part
  <2> QED BY <1>7
<1>11. ASSUME NEW h \in held
       PROVE  /\ Cardinality(Of(held, h.identity)) <= MaximumResources
              /\ \A p \in Planes :
                     HeldBytes(Of(held, h.identity), p) <= MaximumProviderBytes[p]
  <2>1. PICK c \in C : h.identity = scene[c].identity
    BY <1>10
  <2>2. Of(held, h.identity) = part[c]
    BY <1>9, <2>1
  <2> HIDE DEF held, part
  <2>3. Cardinality(part[c]) <= MaximumResources
    BY <1>0, <1>7
  <2>4. ASSUME NEW p \in Planes
        PROVE  HeldBytes(part[c], p) <= MaximumProviderBytes[p]
    <3>1. HeldBytes(part[c], p) <= providers[c].bytes[p] /\ providers[c].bytes[p] \in Nat
      BY <1>6
    <3>2. providers[c].bytes[p] <= MaximumProviderBytes[p]
      BY <1>0, <1>1 DEF Accounts
    <3>3. HeldBytes(part[c], p) \in Nat
      <4> DEFINE f == [k \in part[c] |-> k.resource.bytes[p]]
      <4>1. HeldBytes(part[c], p) = Total(f, part[c])
        BY HeldIsTotal
      <4>2. IsFiniteSet(part[c]) /\ \A k \in part[c] : f[k] \in Nat
        BY <1>7 DEF Countable
      <4> HIDE DEF f
      <4> QED BY <4>1, <4>2, TotalOfPart
    <3> QED BY <3>1, <3>2, <3>3, SceneAssumption
  <2>5. /\ Cardinality(Of(held, h.identity)) = Cardinality(part[c])
        /\ \A p : HeldBytes(Of(held, h.identity), p) = HeldBytes(part[c], p)
    BY <2>2, Zenon
  <2> QED BY <2>3, <2>4, <2>5
<1>12. ASSUME NEW p \in Planes
       PROVE  HeldBytes(held, p) <= MaximumGlobalBytes[p]
  <2> DEFINE f == [h \in held |-> h.resource.bytes[p]]
             g == [c \in Connections |-> providers[c].bytes[p]]
  <2>1. HeldBytes(held, p) = Total(f, held)
    <3> HIDE DEF held
    <3> QED BY HeldIsTotal
  <2>2. ASSUME NEW c \in C
        PROVE  /\ IsFiniteSet(part[c]) /\ g[c] \in Nat
               /\ \A x \in part[c] : f[x] \in Nat
               /\ Total(f, part[c]) <= g[c]
    <3>1. part[c] \in SUBSET held /\ c \in Connections
      BY <1>1
    <3>2. HeldBytes(part[c], p) <= providers[c].bytes[p] /\ providers[c].bytes[p] \in Nat
      BY <1>6
    <3>3. IsFiniteSet(part[c]) /\ \A x \in part[c] : f[x] \in Nat
      <4>1. IsFiniteSet(part[c]) /\ Countable(part[c])
        BY <1>7
      <4>2. \A x \in part[c] : f[x] = x.resource.bytes[p]
        BY <3>1
      <4> HIDE DEF f, part
      <4> QED BY <4>1, <4>2 DEF Countable
    <3>4. HeldBytes(part[c], p) = Total(f, part[c])
      <4> HIDE DEF held, part
      <4> QED BY <3>1, HeldIsTotal
    <3> QED BY <3>1, <3>2, <3>3, <3>4
  <2>3. \A c, d \in C : c # d => part[c] \cap part[d] = {}
    <3> HIDE DEF part
    <3> QED BY <1>0, <1>3, <1>7
  <2>4. /\ resource_bytes[p] = Total(g, Present(providers))
        /\ resource_bytes[p] <= MaximumGlobalBytes[p]
    BY <1>0 DEF Accounts
  <2>5. \A c \in Present(providers) : g[c] \in Nat
    <3> SUFFICES ASSUME NEW c \in Present(providers)
                 PROVE  providers[c].bytes[p] \in Nat
      BY <1>0, <1>1
    <3>1. providers[c].bytes[p] = Stored(providers[c].resources, p)
      BY <1>0 DEF Accounts
    <3>2. providers[c].resources \in ResourceMaps
      BY <1>1 DEF ProviderStates
    <3> QED BY <1>0, <3>1, <3>2, StoredIsTotal
  <2>6. /\ IsFiniteSet(Present(providers)) /\ C \in SUBSET Present(providers)
    BY <1>0, <1>1 DEF Accounts
  <2> HIDE DEF f, g, C, part
  <2>7. /\ IsFiniteSet(UNION {part[c] : c \in C})
        /\ Total(f, UNION {part[c] : c \in C}) <= Total(g, C)
    BY ONLY <1>2, <2>2, <2>3, TotalOfParts, Zenon
  <2>8. Total(g, C) <= Total(g, Present(providers)) /\ Total(g, C) \in Nat
    BY ONLY <2>5, <2>6, TotalOfPart
  <2>9. Total(g, Present(providers)) \in Nat
    BY ONLY <2>5, <2>6, TotalOfPart
  <2>10. HeldBytes(held, p) \in Int
    <3>1. /\ IsFiniteSet(UNION {part[c] : c \in C})
          /\ \A x \in UNION {part[c] : c \in C} : f[x] \in Int
      BY <2>2, <2>7
    <3> QED BY <2>1, <3>1, SumType
  <2> QED BY <2>1, <2>4, <2>7, <2>8, <2>9, <2>10, SceneAssumption
<1> QED BY <1>2, <1>5, <1>8, <1>11, <1>12 DEF HeldFits

(* So every state the store is in is within the limits of the feed.        *)
LEMMA InvIsWithinLimits == StoreInv => VisibleScenesFit /\ Feed!WithinLimits
<1> SUFFICES ASSUME StoreInv PROVE VisibleScenesFit /\ Feed!WithinLimits
  OBVIOUS
<1>1. /\ ScenesFit(VisibleScenes)
      /\ IsFiniteSet(VisibleScenes) /\ Cardinality(VisibleScenes) <= MaximumProviders
  BY InvMakesSound, VisibleFit
<1>2. Feed!ScenesFit(VisibleScenes)
  BY <1>1, SameLimits
<1>3. Feed!Cardinality(VisibleScenes) = Cardinality(VisibleScenes)
  BY Zenon DEF Feed!Cardinality, Cardinality
<1>4. Feed!IsFiniteSet(VisibleScenes)
  BY <1>1, Zenon DEF Feed!IsFiniteSet, IsFiniteSet
<1> QED BY <1>1, <1>2, <1>3, <1>4 DEF VisibleScenesFit, Feed!WithinLimits

-----------------------------------------------------------------------------
(* The steps.                                                              *)

(* A policy change that is recorded is a reset of the feed.                *)
LEMMA ResetRefines ==
    ASSUME VisibleIsSound', Feed!WithinLimits', RecordReset
    PROVE  Feed!Next
<1>1. Feed!Record("reset", None, None)
  BY FeedRecords DEF RecordReset
<1> QED BY <1>1, SameOperators, SamePublishable DEF VisibleIsSound, Feed!Reset, Feed!Next

(* A scene that becomes visible, or changes.                               *)
LEMMA UpsertRefines ==
    ASSUME StoreInv, VisibleIsSound, VisibleIsSound', RegisteredOnce', Feed!WithinLimits',
           NEW c \in Connections, c \in Registered', Shown(c)',
           Record("upsert", providers'[c].identity, providers'[c].published),
           c \in Registered => providers[c].identity = providers'[c].identity,
           \A r \in Connections : r # c => providers'[r] = providers[r],
           \A r \in Registered : Shown(r)' <=> Shown(r),
           \A a \in ApplicationsOf(VisibleScenes) : policies'[a] = policies[a]
    PROVE  Feed!Next
<1> DEFINE scene == providers'[c].published
<1>1. scene \in PublishableScenes /\ scene.identity = providers'[c].identity
  BY DEF VisibleIsSound
<1>2. VisibleScenes' = {s \in VisibleScenes : s.identity # scene.identity} \cup {scene}
  <2>1. \A r \in Connections \ {c} : r \in Registered' <=> r \in Registered
    BY DEF Registered
  <2>2. ASSUME NEW r \in Registered, r # c
        PROVE  /\ providers'[r].published = providers[r].published
               /\ providers[r].published.identity # scene.identity
               /\ Shown(r)' <=> Shown(r)
    <3>1. r \in Registered' /\ providers'[r] = providers[r]
      BY <2>1, <2>2 DEF Registered
    <3>2. providers[r].identity # providers'[c].identity
      BY <2>2, <3>1 DEF RegisteredOnce
    <3> QED BY <1>1, <3>1, <3>2 DEF VisibleIsSound
  <2>3. c \in Registered => providers[c].published.identity = scene.identity
    BY <1>1 DEF VisibleIsSound
  <2>4. \A s \in VisibleScenes' :
            s \in {t \in VisibleScenes : t.identity # scene.identity} \cup {scene}
    BY <2>1, <2>2 DEF VisibleScenes, Registered
  <2>5. \A s \in VisibleScenes : s.identity # scene.identity => s \in VisibleScenes'
    BY <2>1, <2>2, <2>3 DEF VisibleScenes, Registered
  <2>6. scene \in VisibleScenes'
    BY DEF VisibleScenes
  <2> QED BY <2>4, <2>5, <2>6
<1>3. VisibleOrder' \in [ApplicationsOf(VisibleScenes') -> Int]
  BY DEF VisibleIsSound
<1>4. \A a \in DOMAIN VisibleOrder \cap DOMAIN VisibleOrder' :
          VisibleOrder'[a] = VisibleOrder[a]
  BY DEF VisibleOrder
<1>5. Feed!Record("upsert", scene.identity, scene)
  BY <1>1, FeedRecords
<1> HIDE DEF scene
<1>6. Feed!Upsert(scene)
  BY <1>2, <1>3, <1>4, <1>5, SameOperators DEF Feed!Upsert, Feed!Except
<1> QED BY <1>1, <1>6, SamePublishable DEF Feed!Next

(* A visible provider that leaves.                                         *)
LEMMA RemoveRefines ==
    ASSUME StoreInv, VisibleIsSound, Feed!WithinLimits', NEW c \in Connections,
           disconnect(c), Shown(c)
    PROVE  Feed!Next
<1> DEFINE identity == providers[c].identity
<1>1. /\ c \in Registered /\ Record("remove_provider", identity, None)
      /\ UNCHANGED <<policies, enabled>> /\ Registered' = Registered \ {c}
      /\ \A r \in Registered' : providers'[r] = providers[r]
  BY DEF disconnect, StoreInv, TypeOK, Registered, policyVars
<1>2. providers[c].published \in VisibleScenes
      /\ providers[c].published.identity = identity /\ identity \in Identities
  BY <1>1 DEF VisibleScenes, VisibleIsSound
<1>3. VisibleScenes' = {s \in VisibleScenes : s.identity # identity}
  <2>1. ASSUME NEW r \in Registered, r # c
        PROVE  /\ r \in Registered' /\ providers'[r] = providers[r]
               /\ providers[r].published.identity # identity
               /\ Shown(r)' <=> Shown(r)
    <3>1. r \in Registered' /\ providers'[r] = providers[r]
      BY <1>1, <2>1
    <3>2. providers[r].identity # identity
      BY <1>1, <2>1 DEF StoreInv, RegisteredOnce
    <3> QED BY <1>1, <3>1, <3>2 DEF VisibleIsSound, Shown, ProviderVisible
  <2>2. \A s \in VisibleScenes' : s \in VisibleScenes /\ s.identity # identity
    BY <1>1, <2>1 DEF VisibleScenes
  <2>3. \A s \in VisibleScenes : s.identity # identity => s \in VisibleScenes'
    BY <1>1, <1>2, <2>1 DEF VisibleScenes
  <2> QED BY <2>2, <2>3
<1>4. VisibleOrder' = [a \in ApplicationsOf(VisibleScenes') |-> VisibleOrder[a]]
  <2>1. ApplicationsOf(VisibleScenes') \subseteq ApplicationsOf(VisibleScenes)
    BY <1>3 DEF ApplicationsOf
  <2> QED BY <1>1, <2>1 DEF VisibleOrder
<1>5. Feed!Record("remove_provider", identity, None)
  BY <1>1, FeedRecords
<1> HIDE DEF identity
<1>6. Feed!RemoveProvider(identity)
  BY <1>2, <1>3, <1>4, <1>5, SameOperators DEF Feed!RemoveProvider, Feed!Except
<1> QED BY <1>2, <1>6, SameIdentities DEF Feed!Next

(* Every step of the store is a step of the feed, or one it does not see.  *)
LEMMA StepRefines ==
    ASSUME StoreInv, StoreInv', VisibleIsSound, VisibleIsSound', Feed!WithinLimits',
           [Next]_vars
    PROVE  [Feed!Next]_(Feed!feed)
<1>0. TypeOK /\ TypeOK' /\ PublishedIsCommitted /\ RegisteredOnce' /\ RegisteredKnown
  BY DEF StoreInv, ScenesAreWhole
<1>1. Quiet => UNCHANGED Feed!feed
  BY DEF Quiet, feedVars, Feed!feed
<1>2. ASSUME NEW c \in Connections, NEW i \in Identities, register_provider(c, i)
      PROVE  Feed!Next \/ Quiet
  <2>1. CASE ~Shown(c)'
    BY <1>0, <1>2, <2>1, HiddenRegistration
  <2>2. CASE Shown(c)'
    <3>1. c \notin Registered /\ i.application_id \in Applications
      BY <1>2 DEF register_provider, CanRegister, Registered, Identities
    <3>2. /\ \A r \in Connections : r # c => providers'[r] = providers[r]
          /\ UNCHANGED enabled
      BY <1>0, <1>2 DEF register_provider, TypeOK
    <3>3. c \in Registered'
      BY <1>0, <1>2, RegistrationType, StoreAssumption DEF Registered
    <3>4. \A a \in Applications : policies[a] # None => policies'[a] = policies[a]
      BY <1>0, <1>2 DEF register_provider, TypeOK, PolicyMaps
    <3>5. \A a \in ApplicationsOf(VisibleScenes) : policies'[a] = policies[a]
      BY <1>0, <3>4, VisibleIsKnown
    <3>6. ASSUME NEW r \in Registered
          PROVE  Shown(r)' <=> Shown(r)
      <4>1. /\ r # c /\ r \in Connections
            /\ providers[r].identity.application_id \in Applications
        BY <1>0, <3>1 DEF Registered, TypeOK, ProviderStates, Identities
      <4>2. policies[providers[r].identity.application_id] # None
        BY <1>0 DEF RegisteredKnown
      <4> QED BY <3>2, <3>4, <4>1, <4>2 DEF Shown, ProviderVisible
    <3>7. Record("upsert", providers'[c].identity, providers'[c].published)
      BY <1>2, <2>2 DEF register_provider, RecordUpsertIfVisible
    <3> QED BY <1>0, <2>2, <3>1, <3>2, <3>3, <3>5, <3>6, <3>7, UpsertRefines
  <2> QED BY <2>1, <2>2
<1>3. ASSUME NEW c \in Connections, disconnect(c), Shown(c)
      PROVE  Feed!Next
  BY <1>3, RemoveRefines
<1>4. ASSUME NEW c \in Registered, NEW id \in TransactionIds, NEW m \in Mutations,
             commit(c, id, m), Shown(c)'
      PROVE  Feed!Next
  <2>1. c \in Connections /\ providers[c] \in ProviderStates
    BY <1>0 DEF Registered, TypeOK
  <2>2. /\ providers'[c].identity = providers[c].identity
        /\ \A r \in Connections : r # c => providers'[r] = providers[r]
        /\ UNCHANGED policyVars
    BY <1>0, <1>4, <2>1 DEF commit, TypeOK, ProviderStates
  <2>3. \A r \in Registered : Shown(r)' <=> Shown(r)
    BY <2>2 DEF Shown, ProviderVisible, policyVars, Registered
  <2>4. c \in Registered'
    <3>1. providers'[c] # None
      BY <1>4, CommitType, <1>0, StoreAssumption
    <3> QED BY <2>1, <3>1 DEF Registered
  <2>5. Record("upsert", providers'[c].identity, providers'[c].published)
    BY <1>4 DEF commit, RecordUpsertIfVisible
  <2>6. \A a \in ApplicationsOf(VisibleScenes) : policies'[a] = policies[a]
    BY <2>2 DEF policyVars
  <2> QED BY <1>0, <1>4, <2>1, <2>2, <2>3, <2>4, <2>5, <2>6, UpsertRefines
<1>5. RecordReset => Feed!Next
  BY ResetRefines
<1>6. Recorded => ~UNCHANGED feedVars
  BY <1>0 DEF Recorded, Record, feedVars, TypeOK
<1>7. CASE Recorded
  <2>1. ASSUME NEW c \in Connections, disconnect(c)
        PROVE  Shown(c)
    BY <1>6, <1>7, <2>1 DEF disconnect
  <2>2. ASSUME NEW c \in Registered, NEW id \in TransactionIds, NEW m \in Mutations,
               commit(c, id, m)
        PROVE  Shown(c)'
    BY <1>6, <1>7, <2>2 DEF commit, RecordUpsertIfVisible
  <2>3. ASSUME NEW c \in Registered, NEW r \in ResourceIds, NEW x \in Resources
        PROVE  ~store_resource(c, r, x) /\ ~release_resource(c, r)
    BY <1>6, <1>7 DEF store_resource, release_resource, feedVars
  <2>4. \A required \in BOOLEAN : ~set_require_approval(required)
    BY <1>6, <1>7 DEF set_require_approval, feedVars
  <2>5. ~UNCHANGED vars
    BY <1>6, <1>7 DEF vars, feedVars
  <2>6. \A c \in Registered, r \in ResourceIds : ~release_resource(c, r)
    BY <1>6, <1>7 DEF release_resource, feedVars
  <2>7. Next /\ ~Store /\ ~Release /\ ~SetRequireApproval
    BY <2>3, <2>4, <2>5, <2>6 DEF Store, Release, SetRequireApproval
  <2>8. Register \/ Disconnect \/ Commit => Feed!Next \/ Quiet
    BY <1>2, <1>3, <1>4, <2>1, <2>2 DEF Register, Disconnect, Commit
  <2>9. SetEnabled \/ SetApplicationPolicy \/ SetApplicationPosition => Feed!Next
    BY <1>5 DEF SetEnabled, set_enabled, SetApplicationPolicy, set_application_policy,
                SetApplicationPosition, set_application_position
  <2> QED BY <1>1, <2>7, <2>8, <2>9 DEF Next
<1> QED BY <1>0, <1>1, <1>7, RecordedOrQuiet

-----------------------------------------------------------------------------
(* The theorem.                                                            *)

(* The invariant holds in every reachable state.                           *)
LEMMA StoreInvHolds == Spec => []StoreInv
<1>1. Init => RegisteredOnce /\ RegisteredKnown
  BY DEF Init, NoProviders, Registered, RegisteredOnce, RegisteredKnown
<1>2. TypeOK /\ RegisteredOnce /\ RegisteredKnown /\ [Next]_vars /\ TypeOK'
        => RegisteredOnce' /\ RegisteredKnown'
  BY RegisteredStep
<1>3. TypeOK /\ NoDanglingResource /\ PublishedIsCommitted /\ RegisteredOnce
        /\ RegisteredKnown /\ Accounts(providers, resource_bytes) => StoreInv
  BY DEF StoreInv, ScenesAreWhole
<1> QED
  BY <1>1, <1>2, <1>3, TypeCorrect, ScenesStayWhole, AccountsAreKept, PTL DEF Spec

(* A renderer that has the store's limits can hold what is visible in any  *)
(* state: the broker never shows it more providers, more resources or more *)
(* bytes than it takes.                                                    *)
THEOREM VisibleAlwaysFits == Spec => [](VisibleScenesFit /\ Feed!WithinLimits)
BY StoreInvHolds, InvIsWithinLimits, PTL

(* The store is a change feed, as the renderer sessions assume: an upsert  *)
(* or a removal that it records is the whole difference of what is visible, *)
(* nothing visible changes without a record, and all of it fits.           *)
THEOREM StoreImplementsFeed == Spec => ImplementsFeed
<1>1. Init => Feed!Init
  <2> SUFFICES ASSUME Init PROVE Feed!Init
    OBVIOUS
  <2>1. VisibleScenes = {}
    BY DEF Init, NoProviders, VisibleScenes, Registered
  <2>2. VisibleOrder = [a \in {} |-> 0]
    BY <2>1 DEF VisibleOrder, ApplicationsOf
  <2> QED BY <2>1, <2>2 DEF Init, Feed!Init
<1>2. StoreInv /\ StoreInv' /\ VisibleIsSound /\ VisibleIsSound' /\ Feed!WithinLimits'
        /\ [Next]_vars => [Feed!Next]_(Feed!feed)
  BY StepRefines
<1> QED
  BY <1>1, <1>2, StoreInvHolds, InvMakesSound, InvIsWithinLimits, PTL
  DEF Spec, ImplementsFeed, Feed!Spec

=============================================================================
