----------------------------- MODULE SceneStore -----------------------------
(***************************************************************************)
(* The broker's scene store (scene/src/store.cpp).  One mutex guards every *)
(* operation, so an operation is one action.  A call that the code rejects *)
(* changes nothing: its early returns are the guards of the action.        *)
(***************************************************************************)
EXTENDS Scene, Policy

CONSTANTS
    Connections,            \* broker connection ids, never reused by main.cpp
    TransactionIds,
    Mutations,              \* the mutation lists a transaction may carry
    Orders,                 \* policy orders a controller or a policy file sets
    LoadedPolicies,         \* policies the broker may start with
    MaximumMutations,       \* maximum_mutations_per_transaction
    MaximumRevision         \* bound of the model: the code counts to 2^64

VARIABLES
    providers,          \* connection -> ProviderState, None when not registered
    policies,           \* application -> its policy, None when never seen
    enabled,
    require_approval,
    next_order,
    revision,
    changes,            \* the retained tail of the change feed
    resource_bytes,     \* plane -> bytes held for all providers
    current_snapshot

vars == <<providers, policies, enabled, require_approval, next_order, revision,
          changes, resource_bytes, current_snapshot>>
policyVars == <<policies, enabled, require_approval, next_order>>
feedVars == <<revision, changes, current_snapshot>>

ProviderStates ==
    [identity : Identities, elements : ElementMaps, resources : ResourceMaps,
     bytes : [Planes -> Int], last_transaction_id : Nat, published : Scenes]

ASSUME StoreAssumption ==
    /\ TransactionIds \subseteq Nat
    /\ Mutations \subseteq Seq([id : ElementIds, content : Contents \cup {None}])
    /\ Orders \subseteq {o \in Int : o <= MaximumOrder}
    /\ LoadedPolicies \subseteq OverlayPolicies
    /\ {MaximumMutations, MaximumRevision} \subseteq Nat
    /\ None \notin ProviderStates

-----------------------------------------------------------------------------
(* Visibility, layering and the change feed.                               *)

Registered == {c \in Connections : providers[c] # None}
Known == {a \in Applications : policies[a] # None}

ProviderVisible(application) ==
    /\ enabled
    /\ policies[application] # None
    /\ policies[application].approved /\ policies[application].visible

Shown(c) == ProviderVisible(providers[c].identity.application_id)

VisibleScenes == {providers[c].published : c \in {r \in Registered : Shown(r)}}

VisibleOrder == [a \in ApplicationsOf(VisibleScenes) |-> policies[a].order]

PublishedLayers == Layered(VisibleScenes, VisibleOrder)

(* Mutant: the snapshot is rebuilt before the operation takes effect.      *)
RecordBeforeApplying(kind, identity, provider) ==
    /\ revision < MaximumRevision
    /\ revision' = revision + 1
    /\ changes' = Retained(Append(changes, Change(revision + 1, kind, identity, provider)))
    /\ current_snapshot' = [revision |-> revision + 1, providers |-> PublishedLayers]

(* record_change_locked and, with None for both, record_reset_locked: the  *)
(* operation publishes the state it leaves, in the same critical section.  *)
Record(kind, identity, provider) ==
    /\ revision < MaximumRevision
    /\ revision' = revision + 1
    /\ changes' = Retained(Append(changes, Change(revision + 1, kind, identity, provider)))
    /\ current_snapshot' = [revision |-> revision + 1, providers |-> PublishedLayers']

RecordReset == Record("reset", None, None)

(* Mutant: a hidden provider's scene is recorded too.                      *)
RecordUpsertAlways(c) ==
    Record("upsert", providers'[c].identity, providers'[c].published)

RecordUpsertIfVisible(c) ==
    IF Shown(c)'
    THEN Record("upsert", providers'[c].identity, providers'[c].published)
    ELSE UNCHANGED feedVars

-----------------------------------------------------------------------------
(* Registration.                                                           *)

CanRegister(c, identity) ==
    /\ providers[c] = None
    /\ \A r \in Registered : providers[r].identity # identity
    /\ Cardinality(Registered) < MaximumProviders

register_provider(c, identity) ==
    LET a == identity.application_id
        elements == [e \in ElementIds |-> None]
        resources == [r \in ResourceIds |-> None]
    IN  /\ CanRegister(c, identity)
        /\ IF policies[a] = None
           THEN /\ policies' = [policies EXCEPT ![a] =
                       [approved |-> ~require_approval, visible |-> TRUE,
                        order |-> next_order]]
                /\ next_order' = next_policy_order(next_order)
           ELSE UNCHANGED <<policies, next_order>>
        /\ UNCHANGED <<enabled, require_approval, resource_bytes>>
        /\ providers' = [providers EXCEPT ![c] =
               [identity |-> identity, elements |-> elements, resources |-> resources,
                bytes |-> [p \in Planes |-> 0], last_transaction_id |-> 0,
                published |-> PublishedScene(identity, elements, resources)]]
        /\ RecordUpsertIfVisible(c)

(* Mutant: the bytes of a provider that leaves stay counted.               *)
disconnect_leaking(c) ==
    /\ c \in Registered
    /\ providers' = [providers EXCEPT ![c] = None]
    /\ UNCHANGED <<policyVars, resource_bytes>>
    /\ IF Shown(c)
       THEN Record("remove_provider", providers[c].identity, None)
       ELSE UNCHANGED feedVars

(* The scene leaves with its connection; its policy stays.                 *)
disconnect(c) ==
    /\ c \in Registered
    /\ providers' = [providers EXCEPT ![c] = None]
    /\ resource_bytes' = [p \in Planes |-> resource_bytes[p] - providers[c].bytes[p]]
    /\ UNCHANGED policyVars
    /\ IF Shown(c)
       THEN Record("remove_provider", providers[c].identity, None)
       ELSE UNCHANGED feedVars

-----------------------------------------------------------------------------
(* Resources.                                                              *)

(* Mutant: an upload is measured alone, not with what is stored already.   *)
FitsAlone(current, replaced, replacement, maximum) == replacement <= maximum

FitsReplacement(current, replaced, replacement, maximum) ==
    /\ replaced <= current
    /\ current - replaced <= maximum
    /\ replacement <= maximum - (current - replaced)

(* Mutant: a resource that only a GIF shows counts as unused.              *)
referenced_by_image(provider, r) ==
    \E e \in Present(provider.elements) :
        provider.elements[e].kind = "image" /\ provider.elements[e].resource_id = r

resource_is_referenced(provider, r) == ReferencedBy(provider.elements, r)

BytesOf(resource, p) == IF resource = None THEN 0 ELSE resource.bytes[p]

CanStore(c, r, resource) ==
    /\ c \in Registered
    /\ LET provider == providers[c]
           existing == provider.resources[r]
       IN  /\ existing # None => ~resource_is_referenced(provider, r)
           /\ existing = None =>
                  Cardinality(Present(provider.resources)) < MaximumResources
           /\ \A p \in Planes :
                  /\ FitsReplacement(provider.bytes[p], BytesOf(existing, p),
                                     resource.bytes[p], MaximumProviderBytes[p])
                  /\ FitsReplacement(resource_bytes[p], BytesOf(existing, p),
                                     resource.bytes[p], MaximumGlobalBytes[p])

store_resource(c, r, resource) ==
    LET replaced == providers[c].resources[r]
        Recount(bytes) == [p \in Planes |->
            bytes[p] - BytesOf(replaced, p) + BytesOf(resource, p)]
    IN  /\ CanStore(c, r, resource)
        /\ providers' = [providers EXCEPT
               ![c].resources = [@ EXCEPT ![r] = resource],
               ![c].bytes = Recount(@)]
        /\ resource_bytes' = Recount(resource_bytes)
        /\ UNCHANGED <<policyVars, feedVars>>

CanRelease(c, r) ==
    /\ c \in Registered
    /\ r \in Present(providers[c].resources)
    /\ ~resource_is_referenced(providers[c], r)

release_resource(c, r) ==
    LET released == providers[c].resources[r]
        Recount(bytes) == [p \in Planes |-> bytes[p] - BytesOf(released, p)]
    IN  /\ CanRelease(c, r)
        /\ providers' = [providers EXCEPT
               ![c].resources = [@ EXCEPT ![r] = None],
               ![c].bytes = Recount(@)]
        /\ resource_bytes' = Recount(resource_bytes)
        /\ UNCHANGED <<policyVars, feedVars>>

-----------------------------------------------------------------------------
(* Transactions.                                                           *)

(* The mutations apply in order, so the last one on an element decides.    *)
Candidate(elements, mutations) ==
    [e \in ElementIds |->
        LET touching == {i \in DOMAIN mutations : mutations[i].id = e}
        IN  IF touching = {} THEN elements[e] ELSE mutations[Max(touching)].content]

WellFormedTransaction(id, mutations) ==
    id # 0 /\ Len(mutations) \in 1..MaximumMutations

(* Mutant: only an immediate retry is recognised.                          *)
DifferentTransaction(id, last) == id # last

NewerTransaction(id, last) == id > last

CanCommit(c, id, mutations) ==
    /\ WellFormedTransaction(id, mutations)
    /\ c \in Registered
    /\ NewerTransaction(id, providers[c].last_transaction_id)
    /\ \A i \in DOMAIN mutations : mutations[i].content # None =>
           ValidElement(mutations[i].id, mutations[i].content)
    /\ LET candidate == Candidate(providers[c].elements, mutations)
       IN  /\ Cardinality(Present(candidate)) <= MaximumElements
           /\ FitsSizeLimit(candidate)
           /\ ValidProviderScene(candidate)
           /\ ResourcesUsable(candidate, providers[c].resources)

commit(c, id, mutations) ==
    LET provider == providers[c]
        candidate == Candidate(provider.elements, mutations)
    IN  /\ CanCommit(c, id, mutations)
        /\ providers' = [providers EXCEPT ![c] =
               [provider EXCEPT
                   !.elements = candidate,
                   !.last_transaction_id = id,
                   !.published = PublishedScene(provider.identity, candidate,
                                                provider.resources)]]
        /\ UNCHANGED <<policyVars, resource_bytes>>
        /\ RecordUpsertIfVisible(c)

-----------------------------------------------------------------------------
(* Policy, as a controller sets it.  Each operation first hands the policy *)
(* it would leave to its commit callback and gives up when that fails: the *)
(* actions are the calls whose callback succeeded.                         *)

set_enabled(value) ==
    /\ enabled # value
    /\ enabled' = value
    /\ UNCHANGED <<providers, policies, require_approval, next_order, resource_bytes>>
    /\ RecordReset

set_require_approval(required) ==
    /\ require_approval # required
    /\ require_approval' = required
    /\ UNCHANGED <<providers, policies, enabled, next_order, resource_bytes, feedVars>>

set_application_policy(a, approved, visible, order) ==
    LET update == [approved |-> approved, visible |-> visible, order |-> order]
        above == next_policy_order(order)
    IN  /\ a \in Known
        /\ policies[a] # update
        /\ policies' = [policies EXCEPT ![a] = update]
        /\ next_order' = IF above > next_order THEN above ELSE next_order
        /\ UNCHANGED <<providers, enabled, require_approval, resource_bytes>>
        /\ RecordReset

set_application_position(a, position) ==
    /\ a \in Known
    /\ position < Cardinality(Known)
    /\ Position(policies, a, Known) # position
    /\ policies' = Renumbered(policies, a, position)
    /\ next_order' = Cardinality(Known)
    /\ UNCHANGED <<providers, enabled, require_approval, resource_bytes>>
    /\ RecordReset

-----------------------------------------------------------------------------
(* The constructor: an empty store with the policy it was given; a new     *)
(* application will be layered above every one in it.                      *)

NoProviders == [c \in Connections |-> None]
NoBytes == [p \in Planes |-> 0]
EmptySnapshot == [revision |-> 0, providers |-> <<>>]

Init ==
    \E loaded \in LoadedPolicies :
        /\ providers = NoProviders
        /\ policies = loaded.applications
        /\ enabled = loaded.enabled
        /\ require_approval = loaded.require_approval
        /\ next_order = LoadedOrder(loaded.applications)
        /\ revision = 0
        /\ changes = <<>>
        /\ resource_bytes = NoBytes
        /\ current_snapshot = EmptySnapshot

Register == \E c \in Connections, i \in Identities : register_provider(c, i)
Disconnect == \E c \in Connections : disconnect(c)
Store == \E c \in Registered, r \in ResourceIds, x \in Resources : store_resource(c, r, x)
Release == \E c \in Registered, r \in ResourceIds : release_resource(c, r)
Commit == \E c \in Registered, id \in TransactionIds, m \in Mutations : commit(c, id, m)
SetEnabled == \E value \in BOOLEAN : set_enabled(value)
SetRequireApproval == \E required \in BOOLEAN : set_require_approval(required)
SetApplicationPolicy ==
    \E a \in Applications, approved, visible \in BOOLEAN, order \in Orders :
        set_application_policy(a, approved, visible, order)
SetApplicationPosition ==
    \E a \in Applications, position \in 0..Cardinality(Applications) :
        set_application_position(a, position)

Next ==
    \/ Register
    \/ Disconnect
    \/ Store
    \/ Release
    \/ Commit
    \/ SetEnabled
    \/ SetRequireApproval
    \/ SetApplicationPolicy
    \/ SetApplicationPosition

Spec == Init /\ [][Next]_vars

-----------------------------------------------------------------------------
(* Properties.                                                             *)

(* Every variable keeps its type.  The layers of current_snapshot are told *)
(* by SnapshotIsCurrent.                                                   *)
TypeOK ==
    /\ providers \in [Connections -> ProviderStates \cup {None}]
    /\ policies \in PolicyMaps
    /\ enabled \in BOOLEAN
    /\ require_approval \in BOOLEAN
    /\ next_order \in Nat
    /\ revision \in Nat
    /\ changes \in Seq(ChangeRecords)
    /\ resource_bytes \in [Planes -> Int]
    /\ DOMAIN current_snapshot = {"revision", "providers"}

(* The snapshot a renderer would be given is the visible scenes, in the    *)
(* user's order, at the current revision.  The code rebuilds it only when  *)
(* it records a change, so every operation that skips the record (a hidden *)
(* registration, commit or disconnect, set_require_approval, a resource    *)
(* operation) must leave what it is built from alone.                      *)
SnapshotIsCurrent ==
    current_snapshot = [revision |-> revision, providers |-> PublishedLayers]

(* What is published of a provider is what it committed last: replacing or *)
(* releasing a resource never makes the published scene, which shares the  *)
(* resource objects, differ from the provider's elements and resources.    *)
PublishedIsCommitted ==
    \A c \in Registered :
        LET provider == providers[c]
        IN  provider.published = PublishedScene(provider.identity,
                provider.elements, provider.resources)

(* No element of a provider shows a resource that is gone, or a GIF frame  *)
(* that its animation does not have, whatever uploads and releases came    *)
(* after the commit that checked it.                                       *)
NoDanglingResource ==
    \A c \in Registered :
        ResourcesUsable(providers[c].elements, providers[c].resources)

(* The retained changes are consecutive revisions that end at the current  *)
(* one, and none is dropped while there is room: changes_after relies on   *)
(* both to tell a gap from a complete answer.                              *)
FeedIsContiguous ==
    /\ \A i \in 1..Len(changes) : changes[i].revision = revision - Len(changes) + i
    /\ Len(changes) = IF revision < RetainedLimit THEN revision ELSE RetainedLimit

(* A new application is layered above all the known ones: next_order stays *)
(* above every order, or stops at INT32_MAX without overflowing.           *)
NextOrderOnTop ==
    /\ next_order <= MaximumOrder
    /\ \A a \in Known :
           policies[a].order < next_order \/ next_order = MaximumOrder

(* The byte counters are the sums of what is stored, and stay within the   *)
(* limits: an unsigned counter that drifted would wrap or lock uploads out. *)
BytesAccounted ==
    LET Stored(c, p) == SumFunction([r \in Present(providers[c].resources) |->
                                        providers[c].resources[r].bytes[p]])
    IN  \A p \in Planes :
            /\ \A c \in Registered :
                   providers[c].bytes[p] = Stored(c, p)
                   /\ providers[c].bytes[p] <= MaximumProviderBytes[p]
            /\ resource_bytes[p] = SumFunction([c \in Registered |-> Stored(c, p)])
            /\ resource_bytes[p] <= MaximumGlobalBytes[p]

(* The resources that the visible scenes share fit the limits, so that a   *)
(* renderer with the same limits can take any state of the store.          *)
VisibleScenesFit == ScenesFit(VisibleScenes)

(* The store is a change feed: an upsert or a removal it records is the    *)
(* whole difference between what was visible before and after, a change to *)
(* several scenes or to their order is a reset, and what is visible never  *)
(* changes without a record.                                               *)
Feed == INSTANCE SceneFeed
            WITH visible <- VisibleScenes, order <- VisibleOrder, FeedOrders <- Int

ImplementsFeed == Feed!Spec

(* The elements of a registered provider change only with a transaction id *)
(* greater than all it has applied: a retry applies nothing twice and a    *)
(* late transaction undoes nothing.                                        *)
TransactionAppliesOnce ==
    \A c \in Registered \cap Registered' :
        \/ /\ providers'[c].elements = providers[c].elements
           /\ providers'[c].last_transaction_id = providers[c].last_transaction_id
        \/ providers'[c].last_transaction_id > providers[c].last_transaction_id

EveryTransactionAppliesOnce == [][TransactionAppliesOnce]_vars

=============================================================================
