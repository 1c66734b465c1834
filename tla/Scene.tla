------------------------------- MODULE Scene --------------------------------
(***************************************************************************)
(* The data a provider keeps on the broker: its elements, its image        *)
(* resources, and the ProviderScene that the two make (scene/src/store.cpp *)
(* make_published_scene, scene/src/validation.cpp valid_provider_scene).   *)
(* What an element draws is left out: of its content stay the kind, the    *)
(* parent, the resource it shows, the frame of a GIF, whether its own      *)
(* fields are in range, and the size the scene limit counts.               *)
(***************************************************************************)
EXTENDS Overlay, Sequences, FiniteSetsExt, SequencesExt

CONSTANTS
    Instances,              \* instance ids, ordered as the code compares them
    ElementIds,
    Contents,               \* what an UpsertElement may carry
    ResourceIds,
    Resources,              \* what an upload may decode to
    MaximumElements,        \* maximum_elements_per_provider
    MaximumGroupDepth,
    MaximumChildren,        \* maximum_children_per_group
    MaximumSceneBytes,      \* maximum_scene_bytes_per_provider
    MaximumProviders,
    MaximumResources,       \* maximum_resources_per_provider
    MaximumProviderBytes,   \* resource bytes, per plane, of one provider
    MaximumGlobalBytes,     \* resource bytes, per plane, of all providers
    MaximumRetainedChanges

Planes == {"encoded", "decoded"}    \* the two sizes an ImageResource counts

ContentType ==
    [kind : {"group", "shape", "image", "gif"}, parent_id : Nat,
     anchored : BOOLEAN,            \* the anchor is not top_left
     well_formed : BOOLEAN,         \* geometry, text and colours in range
     resource_id : Nat, frame_index : Nat, bytes : Nat]

ASSUME SceneAssumption ==
    /\ Applications \subseteq Nat /\ IsFiniteSet(Applications)
    /\ Instances \subseteq Nat
    /\ ElementIds \subseteq Nat \ {0} /\ IsFiniteSet(ElementIds)
    /\ ResourceIds \subseteq Nat \ {0} /\ IsFiniteSet(ResourceIds)
    /\ Contents \subseteq ContentType
    /\ Resources \subseteq [bytes : [Planes -> Nat], frames : Nat]
    /\ None \notin Contents \cup Resources
    /\ {MaximumElements, MaximumGroupDepth, MaximumChildren, MaximumSceneBytes,
        MaximumProviders, MaximumResources, MaximumRetainedChanges} \subseteq Nat
    /\ {MaximumProviderBytes, MaximumGlobalBytes} \subseteq [Planes -> Nat]
    /\ None \notin [identity : [application_id : Applications, instance_id : Instances],
                   elements : [ElementIds -> Contents \cup {None}],
                   resources : [ResourceIds -> Resources \cup {None}]]

Identities == [application_id : Applications, instance_id : Instances]
ElementMaps == [ElementIds -> Contents \cup {None}]
ResourceMaps == [ResourceIds -> Resources \cup {None}]
Scenes == [identity : Identities, elements : ElementMaps, resources : ResourceMaps]

ReferencedBy(elements, r) ==
    \E e \in Present(elements) :
        elements[e].kind \in {"image", "gif"} /\ elements[e].resource_id = r

(* The scene shares the resources its elements reference and no other.     *)
PublishedScene(identity, elements, resources) ==
    [identity |-> identity,
     elements |-> elements,
     resources |-> [r \in ResourceIds |->
                       IF ReferencedBy(elements, r) THEN resources[r] ELSE None]]

-----------------------------------------------------------------------------
(* Validation of a candidate scene.                                        *)

ValidElement(id, content) == content.well_formed /\ content.parent_id # id

FitsSizeLimit(elements) ==
    MapThenSumSet(LAMBDA e : elements[e].bytes, Present(elements))
        <= MaximumSceneBytes

Children(elements, id) == {e \in Present(elements) : elements[e].parent_id = id}

ParentsAreGroups(elements) ==
    \A e \in Present(elements) :
        LET parent == elements[e].parent_id
        IN  parent # 0 =>
                /\ ~elements[e].anchored
                /\ parent \in Present(elements)
                /\ elements[parent].kind = "group"
                /\ Cardinality(Children(elements, parent)) <= MaximumChildren

(* The k-th ancestor of an element, 0 above a root.                        *)
Ancestor(elements, id) ==
    LET climb[k \in 0..MaximumGroupDepth] ==
            IF k = 0 THEN id
            ELSE IF climb[k - 1] = 0 THEN 0 ELSE elements[climb[k - 1]].parent_id
    IN  climb

(* The depth-first visit refuses a cycle and a chain longer than the limit: *)
(* either way an element whose chain of parents does not end in time.       *)
DepthIsBounded(elements) ==
    \A e \in Present(elements) : Ancestor(elements, e)[MaximumGroupDepth] = 0

ValidProviderScene(elements) ==
    ParentsAreGroups(elements) /\ DepthIsBounded(elements)

(* Every element that shows a resource finds it stored, and a GIF element   *)
(* finds an animation that has the frame it starts from.                    *)
ResourcesUsable(elements, resources) ==
    \A e \in Present(elements) :
        LET content == elements[e]
            resource == resources[content.resource_id]
        IN  content.kind \in {"image", "gif"} =>
                /\ content.resource_id \in Present(resources)
                /\ content.kind = "gif" =>
                       resource.frames >= 2 /\ content.frame_index < resource.frames

(* A scene fit to be published: it carries the resources it shows, all.    *)
PublishableScenes ==
    {s \in Scenes :
        /\ ResourcesUsable(s.elements, s.resources)
        /\ Present(s.resources) = {r \in ResourceIds : ReferencedBy(s.elements, r)}}

-----------------------------------------------------------------------------
(* Resource limits over a set of held resources, each with the identity of *)
(* its provider: the renderer's resource_maps_fit, provider_scenes_fit.    *)

Of(held, identity) == {h \in held : h.identity = identity}

HeldBytes(held, p) == SumFunction([h \in held |-> h.resource.bytes[p]])

HeldFits(held) ==
    /\ \A h \in held :
           /\ Cardinality(Of(held, h.identity)) <= MaximumResources
           /\ \A p \in Planes :
                  HeldBytes(Of(held, h.identity), p) <= MaximumProviderBytes[p]
    /\ \A p \in Planes : HeldBytes(held, p) <= MaximumGlobalBytes[p]

ScenesFit(scenes) ==
    HeldFits(UNION {{[identity |-> s.identity, id |-> r, resource |-> s.resources[r]] :
                        r \in Present(s.resources)} : s \in scenes})

-----------------------------------------------------------------------------
(* Layers and the change feed.                                             *)

(* The elements of a set as a sequence: before each, those below it.       *)
InOrder(S, Below(_, _)) ==
    [i \in 1..Cardinality(S) |->
        CHOOSE s \in S : Cardinality({t \in S : Below(t, s)}) = i - 1]
Ascending(S) == InOrder(S, <)

ApplicationsOf(scenes) == {s.identity.application_id : s \in scenes}

(* Scenes from the back to the front, by policy order and then by name.    *)
Layered(scenes, order) ==
    LET Below(left, right) ==
            LET l == left.identity
                r == right.identity
                a == l.application_id
                b == r.application_id
            IN  \/ order[a] < order[b]
                \/ order[a] = order[b] /\ a < b
                \/ a = b /\ l.instance_id < r.instance_id
    IN  InOrder(scenes, Below)

ChangeRecords ==
    [revision : Nat, kind : {"upsert"}, identity : Identities, provider : Scenes]
    \cup [revision : Nat, kind : {"remove_provider"}, identity : Identities,
          provider : {None}]
    \cup [revision : Nat, kind : {"reset"}, identity : {None}, provider : {None}]

Change(rev, kind, identity, provider) ==
    [revision |-> rev, kind |-> kind, identity |-> identity, provider |-> provider]

RetainedLimit == IF MaximumRetainedChanges = 0 THEN 1 ELSE MaximumRetainedChanges

(* Mutant: one change too few is kept.                                     *)
RetainedShort(feed) ==
    IF Len(feed) >= RetainedLimit THEN Tail(feed) ELSE feed

Retained(feed) ==
    IF Len(feed) > RetainedLimit
    THEN SubSeq(feed, Len(feed) - RetainedLimit + 1, Len(feed))
    ELSE feed

(* The changes above a revision, in their order.                           *)
Newer(feed, known) ==
    LET at == Ascending({i \in DOMAIN feed : feed[i].revision > known})
    IN  [n \in DOMAIN at |-> feed[at[n]]]

(* Mutant: a reader that missed one dropped change is not told of the gap. *)
FeedAfterMissingOne(feed, revision, known) ==
    IF known >= revision THEN [history_gap |-> FALSE, changes |-> <<>>]
    ELSE IF feed = <<>> \/ known + 2 < Head(feed).revision
    THEN [history_gap |-> TRUE, changes |-> <<>>]
    ELSE [history_gap |-> FALSE, changes |-> Newer(feed, known)]

(* What a reader that holds revision "known" is told (changes_after_locked). *)
FeedAfter(feed, revision, known) ==
    IF known >= revision THEN [history_gap |-> FALSE, changes |-> <<>>]
    ELSE IF feed = <<>> \/ known + 1 < Head(feed).revision
    THEN [history_gap |-> TRUE, changes |-> <<>>]
    ELSE [history_gap |-> FALSE, changes |-> Newer(feed, known)]

=============================================================================
