----------------------------- MODULE SceneFeed ------------------------------
(***************************************************************************)
(* The scene store as a renderer session sees it: the scenes that are      *)
(* visible, the order the user gave their applications, a revision, and    *)
(* the retained changes.  SceneStore is shown to implement this module;    *)
(* SceneStream composes it with a renderer.                                *)
(***************************************************************************)
EXTENDS Scene

CONSTANTS
    FeedOrders,         \* orders the applications may have
    MaximumRevision     \* bound of the model

ASSUME FeedAssumption == FeedOrders \subseteq Int /\ MaximumRevision \in Nat

VARIABLES visible, order, revision, changes

feed == <<visible, order, revision, changes>>

snapshot == [revision |-> revision, providers |-> Layered(visible, order)]

Init ==
    /\ visible = {}
    /\ order = [a \in {} |-> 0]
    /\ revision = 0
    /\ changes = <<>>

Record(kind, identity, provider) ==
    /\ revision < MaximumRevision
    /\ revision' = revision + 1
    /\ changes' = Retained(Append(changes, Change(revision + 1, kind, identity, provider)))

Except(identity) == {s \in visible : s.identity # identity}

(* An application that shows something keeps its place; a new one may get  *)
(* any.                                                                    *)
Upsert(scene) ==
    /\ visible' = Except(scene.identity) \cup {scene}
    /\ order' \in [ApplicationsOf(visible') -> FeedOrders]
    /\ \A a \in DOMAIN order \cap DOMAIN order' : order'[a] = order[a]
    /\ Record("upsert", scene.identity, scene)

RemoveProvider(identity) ==
    /\ \E s \in visible : s.identity = identity
    /\ visible' = Except(identity)
    /\ order' = [a \in ApplicationsOf(visible') |-> order[a]]
    /\ Record("remove_provider", identity, None)

(* A change of policy: any scenes appear, disappear or change places.      *)
Reset ==
    /\ visible' \in SUBSET PublishableScenes
    /\ \A s, t \in visible' : s.identity = t.identity => s = t
    /\ order' \in [ApplicationsOf(visible') -> FeedOrders]
    /\ Record("reset", None, None)

(* What every operation of the store leaves visible: no more providers and *)
(* no more resources than the limits it shares with the renderers.         *)
WithinLimits ==
    /\ IsFiniteSet(visible) /\ Cardinality(visible) <= MaximumProviders
    /\ ScenesFit(visible)

Next ==
    /\ \/ \E scene \in PublishableScenes : Upsert(scene)
       \/ \E identity \in Identities : RemoveProvider(identity)
       \/ Reset
    /\ WithinLimits'

Spec == Init /\ [][Next]_feed

(* Not a step of the feed: a new broker process, with nothing registered.  *)
Restart ==
    /\ visible' = {}
    /\ order' = [a \in {} |-> 0]
    /\ revision' = 0
    /\ changes' = <<>>

=============================================================================
