---------------------------- MODULE SceneStream -----------------------------
(***************************************************************************)
(* One renderer following the scene store over its socket: the broker's    *)
(* RendererSession (broker/src/renderer_session.cpp, its loop in           *)
(* connection.cpp), the ordered packet socket, and the SceneMirror that    *)
(* the SceneClient thread feeds (renderer/src).  The store's operations    *)
(* interleave with every step.  The hello exchange is left out: a          *)
(* connection starts with the client's subscription on its way.            *)
(***************************************************************************)
EXTENDS SceneFeed

CONSTANTS
    ChannelCapacity,    \* packets the socket buffers before a send blocks
    MaximumFailures     \* bound of the model on lost connections and restarts

(* What crosses the socket, what the broker keeps of a connection, and the *)
(* snapshot that a mirror is receiving.                                    *)
PacketTypes ==
    {"snapshot_begin", "snapshot_provider", "snapshot_end", "resource_available",
     "scene_updated", "scene_removed"}
Packets ==
    [type : PacketTypes, revision : Nat, identity : Identities \cup {None},
     body : Nat \cup {None} \cup ElementMaps \cup [id : ResourceIds, resource : Resources]]
Sessions ==
    [subscribed : BOOLEAN, revision : Nat, outgoing : Seq(Packets), behind : BOOLEAN]
Holdings == [identity : Identities, id : ResourceIds, resource : Resources]
Pending ==
    [revision : Nat, expected : Nat, providers : SUBSET Scenes, resources : SUBSET Holdings]

ASSUME StreamAssumption ==
    /\ {ChannelCapacity, MaximumFailures} \subseteq Nat
    /\ None \notin Sessions \cup Pending

VARIABLES
    session,        \* the broker's end, None without a connection
    channel,        \* packets sent and not received
    requests,       \* subscriptions sent by the client and not processed
    client,         \* "disconnected" or "connected"
    mirror,         \* the renderer's SceneMirror: it outlives connections
    failures,
    published,      \* history: each set of visible scenes, over all broker runs
    run_start,      \* history: where the current run begins in "published"
    stream_start,   \* history: where the run the connection belongs to begins
    position        \* history: what the mirror shows, in "published"

sessionVars == <<session, channel, requests>>
clientVars == <<client, mirror, position>>
historyVars == <<published, run_start>>
streamVars == <<feed, sessionVars, clientVars, historyVars, failures, stream_start>>

-----------------------------------------------------------------------------
(* Packets (broker/src/snapshot_encoder.cpp).  A scene on the wire carries *)
(* its elements; its resources go before it, one packet each.              *)

Packet(type, rev, identity, body) ==
    [type |-> type, revision |-> rev, identity |-> identity, body |-> body]

ResourcePackets(scene, rev) ==
    LET ids == Ascending(Present(scene.resources))
    IN  [i \in DOMAIN ids |->
            Packet("resource_available", rev, scene.identity,
                   [id |-> ids[i], resource |-> scene.resources[ids[i]]])]

ScenePackets(type, scene, rev) ==
    Append(ResourcePackets(scene, rev), Packet(type, rev, scene.identity, scene.elements))

SnapshotPackets(taken) ==
    LET rev == taken.revision
        scenes == [i \in DOMAIN taken.providers |->
                      ScenePackets("snapshot_provider", taken.providers[i], rev)]
    IN  <<Packet("snapshot_begin", rev, None, Len(taken.providers))>>
            \o FlattenSeq(scenes) \o <<Packet("snapshot_end", rev, None, None)>>

ChangePackets(change) ==
    IF change.kind = "upsert"
    THEN ScenePackets("scene_updated", change.provider, change.revision)
    ELSE <<Packet("scene_removed", change.revision, change.identity, None)>>

-----------------------------------------------------------------------------
(* The broker's side of the connection.                                    *)

Idle == session # None /\ session.outgoing = <<>> /\ ~session.behind

(* Mutant: the session does not note the revision it sends.                *)
SendSnapshotUnnoted ==
    session' = [session EXCEPT !.outgoing = SnapshotPackets(snapshot),
                               !.subscribed = TRUE, !.behind = FALSE]

SendSnapshot ==
    session' = [session EXCEPT !.outgoing = SnapshotPackets(snapshot),
                               !.revision = revision, !.subscribed = TRUE,
                               !.behind = FALSE]

(* RendererSession::process: a subscription is always answered with the    *)
(* whole snapshot, whatever revision the client says it knows.             *)
ProcessSubscription ==
    /\ Idle
    /\ requests > 0
    /\ requests' = requests - 1
    /\ SendSnapshot
    /\ UNCHANGED <<feed, channel, clientVars, historyVars, failures, stream_start>>

(* wait_for_updates reads the feed under the store's mutex; after a gap or *)
(* a reset it goes back for the snapshot, and the store may have moved on. *)
WaitForUpdates ==
    /\ Idle
    /\ session.subscribed
    /\ revision > session.revision
    /\ LET batch == FeedAfter(changes, revision, session.revision)
           updates == [i \in DOMAIN batch.changes |-> ChangePackets(batch.changes[i])]
       IN  session' =
             IF \/ batch.history_gap
                \/ \E i \in DOMAIN batch.changes : batch.changes[i].kind = "reset"
             THEN [session EXCEPT !.behind = TRUE]
             ELSE [session EXCEPT !.outgoing = FlattenSeq(updates),
                                  !.revision = Last(batch.changes).revision]
    /\ UNCHANGED <<feed, channel, requests, clientVars, historyVars, failures, stream_start>>

TakeSnapshot ==
    /\ session # None
    /\ session.behind
    /\ SendSnapshot
    /\ UNCHANGED <<feed, channel, requests, clientVars, historyVars, failures, stream_start>>

SendPacket ==
    /\ session # None
    /\ session.outgoing # <<>>
    /\ Len(channel) < ChannelCapacity
    /\ channel' = Append(channel, Head(session.outgoing))
    /\ session' = [session EXCEPT !.outgoing = Tail(@)]
    /\ UNCHANGED <<feed, requests, clientVars, historyVars, failures, stream_start>>

(* The broker gives the connection up between two packets: a send timed    *)
(* out, the poll failed.  What the socket holds can still be received.     *)
CloseSession ==
    /\ session # None
    /\ failures < MaximumFailures
    /\ failures' = failures + 1
    /\ session' = None
    /\ requests' = 0
    /\ UNCHANGED <<feed, channel, clientVars, historyVars, stream_start>>

-----------------------------------------------------------------------------
(* The mirror m and what a packet p makes of it (SceneMirror::apply_packet) *)
(* "pending" is the snapshot being received, "staged" the resources of the *)
(* next single update.                                                     *)

EmptyMirror ==
    [revision |-> 0, providers |-> {}, pending |-> None,
     staged_revision |-> 0, staged |-> {}]

(* attach_resources: the resources that came before the scene are exactly  *)
(* the ones its elements show, and its GIFs have the frame they ask for.   *)
ResourcesOf(held) ==
    [r \in ResourceIds |->
        IF \E h \in held : h.id = r THEN (CHOOSE h \in held : h.id = r).resource
        ELSE None]
Attached(packet, held) ==
    PublishedScene(packet.identity, packet.body, ResourcesOf(Of(held, packet.identity)))
CanAttach(packet, held) ==
    LET resources == ResourcesOf(Of(held, packet.identity))
    IN  /\ Present(resources) = {r \in ResourceIds : ReferencedBy(packet.body, r)}
        /\ ResourcesUsable(packet.body, resources)

AcceptsBegin(p) == p.body <= MaximumProviders
Begun(m, p) ==
    [m EXCEPT !.pending = [revision |-> p.revision, expected |-> p.body,
                           providers |-> {}, resources |-> {}],
              !.staged_revision = 0, !.staged = {}]

Held(p) == [identity |-> p.identity, id |-> p.body.id, resource |-> p.body.resource]
Holds(held, p) == \E h \in held : h.identity = p.identity /\ h.id = p.body.id

AcceptsResource(m, p) ==
    LET held == IF m.pending # None THEN m.pending.resources ELSE m.staged
    IN  /\ m.pending # None => p.revision = m.pending.revision
        /\ ~Holds(held, p)
        /\ HeldFits(held \cup {Held(p)})
WithResource(m, p) ==
    IF m.pending # None
    THEN [m EXCEPT !.pending.resources = @ \cup {Held(p)}]
    ELSE [m EXCEPT !.staged_revision = p.revision, !.staged = @ \cup {Held(p)}]

AcceptsProvider(m, p) ==
    /\ m.pending # None
    /\ p.revision = m.pending.revision
    /\ Cardinality(m.pending.providers) < m.pending.expected
    /\ CanAttach(p, m.pending.resources)
    /\ Of(m.pending.providers, p.identity) = {}
WithProvider(m, p) ==
    [m EXCEPT !.pending.providers = @ \cup {Attached(p, m.pending.resources)},
              !.pending.resources = @ \ Of(@, p.identity)]

AcceptsEnd(m, p) ==
    /\ m.pending # None
    /\ p.revision = m.pending.revision
    /\ Cardinality(m.pending.providers) = m.pending.expected
    /\ m.pending.resources = {}
    /\ ScenesFit(m.pending.providers)
(* Mutant: a snapshot adds to what was shown instead of replacing it.      *)
EndedMerging(m, p) ==
    [m EXCEPT !.revision = p.revision, !.pending = None,
              !.providers = @ \cup m.pending.providers]

Ended(m, p) ==
    [m EXCEPT !.revision = p.revision, !.providers = m.pending.providers,
              !.pending = None]

Others(m, identity) == m.providers \ Of(m.providers, identity)

AcceptsUpdate(m, p) ==
    /\ m.staged \subseteq Of(m.staged, p.identity)
    /\ CanAttach(p, m.staged)
    /\ ScenesFit(Others(m, p.identity) \cup {Attached(p, m.staged)})
Updated(m, p) ==
    [revision |-> p.revision,
     providers |-> Others(m, p.identity) \cup {Attached(p, m.staged)},
     pending |-> None, staged_revision |-> 0, staged |-> {}]

AcceptsRemoval(m) == m.staged_revision = 0 /\ m.staged = {}
WithoutProvider(m, p) ==
    [m EXCEPT !.revision = p.revision, !.providers = Others(m, p.identity),
              !.pending = None]

(* Outside a snapshot only the next revision is taken; for any other one   *)
(* the mirror keeps what it has and the client subscribes again.           *)
RevisionGap(m, p) ==
    LET next == m.revision + 1
    IN  \/ /\ p.type = "resource_available"
           /\ m.pending = None
           /\ p.revision # next \/ m.staged_revision \notin {0, p.revision}
        \/ p.type \in {"scene_updated", "scene_removed"} /\ p.revision # next
        \/ p.type = "scene_updated" /\ m.staged_revision \notin {0, p.revision}

Accepts(m, p) ==
    CASE p.type = "snapshot_begin" -> AcceptsBegin(p)
      [] p.type = "resource_available" -> AcceptsResource(m, p)
      [] p.type = "snapshot_provider" -> AcceptsProvider(m, p)
      [] p.type = "snapshot_end" -> AcceptsEnd(m, p)
      [] p.type = "scene_updated" -> AcceptsUpdate(m, p)
      [] p.type = "scene_removed" -> AcceptsRemoval(m)

Applied(m, p) ==
    CASE p.type = "snapshot_begin" -> Begun(m, p)
      [] p.type = "resource_available" -> WithResource(m, p)
      [] p.type = "snapshot_provider" -> WithProvider(m, p)
      [] p.type = "snapshot_end" -> Ended(m, p)
      [] p.type = "scene_updated" -> Updated(m, p)
      [] p.type = "scene_removed" -> WithoutProvider(m, p)

Publishes(p) == p.type \in {"snapshot_end", "scene_updated", "scene_removed"}

(* make_snapshot: the layers a frame draws, from the back.                 *)
MirrorLayers ==
    Layered(mirror.providers, [a \in Applications |-> 0])

-----------------------------------------------------------------------------
(* The client thread (SceneClient::run_connection and worker_main).        *)

(* Mutant: a new connection does not subscribe.                            *)
ConnectSilently ==
    /\ client = "disconnected"
    /\ session = None
    /\ client' = "connected"
    /\ session' = [subscribed |-> FALSE, revision |-> 0, outgoing |-> <<>>,
                   behind |-> FALSE]
    /\ channel' = <<>>
    /\ requests' = 0
    /\ stream_start' = run_start
    /\ UNCHANGED <<feed, mirror, position, historyVars, failures>>

Connect ==
    /\ client = "disconnected"
    /\ session = None
    /\ client' = "connected"
    /\ session' = [subscribed |-> FALSE, revision |-> 0, outgoing |-> <<>>,
                   behind |-> FALSE]
    /\ channel' = <<>>
    /\ requests' = 1
    /\ stream_start' = run_start
    /\ UNCHANGED <<feed, mirror, position, historyVars, failures>>

(* Closing either end ends both; the broker notices when it next polls.    *)
Drop ==
    /\ client' = "disconnected"
    /\ session' = None
    /\ channel' = <<>>
    /\ requests' = 0

Receive ==
    /\ client = "connected"
    /\ channel # <<>>
    /\ LET p == Head(channel)
       IN  IF RevisionGap(mirror, p)
           THEN /\ channel' = Tail(channel)
                /\ requests' = IF session = None THEN 0 ELSE requests + 1
                /\ UNCHANGED <<session, clientVars>>
           ELSE IF Accepts(mirror, p)
           THEN /\ channel' = Tail(channel)
                /\ mirror' = Applied(mirror, p)
                /\ position' = IF Publishes(p) THEN stream_start + p.revision ELSE position
                /\ UNCHANGED <<session, requests, client>>
           ELSE Drop /\ UNCHANGED <<mirror, position>>
    /\ UNCHANGED <<feed, historyVars, failures, stream_start>>

(* The end of the stream: the broker closed and everything was received.   *)
PeerClosed ==
    /\ client = "connected"
    /\ session = None
    /\ channel = <<>>
    /\ Drop
    /\ UNCHANGED <<feed, mirror, position, historyVars, failures, stream_start>>

(* The connection breaks under the client, in the middle of anything.      *)
LoseConnection ==
    /\ client = "connected"
    /\ failures < MaximumFailures
    /\ failures' = failures + 1
    /\ Drop
    /\ UNCHANGED <<feed, mirror, position, historyVars, stream_start>>

-----------------------------------------------------------------------------
(* The store's operations, as SceneFeed tells them.                        *)
StoreStep ==
    /\ Next
    /\ published' = Append(published, visible')
    /\ UNCHANGED <<sessionVars, clientVars, failures, run_start, stream_start>>

(* The broker stops and starts: revisions begin again at 0 and no provider *)
(* is registered yet.                                                      *)
RestartBroker ==
    /\ failures < MaximumFailures
    /\ failures' = failures + 1
    /\ Restart
    /\ session' = None
    /\ requests' = 0
    /\ published' = Append(published, {})
    /\ run_start' = Len(published) + 1
    /\ UNCHANGED <<channel, clientVars, stream_start>>

StreamInit ==
    /\ Init
    /\ session = None
    /\ channel = <<>>
    /\ requests = 0
    /\ client = "disconnected"
    /\ mirror = EmptyMirror
    /\ failures = 0
    /\ published = <<{}>>
    /\ run_start = 1
    /\ stream_start = 1
    /\ position = 1

SessionStep ==
    \/ ProcessSubscription
    \/ WaitForUpdates
    \/ TakeSnapshot
    \/ SendPacket

ClientStep ==
    \/ Connect
    \/ Receive
    \/ PeerClosed

StreamNext ==
    \/ StoreStep
    \/ SessionStep
    \/ ClientStep
    \/ CloseSession
    \/ LoseConnection
    \/ RestartBroker

StreamSpec == StreamInit /\ [][StreamNext]_streamVars

(* The session's thread and the client's thread keep running; nothing is   *)
(* assumed of the providers, the controllers or the failures.              *)
FairStreamSpec == StreamSpec /\ WF_streamVars(SessionStep) /\ WF_streamVars(ClientStep)

-----------------------------------------------------------------------------
(* Properties.                                                             *)

(* What the renderer draws is a set of scenes the broker published, each   *)
(* complete with its resources, and never goes back: see SceneReplica.     *)
Replica == INSTANCE SceneReplica WITH shown <- mirror.providers

ImplementsReplica == Replica!Spec

(* When the broker publishes no more, the renderer shows its last state,   *)
(* through lost connections and restarts.                                  *)
RendererCatchesUp == Replica!CatchesUp

(* On an ordered socket the broker never sends what the mirror refuses: no *)
(* packet is out of sequence, over a limit, or left without its resources. *)
StreamIsAccepted ==
    client = "connected" /\ channel # <<>> =>
        ~RevisionGap(mirror, Head(channel)) /\ Accepts(mirror, Head(channel))

(* The session's idea of what the renderer holds is right: once all it     *)
(* sent is received, the mirror is at the session's revision.              *)
SessionKnowsMirror ==
    (session # None /\ session.subscribed /\ session.outgoing = <<>> /\ channel = <<>>) =>
        /\ mirror.revision = session.revision
        /\ position = run_start + session.revision
        /\ mirror.pending = None /\ mirror.staged = {}

(* docs/architecture.md:232: the user controls which provider is in front  *)
(* of which.  Up to date, the renderer draws the broker's layers in the    *)
(* broker's order.                                                         *)
UserControlsLayers ==
    position = Len(published) => MirrorLayers = snapshot.providers

=============================================================================
