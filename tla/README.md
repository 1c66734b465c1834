# Mango Overlay: formal models

TLA+ models of the overlay broker, its scene store, the protocol its providers
speak, the stream that carries the scenes to the renderer inside a game, and
the coordinator and lifecycle manager that decide which core runs, with TLC
runs on small instances and TLAPS proofs for every instance. Paths below are
relative to the repository's root, `src/` here.

## The system

Providers (plugins, scripts, test programs) send pictures to a **broker**, one
daemon for the user. The broker keeps the scene of each provider and the
policy the user set through a controller, and streams what is visible to
**renderers**, a thread inside MangoHud in the game's process. A **plugin** for
the Decky loader installs the runtime, selects which plugin's copy of it is
active and starts the broker.

    provider --requests--> ProviderSession --+
    controller --requests--> ControllerSession --> SceneStore --> policy file
                                                     |
                             RendererSession <-------+ (snapshot, change feed)
                                  | packets
                             SceneClient thread --> SceneMirror --> draw

Each connection has a thread of its own in the broker. They meet in
`SceneStore`, guarded by one mutex, and in the count of connections, an atomic.

The plugin's side has two locks, both files, and two records:

    plugin backends --calls--> coordinator --activate, restore--> lifecycle manager
                                   |                                   |
                              state.json                  install.json, transaction.json,
                                   |                      the drop-in of gamescope-mangoapp
                                   +------> launcher <-----------------+
                                               | exec
                                            MangoApp (the managed core, or the system's)

| Component | State | Operations | What is hard | What makes it correct |
|---|---|---|---|---|
| Scene store (`scene/src/store.cpp`) | providers by connection, their elements and resources, policies, revision, retained changes, byte counters, cached snapshot | register, disconnect, commit, store and release a resource, four policy operations, snapshot, wait for changes | the snapshot and the feed are caches; counters are adjusted from four places; repeated and late transactions; order arithmetic at INT32_MAX | the snapshot is current; the feed is the exact difference of what is visible; no element loses its resource; counters are sums; a transaction applies once |
| Scene validation (`scene/src/validation.cpp`) | none | element ranges, parents, depth, children, sizes | cycles, depth, dangling parents | a committed scene is a forest within the limits |
| Renderer session (`broker/src/renderer_session.cpp`, `snapshot_encoder.cpp`) | subscribed, last revision, packets to send | subscribe, wait for changes, snapshot after a gap or a reset | the mutex is released between reading the feed and taking the snapshot; a gap at the edge of the retained changes | its revision is the mirror's once all is received |
| Scene mirror (`renderer/src/scene_mirror.cpp`) | revision, scenes, pending snapshot, staged resources | one per packet type | packets cut by a lost connection; revisions that restart at 0; limits checked at other moments than the store's | shows only complete published states, never an older one |
| Scene client (`renderer/src/scene_client.cpp`) | worker thread, stop flag, mirror | start, stop, connect, receive, resubscribe | start racing stop; reconnects | catches up; one worker |
| Provider session (`broker/src/provider_session.cpp`) and the client library (`client/src/client.cpp`) | registered, protocol errors; the request in progress, transaction and request ids | connect, register, commit, upload, release, close | a timed out request that was applied; the revision of an answer read after the commit; refusals that add up to the end of the session; a provider that comes back before its old connection is gone | between two requests a provider's picture of its scene is the store's; an answer is the answer to the request that waits |
| Controller session and policy file (`broker/src/controller_session.cpp`, `policy_file.cpp`) | the saved policy | set policies; save before commit; load at start | a crash or an error at every step of the save; limits that differ between saving and loading | what is acknowledged is on disk and loads again |
| Broker process (`broker/src/main.cpp`) | connection count | accept, start a thread, stop | the count at its limit while threads end, shutdown | never more than 64; a place is free again after its connection |
| Texture cache (`renderer/src/texture_cache.cpp`) | textures by resource, GIF clocks | draw, evict | uploads rationed by frame; a replaced resource | the frame drawn is the resource's |
| Runtime coordinator (`plugin/.../coordinator.py`) | candidates, claims, failed and verified revisions, active runtime | register, mark and finalise removal, retry, select | several plugins, each a process, under a file lock; a crash between activating and recording | the active runtime is the best eligible one that a present plugin claims |
| Lifecycle manager (`plugin/.../lifecycle.py`) | `install.json`, the record of a transaction, the drop-in of the MangoApp service, the pending uninstall | activate, roll back, recover, restore the system, clean up | the process dies between any two writes; the service starts at any of them | what the last completed activation installed is never lost |
| Launcher (`plugin/.../launcher.py`) | none of its own | resolve and start the active core, or the system's MangoApp | it starts in the middle of an activation, when the coordinator and `install.json` disagree | never starts a core that is in the quarantine |
| Wire codec, image decoding, drawing, wrappers, MangoHud | buffers, textures | encode, decode, draw | ranges and formats | out of scope for a state model |

## Modules

| Module | What it is |
|---|---|
| `Overlay` | what all modules share: applications, `None`, the keys of a partial map |
| `Scene` | scene data: elements, resources, validation of a candidate scene, resource limits, layering, the retained change history |
| `Policy` | the user's policy and its order arithmetic |
| `SceneFeed` | abstract: what a renderer session can see of the store (visible scenes, their order, revision, changes) |
| `SceneStore` | detailed: the store, one action per operation; checked and proved to implement `SceneFeed` |
| `SceneReplica` | abstract: the renderer shows states that were published, each complete, in order |
| `SceneStream` | `SceneFeed` composed with a renderer session, an ordered socket, a client thread and its mirror; checked and proved to implement `SceneReplica` |
| `ProviderProtocol` | provider processes with the client library, the accept loop, the worker threads and their sessions, around `SceneStore`, which it EXTENDS |
| `BrokerPolicy` | controllers that change the policy, the save of the policy file step by step, kills, power losses and the start |
| `CoreElection` | abstract: which core is active, given what the products put up and what failed |
| `Coordinator` | the coordinator's calls as steps between its writes, with a death between any two; checked and proved to implement `CoreElection` |
| `Lifecycle` | EXTENDS `Coordinator` with what its calls do to the system: the activation transaction, rollback and recovery, the launcher and MangoApp |
| `PolicyProofs`, `SceneProofs` | lemmas about the order arithmetic; about induction, sums over sets, the resource limits, sets in order and joined sequences: shared by the other proofs |
| `SceneStoreProofs`, `StoreFeedProofs` | theorems about `SceneStore`: its data and counters; what it publishes, and that it implements `SceneFeed` |
| `SceneStreamProofs` | theorems about `SceneStream`: nothing is refused, the session knows the mirror, the stream implements `SceneReplica` |
| `BrokerPolicyProofs`, `ProtocolProofs`, `LifecycleProofs` | theorems about `BrokerPolicy`, about `ProviderProtocol`, about `Coordinator` and `Lifecycle` |
| `MCScene`, `MCSceneStore`, `MCSceneStream`, `MCBrokerPolicy`, `MCProviderProtocol`, `MCLifecycle` | data for TLC: contents, uploads, mutation lists, policies, changes, identities, versions |

The two refinements chain: the stream is checked, and proved, against the abstract feed, and
the store is shown to be such a feed, so neither the runs nor the proofs carry the state of
both. `SceneStore` and `BrokerPolicy` share `Policy`: the first has a policy
operation as one step, because nothing but the disk can come between its
comparison and its assignment; the second cuts the same operation at each
disk call and leaves the scenes out. `ProviderProtocol` keeps the store whole, with its
actions as the sessions call them, because what is refused depends on what
is registered and stored. The third chain is `Lifecycle`, whose steps are
`Coordinator`'s or change nothing it knows, and `Coordinator`, which
implements `CoreElection`.

### From code to model

`SceneStore`: an operation of the class is one action, because every one runs
under `mutex_` from its first read to its last write. A call the code rejects
changes nothing, so its early returns are the action's guard and a rejected
call is no step. The maps of the code that are keyed by id are total functions
with `None` for an absent key. `ProviderState` is the record in `providers`;
`published` is the `shared_ptr` the snapshot holds, a value of its own, because
the code replaces it only in `commit` and on registration; that it still agrees with the elements is
a property (`PublishedIsCommitted`) and no definition. `current_snapshot` is likewise state,
assigned only where the code assigns `snapshot_`. An element keeps its kind,
parent, resource, frame, size and one Boolean for each group of range checks;
an upload keeps its two sizes and its number of frames. The commit callback of a policy
operation either fails, and the operation changes nothing, or succeeds: the
actions are the calls that succeed.

`BrokerPolicy`: a controller's session is the record `[step, change,
candidate]`. `Request` is the check under a first lock (`checked`), `Set` takes
the mutex for good (`holder`) and makes the candidate, `WriteTemporary`,
`Rename` and `Commit` are the disk calls in their order, `FailToWrite` and
`FailToSync` what the calls before and after the rename do when they fail,
`Reply` the status read after the mutex is free. `file` is what a new
process reads, `durable` what a power loss may bring back: they differ between
the rename and the sync of the directory. `Kill` loses the process and
nothing else, `PowerLoss` may lose the rename as well. `Start` loads the file,
refuses one with too many applications, and adds the application of the test
program. `acknowledged` and `attempted` are history. Simplifications: the
file's directory exists; the limit of 256 KiB (`maximum_policy_bytes`) is
measured in applications (`MaximumSavedApplications`); display names are
left out; a session that the third rejection closes is idle, like the one the
controller opens next.

`SceneStream`: `ProcessSubscription`, `WaitForUpdates`, `TakeSnapshot` and
`SendPacket` are the session's thread, cut where it releases the store's mutex
or may block on the socket; `behind` is the moment between seeing a gap and
taking the snapshot. `Receive` is `SceneMirror::apply_packet` and what the
client does with its result: apply, ask again after a revision gap, close on a
refused packet. `CloseSession`, `LoseConnection` and `RestartBroker` are the
failures; the mirror outlives them, the session does not. The variables
`published`, `run_start`, `stream_start` and `position` are history and no
action's guard reads them.

`ProviderProtocol`: a request waits in the socket, is applied, is answered and
is received in four steps, because the code holds no lock across them.
`client[p]` is the `mango_overlay_client` of process `p`; ids start over with
each connection, since the library cannot connect a client again. `open[c]` is which ends of
the socket are open: each side closes its own. A worker goes through the stages
`backlog` (connected, not accepted), `handshake`, `serving`, `leaving` (its loop
ended), `closing` (the scene is removed), `counting` (the socket is closed, the
count not yet lowered) and `done`, one for each place where another thread may run in
between. The `process_*` actions are the session's handlers; each calls one operation
of the store and keeps its reply, whose revision `SendAnswer` reads later from the
snapshot, as the code does. A request the store refuses is counted, and `Leave`
follows when the count reaches `MaximumErrors`. `ReceiveTimeout`
is the library giving up: it closes the connection. `told` is history: what
successful answers made the process believe. `active_connections` starts with
`MaximumResidents` or fewer, renderers and controllers that stay.
A transaction that repeats the last one is accepted again, an older one is
refused and counted; the library sends neither on the connection that has them. Turning a
connection away is one step with accepting it, also when a worker cannot be
started (`main.cpp` 276), so that `SocketsAreBounded` speaks of the
sockets that workers have: for the moment between `accept4` and `close` the loop holds one more.
Malformed packets, which the library does not send, are left out.

`Coordinator`: every call holds one file lock from its first read to its
last write, so `call` is the one that holds it, with what it does next; the
steps between are the writes of `state.json`, which are atomic renames. `Register`,
`FinalizeRemoval` and `Retry` are the calls up to the first long operation, `Reconciled` and
`FallenBack` what the code decides after the claims or the quarantine
changed, `ActivationSucceeds`, `Commit`, `ActivationFails`, `RestoreSucceeds` and
`RestoreEnds` what follows. Verifying and activating a runtime take seconds and are
their outcome here. `stored` tells whether `state.json` exists; before it
does, `Adopted` is the installation the first call takes over. Generations and
pending tokens, random in the code, are numbers nobody had before.

`Lifecycle` replaces the outcome of an activation by its steps: `Begin` writes the
record, `InstallUnits` the drop-in, `WriteState` `install.json`, `RestartServices` the restart,
`Complete` removes the record. `Undo` is the `except` branch, `UndoBreaks` the same when it
fails half way, `Recover` and `RecoverBreaks` are `_recover_incomplete_locked`,
which preparing, activating and refreshing start with. `renderer` is what the service runs;
`Launching` is a launcher that was started and has not read the pointer yet, so
`Launch` may come before or after the coordinator's write. `installed` is a ghost
here: what the last completed activation left. Left out: the restoration by
hand, the pending uninstall with its finalizer, the copying of runtimes, and the
old `activate` without a coordinator.

## What the runs check

| Run | Instance | Properties |
|---|---|---|
| `store_policies` | 2 connections, 3 applications, 1 shape, 3 changes, 2 retained, orders up to 3 | `TypeOK`; `SnapshotIsCurrent`: the cached snapshot is what would be built now; `FeedIsContiguous`: consecutive revisions, none dropped early; `NextOrderOnTop`: a new application goes on top or the counter stopped at the maximum; `ImplementsFeed` |
| `store_resources` | 2 instances of one application, 2 elements, 2 resources in 2 sizes, budgets of 2 and 3, three transaction ids | `PublishedIsCommitted`, `NoDanglingResource`, `BytesAccounted`, `VisibleScenesFit`, `EveryTransactionAppliesOnce` |
| `stream_safety` | 2 providers that share a budget of one image, 2 revisions, 1 retained, a socket of 1, 1 failure | `SessionKnowsMirror`; `StreamIsAccepted`: the mirror refuses nothing of what the broker sends; `ImplementsReplica` |
| `stream_live` | 1 provider, 2 revisions, a socket of 2, 2 failures | `ImplementsReplica`; `RendererCatchesUp` |
| `layer_order` | 2 applications with orders 0 and 1 | `UserControlsLayers`, violated: see Findings |
| `policy_saved` | 2 controllers, 4 changes, 3 applications of which 2 can be saved, 1 failed write, 1 failed sync, 2 kills or power losses | `TypeOK`; `RestartKeepsSettings`: the file holds what is in force whenever nobody saves; `PowerLossKeepsAcknowledged`; `OnlyDiskFails`: a refused save has a reason on the disk or in the size |
| `policy_refused` | 2 controllers that turn the overlay on and off, 1 failed sync | `RefusedIsNotSaved`, violated: see Findings |
| `policy_too_many` | 3 applications, a loader that accepts 2 | `RestartRestoresPolicy`, violated: see Findings |
| `provider_session` | 2 providers with an identity each, 2 connections, a limit of 2 with 0 or 1 taken by others, 4 requests and 2 transactions on a connection, the second error closes | `ProtocolTypeOK`; `ClientsKnowTheirScene`: between requests the provider's picture is the store's; `AnswersMatch`: an answer is never delivered to another request; `AnswersCoverTheirChange`: the revision in an answer covers the change; `SocketsAreBounded`; `ScenesEndWithTheirClient`: only the last error takes a live provider's scene away |
| `provider_live` | the same with 1 process | `ConnectionsEnd`: a connection that serves nobody ends and frees its scene and its place; `RequestsEnd`: an answer or a closed connection, without the client's timeout; `KeepsTheStore` |
| `core_claims` | 2 products, 3 revisions of which two have one version, 2 backends in total, 2 announced removals | `LifecycleTypeOK`; `QuarantineIsKept`; `TrialsAreUndone`: what was installed is not lost; `ImplementsElection`; `CallsEnd`; `QuarantinedNeverStarts` |
| `hot_switch` | the same | `HotSwitch`, violated: see Findings |

Bounds and why they are enough.

- `MaximumRevision` stops the recorded changes; without it the revision, 64
  bits wide in the code, grows for ever. The retained limits, 1 and 2, are below it, so histories
  that overflow, gaps of exactly one change and resets inside a batch happen.
- `MaximumFailures` bounds lost connections and broker restarts. One is enough
  to cut the stream at every packet; `stream_live` allows two, so that a restart can follow a
  lost connection.
- Two connections are enough for a provider that comes back while its old
  connection is still served, and a limit of 2 with one taken makes the
  second one be turned away. Four requests are hello, registration and two more, so that an
  upload and a transaction that needs it, a request after a refused one, and the refusal that
  closes the session happen: a transaction with an image that is not there, or the release of
  one in use. `MaximumErrors`, 3 in the code, is 2. `MaximumRevision` is 20
  there and is never reached.
- `MaximumGenerations` and `MaximumMarks` are 2: two products register, or one
  updates, over an installation that may be there already; each registration, retry and removal
  starts a chain of activations and fallbacks over up to three revisions, so that
  everything can fail in turn. Retries, recoveries, deaths and starts of MangoApp are
  not bounded. Two revisions of one version make the conflict that the code refuses to resolve.
- `ChannelCapacity`, 1 or 2, makes the session block; one packet in
  the socket and one in the session already order them.
- Byte limits of 1 to 4 with sizes of 1 and 2 let one upload fit, two exhaust
  the provider's share, and two providers exhaust the global one. The planes
  have different limits, so that either can be the one that refuses.
- `MaximumOrder` stands for INT32_MAX: 3, so that orders reach it.
- `MaximumStops` is 2: a stop in the middle of a save, and one after what the
  next process made of it. One failed write and one failed sync reach each
  step of the save, and an action sequence that recovers from them.
- `MaximumPolicyApplications` (256) and `MaximumSavedApplications` are 2, with
  3 applications, so that registrations exceed them. In `policy_too_many` the
  file has room for 3, as 256 KiB has for many more than 256 applications with short names.
- `SYMMETRY` permutes the connections and the controllers, which the code only
  compares for equality. No liveness run uses it. Application and instance ids are ordered, and are numbers.

The runs of the stream and of the providers set `CHECK_DEADLOCK FALSE`: once
the revisions and failures of the bound, or the connections, are used up and everything is
received, all threads wait, as they should.

**Fairness.** `FairStreamSpec` assumes weak fairness of the session's thread and
of the client's thread: each is a loop of its own that only waits for the other
one, for the store, or for a timer (reconnection, `scene_client.cpp` 192-230).
Nothing is assumed of providers, controllers or failures; `RendererCatchesUp`
therefore says "if the broker stops publishing".

`FairProtocolSpec` assumes weak fairness of the accept loop, of each worker
thread and of a process that waits for an answer; nothing of what providers call, when they
leave, or that a timeout ever fires. The worker's own timeouts, of the handshake and of a silent
unregistered peer, are steps of the worker.

`FairLifecycleSpec` assumes that a call that has the coordinator's lock goes on
(`InCall`): it runs in a thread or process of its own, and every operation it waits for, `systemctl` and
the probe of the new core, has a timeout. It may die at any step; recoveries
may fail for ever; nothing is assumed of the session or of later calls.

## Findings

- **The user's order of applications does not reach the renderer**
  (`layer_order`). `docs/architecture.md` line 232 says the user controls which
  provider is in front. The store sorts its snapshot by the user's order
  (`store.cpp`), but no packet carries the order and `SceneMirror` sorts by
  application and instance id (`scene_mirror.cpp` 60), so with two applications
  the drawn layers ignore what the user chose.

- **A refused policy takes effect later** (`policy_refused`). When the
  directory cannot be opened or synced after the rename, `save_policy_file`
  reports an error (`policy_file.cpp` 237-245), the store keeps the old policy and
  the controller is told "The policy could not be saved"
  (`controller_session.cpp` 166). The file has the new policy, and the next
  start loads it. Setting the old value again does not help: the store
  compares with its own policy, finds no change and writes nothing.
  `RestartKeepsSettings` says how far this goes: to the next change that succeeds.
- **A policy that was saved can be one the broker refuses to start with**
  (`policy_too_many`). The loader refuses more than 256 applications
  (`policy_file.cpp` 97); neither the save nor a registration counts them,
  and none is ever forgotten. After 257 application ids any change of policy
  is acknowledged, and the broker exits with status 78 from then on.

- **An update may leave the old core running** (`hot_switch`). The activation
  restarts `gamescope-mangoapp.service` (`lifecycle.py` 674-688), whose launcher
  starts what the coordinator's pointer names (`launcher.py` 55-101). The
  coordinator moves the pointer after the activation has returned (`coordinator.py` 626, 672).
  A launcher that is quicker starts the old core, and nothing restarts it
  later. `docs/lifecycle.md` line 271 says of an update that succeeded
  "验证后热切换": it is switched to while MangoApp runs.

Met while modelling and not stated as a property:

- The claim is replaced before its core was started (`coordinator.py` 431). After a failed
  update the core that runs is named by no claim, so that another
  product may take it back to an older version. `CoreElection` therefore says that the
  active core was the newest when it was elected, not that it is the newest claimed.
- One record of a pending uninstall serves all products (`lifecycle.py` 715), the cleanup
  looks at the claims before it has the lifecycle lock (817), writes `install.json`
  from a status read earlier (1631), and removes its timer before its trees (884).
- A restoration by hand removes the drop-in, and a reload with the same core
  does not put it back (`lifecycle.py` 477).

These are hazards in `PROJECT.json`, each at its line. So is that
the third refusal closes the session of a provider that does nothing wrong, and takes its
scene away. It is documented (`docs/protocol.md` line 184), `ScenesEndWithTheirClient`
allows it, and no property covers it.

## What is proved

For all values of the constants that satisfy the modules' assumptions:
`SceneAssumption` and `StoreAssumption` (finite sets of applications and ids,
natural limits, `None` outside the data), `FeedAssumption`
(orders are integers, revisions have a limit), `StreamAssumption` (natural bounds; `None`, the absent
session and the absent pending snapshot, is neither a session nor a snapshot), `PolicyAssumption` (a finite set of
applications, no more of them than `MaximumOrder`, as INT32_MAX exceeds any
number of applications), `BrokerAssumption` (the changes a controller may send
are well formed, their orders at most `MaximumOrder`), `ProtocolAssumption`
(connections are numbered, identities and transaction ids are those of the
store, the elements a provider sends pass the library's checks),
`CoordinatorAssumption`, `NoneIsNoClaim` and `LifecycleAssumption` (versions are numbers, `None`
and the two other states of MangoApp are no revisions). Nothing else is assumed.

`SceneProofs` holds what the other proofs keep needing about data. The
library's induction theorems take a predicate as a parameter, which the provers
cannot instantiate; `NaturalInduction` and `FiniteInduction` therefore speak of
a *set* of numbers or of subsets, and are proved from the one well-foundedness fact of
the library that has no such parameter. With them `SumFunction`, which the model uses for every
count of bytes, gets its equations: a function `Total` of its own is shown to exist, to be
what the fold computes (`SumIsAdded`), and to grow by one summand (`SumStep`). From these follow what
a change of one summand does (`TotalChanged`), that a part sums to no more than
the whole (`TotalOfPart`), that a sum does not depend on names (`TotalRenamed`), and
that a set cut into disjoint parts sums to the sum of their sums
(`TotalOfParts`). `PartFits` says that a part of what is within the limits is
within the limits. The last lemmas are about order: `InOrder`, which picks the element
that a given number of others is below, enumerates a finite set once
(`RanksEnumerate`, `LayersEnumerate`), an interval in its own order (`IntervalInOrder`); and
`FlattenSeq` of sequences is any function that joins them one by one (`FlattenJoins`).

`SceneStoreProofs`:

- `TypeCorrect`: `Spec => []TypeOK`. `TypeOK` is inductive as it stands; one
  lemma for each operation that builds a provider's state (`RegistrationType`,
  `StoreType`, `ReleaseType`, `CommitType`, `MovedType`) and lemmas for what the
  helpers build.
- `ScenesStayWhole`: `Spec => [](NoDanglingResource /\ PublishedIsCommitted)`. The
  conjunction is inductive with `TypeOK`: an upload or a release touches
  only resources that no element references, so neither what elements find nor
  the published scene changes, and a commit checks both on its candidate.
- `NewApplicationsOnTop`: `Spec => []NextOrderOnTop`. The hard case is
  `set_application_position`, which renumbers all known applications from 0 and
  sets the counter to their number: the proof bounds each new order by a
  count over a finite set without the moved application (`PositionBound`).
  The initial states need the greatest element of a set of integers, which
  `MaxOfBounded` derives from well-foundedness of the naturals.

- `BytesAreAccounted`: `Spec => []BytesAccounted`. The inductive invariant
  `Accounts` says that each global counter is the sum over the registered providers of what each
  stores, that every provider and the whole are within their limits, and that no more than
  `MaximumProviders` are registered. A registration adds a term of zero (`ProviderAdded`), a
  disconnection subtracts the provider's own sum (`ProviderRemoved`), an upload
  or a release changes one summand of one term (`ResourceChanged`). The subtraction that replaces an
  upload is safe because a summand is no more than its sum: `Accounts` is what excludes the
  underflow that `fits_replacement` guards against.

`StoreFeedProofs` rests on one lemma, `RecordedOrQuiet`: every step of the store
either records exactly one change or is *quiet*, leaving the feed and all that
a renderer would see alone. Its cases are the operations that skip the record: a hidden
registration, commit or disconnection, a resource operation,
`set_require_approval`. From it follow

- `SnapshotNeverStale`: `Spec => []SnapshotIsCurrent`;
- `RetainedAreConsecutive`: `Spec => []FeedIsContiguous`, with the arithmetic of
  `Retained` in `RecordedIsContiguous`;
- `AppliesOnce`: `Spec => EveryTransactionAppliesOnce`, action by action.
- `VisibleAlwaysFits`: `Spec => [](VisibleScenesFit /\ Feed!WithinLimits)`: what the store shows is
  within the limits by which a renderer refuses a snapshot. The store counts what is *stored*, by
  provider; the renderer counts what the *visible* scenes *share*, by identity. Distinct visible
  providers have distinct identities, so the shared resources fall into disjoint parts, each a part of
  what its provider stores (`SharedByScene`), and their sums are at most the store's
  (`VisibleFit`).
- `StoreImplementsFeed`: `Spec => Feed!Spec`. `Feed!Next` includes `WithinLimits'`, on
  which the stream's proof builds, so that the theorem above is needed here. The invariant
  `StoreInv` adds that identities are unique and that the policy knows
  every registered application: without the first an upsert could replace a
  second provider's scene, without the second the registration of an
  application could make another of its providers visible in the same step. A recorded step is
  an `Upsert` (`UpsertRefines`), a `RemoveProvider` (`RemoveRefines`) or a `Reset`
  (`ResetRefines`); a quiet one stutters.

`SceneStreamProofs`, over the abstract feed:

- `NothingIsRefused`: `StreamSpec => []StreamIsAccepted`;
- `SessionIsRight`: `StreamSpec => []SessionKnowsMirror`;
- `StreamImplementsReplica`: `StreamSpec => ImplementsReplica`.

None of the three is inductive: whether the next packet is accepted depends on what the
packets before it made of the mirror, on packets that are still in the session, and on
what the store published when the session read it. The invariant therefore speaks of the future
of what is under way. `Takes` says that a *display*, a mirror with the position it shows, takes one
packet: accepts it, and shows a published set of scenes, at a position no earlier. `Leads` says
that it takes a sequence of packets one by one and ends as another display. The
inductive invariant `StreamInv` has four parts:

- `FeedInv`: the published history ends with what is visible, every set in it is `Sound` (complete scenes,
  one of each identity, within the renderer's limits), and the retained changes
  retell its end, one revision each (`Retells`);
- `MirrorInv`: the mirror shows the published set at its position;
- `SessionInv`: a session's revision is not ahead of the store's, and belongs to the run that
  the connection was made in;
- `PipeInv`: the display is led through all that the socket holds; and, while there is a
  session, through the socket and what the session has yet to send, to the display that
  shows exactly the session's revision with nothing pending or staged (`Target`).

A step of the store moves only `FeedInv`, because a published history only grows (`LeadsGrown`). A
packet that is sent moves from one sequence to the other. A packet that is received is the first
of what the display is led through (`LeadsFirst`), hence accepted. A lost session leaves a prefix of
what it was sending, through which the display is still led (`LeadsPart`): this is
where packets that are cut in the middle of a snapshot are shown to be harmless. What
remains is that what a session starts to send leads to its new target. `SnapshotReaches` has it for a
whole snapshot from *any* mirror, whatever an earlier connection left pending or staged:
`ResourcesAreCollected` and `ProviderIsTaken` follow one scene's packets, `ProvidersAreTaken` all scenes, and
that the mirror's running count never exceeds a limit is `ScenesFit` of the published set
(`SharedFits`). `ChangesAreTaken` has it for single changes, which only a mirror at the previous
revision takes; that `Newer` leaves none out is `NewerChanges`. Before the proof TLC
checked `StreamInv` on the instance of `stream_safety`.

`BrokerPolicyProofs`: the inductive invariant is `TypeOK` with
`SessionsConsistent` (who is saving holds the mutex, and what it saves is
about the applications known now) and `FileFollowsLive` (the file agrees with
the policy in force except between a rename and its sync, and after a failed
sync). One lemma per conjunct, one step per action. Its consequences:

- `TypeCorrect`, in which the order counter stays within INT32_MAX;
- `SettingsSurviveRestart`: `Spec => []RestartKeepsSettings`;
- `AcknowledgedSurvives`: `Spec => []PowerLossKeepsAcknowledged`;
- `FailureMeansDisk`: `Spec => []OnlyDiskFails`.

`ProtocolProofs`:

- `ServesTheStore`: `ProtocolSpec => Spec`, the store's. Every step of a session is a
  step of the store or leaves it alone; this needs the invariant `Calling`, that what waits in
  a socket is a request the library makes, so that the store's operations get
  arguments they are defined for. It carries every theorem about the store over
  to the broker that serves it, as `ServedScenesStayWhole` shows.
- `SocketsStayBounded`: `ProtocolSpec => []SocketsAreBounded`. `SocketsAreBounded` is not
  inductive: a worker between closing its socket and lowering the count must be counted too.
  `Counting` says that the count is at least the number of connections from their acceptance
  to that step; `WorkCounts` is the case analysis of the stages.
- `ScenesOutlastSilence`: `ProtocolSpec => ScenesEndWithTheirClient`. `Owning` says that a scene
  belongs to a session that serves, or that is about to leave because its client left or its last
  refusal was counted; so the one step that drops a scene has one of these reasons.
- `ProtocolTypeCorrect` and `AnswersAlwaysMatch`: `ProtocolSpec => []ProtocolTypeOK` and
  `[]AnswersMatch`. `Exchanging` says that of a request a client waits for there is one trace at
  most (the packet, the reply its worker is about to send, or the answer), and of a client that
  waits for none there is nothing; two clients never have one socket.
- `ClientsAlwaysKnowTheirScene`: `ProtocolSpec => []ClientsKnowTheirScene`. Between a request and
  its answer the store and its provider differ, so the invariant `Agreeing` follows the request:
  before it is processed the store is where the provider was told it is (`Settled`), afterwards it is
  where the answer will put the provider (`Ahead`), or where it was, when it was refused. It also
  says that the transaction that is open is newer than any that the store has seen
  of this connection, without which a commit could be taken for a retry and acknowledged
  without effect. `RequestFulfilled` is the case analysis of the four requests.
- `AnswersAlwaysCover`: `ProtocolSpec => []AnswersCoverTheirChange`. An answer reads the revision
  after its change, so that it covers the change is easy; that it goes on to do so until it is
  received is not. `Covering` says that the session stays while an accepted answer waits,
  so that by `IdentitiesAreDistinct` nobody else records a change of the same identity.

`LifecycleProofs`, of the coordinator: the inductive invariant `IInv` adds to `TypeOK` and `QuarantineIsKept`
that nothing is in the state before there is a state file (`NothingStored`) and that a call is
*sound* (`CallIsSound`): what it is about to activate or to record is the foremost of the claims that
are not in the quarantine, and it restores the system only when nobody claims. The
lemmas `ReconciledIsSound` and `FallenBackIsSound` are about the two decisions, the others about one
group of actions each.

- `TypeCorrect`, `QuarantineAlwaysKept`: `Spec => []TypeOK`, `Spec => []QuarantineIsKept`;
- `CoordinatorElects`: `Spec => ImplementsElection`. A commit is an `Elect`
  because its call is sound, a failure a `Quarantine`, a restoration a `Retire`,
  and the first call of all, which adopts an installation, leaves `Adopted` as it was.

And of the lifecycle around it:

- `LifecycleCoordinates`: `LifecycleSpec => Spec`, the coordinator's, so that its theorems hold with
  the real activations in place of their outcomes;
- `LifecycleTypeCorrect` and `InstallationIsNeverLost`: `LInv` adds `TrialIsRecorded`
  (an activation under way has its record, and is its call's) to the coordinator's invariant and
  `TrialsAreUndone`;
- `QuarantinedIsNotStarted`: `LifecycleSpec => QuarantinedNeverStarts`, from `QuarantineIsKept`
  at the moment the launcher reads the pointer, and from there being a state file then.

Every invariant, action property and refinement that a passing run checks is proved.
Only model-checked, being out of the prover's reach, is liveness under
fairness: `RendererCatchesUp`, `ConnectionsEnd`, `RequestsEnd` and `CallsEnd`. `ENABLED` is not proved
about either. What the violated properties say is refuted by TLC's traces.
No module has a `RECURSIVE` operator.

## Not modelled, and why

Most of the repository's lines are not its own: MangoHud, which hosts the
renderer, and the headers and libraries it vendors (`src/src`, `src/include`)
are more than three quarters of them. They are upstream code that calls the
overlay's renderer in a few places, and no module models them. Of the overlay's own code:

- The wire codec, image decoding and drawing are functions of bytes and floats
  without state to interleave; an element's own range checks are one Boolean, and
  an upload is its two sizes and its number of frames. The library's and the
  session's checks of malformed packets go with them.
- `SceneClient::start` and `stop`, the texture cache, the broker's shutdown and `--once`.
- The Python and Rust clients, which repeat the C library's protocol, and the Decky
  plugin's interface, which calls the coordinator.
- The lifecycle manager's copying and verifying of runtimes, the pending uninstall, its
  finalizer and cleanup, and the restoration by hand. The hazards of the cleanup
  are listed; a module for it would need the units and trees on disk as state.
- Out-of-memory exceptions, damaged or too large state files of the coordinator.

In the runs the contents are shapes, images and animations without groups:
parents, depth and children (`ValidProviderScene`) are translated but not exercised. The
directory of the policy file, process ids and temporary files left behind are
listed as hazards that no property covers.

## Plan

Done: `SceneStore`, `SceneStream` and their abstractions; `BrokerPolicy`;
`ProviderProtocol` with the accept loop; `CoreElection`, `Coordinator` and
`Lifecycle` with the launcher; the proofs listed above. Left, in order of importance:

1. The pending uninstall: the finalizer, the cleanup and the restoration by
   hand, composed with `Lifecycle`.
2. `SceneClientThread`: start, stop and the worker, at the level of locks.
3. `TextureCache`, and the depth-first validation against `ValidProviderScene`.
