--------------------------- MODULE ProtocolProofs ---------------------------
(***************************************************************************)
(* Proofs about ProviderProtocol.  The requests are well formed (Calling), *)
(* so every step is a step of the store or leaves it alone, and what is    *)
(* proved of the store holds for the broker that serves it.  Then the      *)
(* count of sockets (Counting), scenes and their sessions (Owning), the    *)
(* order of requests and answers (Exchanging) and, from these, what a      *)
(* provider knows of its scene (Agreeing) and what its answers cover       *)
(* (Covering).                                                             *)
(***************************************************************************)
EXTENDS ProviderProtocol, StoreFeedProofs

-----------------------------------------------------------------------------
(* What clients and workers hold, whatever is in the store.                *)

Calling ==
    /\ client \in [Processes -> Clients]
    /\ told \in [Processes -> [elements : ElementMaps, resources : ResourceMaps]]
    /\ session \in [Connections -> Sessions]
    /\ requests \in [Connections -> Seq(Requests)]
    /\ \A p \in Processes :
           client[p].active_transaction_id \in 0..MaximumTransactions

LEMMA DisconnectedType ==
    /\ Disconnected \in Clients
    /\ NothingTold \in [elements : ElementMaps, resources : ResourceMaps]
<1>1. Disconnected \in Clients
  BY DEF Disconnected, Clients
<1>2. NothingTold \in [elements : ElementMaps, resources : ResourceMaps]
  BY DEF NothingTold, ElementMaps, ResourceMaps
<1> QED BY <1>1, <1>2

(* The head of what waits is a request, and what follows it is a queue.    *)
LEMMA HeadIsRequest ==
    ASSUME NEW q \in Seq(Requests), q # <<>>
    PROVE  Head(q) \in Requests /\ Tail(q) \in Seq(Requests)
OBVIOUS

LEMMA RequestKinds ==
    ASSUME NEW request \in Requests
    PROVE  /\ request.id \in Nat
           /\ request.type \in RequestTypes
           /\ request.type = "register_provider" => request.body \in Identities
           /\ request.type = "upload_resource" =>
                  request.body \in [id : ResourceIds, resource : Resources]
           /\ request.type = "release_resource" => request.body \in ResourceIds
           /\ request.type = "scene_transaction" =>
                  request.body \in [id : TransactionIds, mutations : Mutations]
           /\ request = [id |-> request.id, type |-> request.type, body |-> request.body]
BY DEF Requests, RequestTypes

(* A client that changes some of what it knows is a client.                *)
LEMMA ClientUpdates ==
    ASSUME NEW k \in Clients, NEW e \in Requests \cup {None}, NEW n \in Nat,
           NEW registered \in BOOLEAN, NEW m \in Nat
    PROVE  /\ [k EXCEPT !.exchange = e] \in Clients
           /\ [k EXCEPT !.active_transaction_id = n, !.next_transaction_id = m] \in Clients
           /\ [k EXCEPT !.exchange = e, !.next_request_id = n] \in Clients
           /\ [k EXCEPT !.exchange = e, !.registered = registered,
                        !.active_transaction_id = n] \in Clients
           /\ [k EXCEPT !.active_transaction_id = n] \in Clients
<1>1. [k EXCEPT !.exchange = e] \in Clients
  BY DEF Clients
<1>2. [k EXCEPT !.exchange = e, !.next_request_id = n] \in Clients
  BY DEF Clients
<1>4. [k EXCEPT !.exchange = e, !.registered = registered,
                 !.active_transaction_id = n] \in Clients
  BY DEF Clients
<1>5. [k EXCEPT !.active_transaction_id = n] \in Clients
  BY DEF Clients
<1>6. [k EXCEPT !.active_transaction_id = n, !.next_transaction_id = m] \in Clients
  BY DEF Clients
<1> QED BY <1>1, <1>2, <1>4, <1>5, <1>6

LEMMA CloseConnectionType ==
    ASSUME Calling, NEW p \in Processes, CloseConnection(p)
    PROVE  /\ client' \in [Processes -> Clients]
           /\ told' \in [Processes -> [elements : ElementMaps, resources : ResourceMaps]]
           /\ \A q \in Processes :
                  client'[q].active_transaction_id \in 0..MaximumTransactions
<1>1. Disconnected.active_transaction_id \in 0..MaximumTransactions
  BY ProtocolAssumption DEF Disconnected
<1> QED BY <1>1, DisconnectedType DEF Calling, CloseConnection

LEMMA SendType ==
    ASSUME Calling, NEW p \in Processes, client[p].socket # None,
           NEW type, NEW body, Send(p, type, body),
           [id |-> client[p].next_request_id, type |-> type, body |-> body] \in Requests,
           UNCHANGED session
    PROVE  Calling'
<1> USE DEF Calling
<1> DEFINE c == client[p].socket
           request == [id |-> client[p].next_request_id, type |-> type, body |-> body]
<1>1. c \in Connections /\ client[p].next_request_id \in Nat /\ client[p] \in Clients
  BY DEF Clients
<1>2. CASE "broker" \in open[c]
  <2>1. /\ requests' = [requests EXCEPT ![c] = Append(@, request)]
        /\ client' = [client EXCEPT ![p].exchange = request,
                                    ![p].next_request_id = client[p].next_request_id + 1]
        /\ UNCHANGED told
    BY <1>2 DEF Send
  <2>2. requests' \in [Connections -> Seq(Requests)]
    BY <1>1, <2>1
  <2>3. [client[p] EXCEPT !.exchange = request,
                          !.next_request_id = client[p].next_request_id + 1] \in Clients
    <3>1. client[p].next_request_id + 1 \in Nat /\ request \in Requests \cup {None}
      BY <1>1
    <3> HIDE DEF request, Calling
    <3> QED BY <1>1, <3>1, ClientUpdates
  <2>4. client' = [client EXCEPT ![p] =
            [client[p] EXCEPT !.exchange = request,
                              !.next_request_id = client[p].next_request_id + 1]]
    BY <2>1
  <2>5. client' \in [Processes -> Clients]
    BY <2>3, <2>4
  <2>6. \A q \in Processes :
            client'[q].active_transaction_id = client[q].active_transaction_id
    BY <2>4 DEF Clients
  <2> QED BY <2>1, <2>2, <2>5, <2>6
<1>3. CASE "broker" \notin open[c]
  BY <1>3, CloseConnectionType DEF Send
<1> QED BY <1>2, <1>3

(* What a request makes of a scene is a scene.                             *)
SceneViews == [elements : ElementMaps, resources : ResourceMaps]

LEMMA AfterType ==
    ASSUME NEW scene \in SceneViews, NEW request \in Requests
    PROVE  After(scene, request) \in SceneViews
<1> USE DEF SceneViews
<1>1. CASE request.type = "hello"
  BY <1>1 DEF After
<1>2. CASE request.type = "register_provider"
  BY <1>2, DisconnectedType DEF After
<1>3. CASE request.type = "upload_resource"
  <2>1. request.body.id \in ResourceIds /\ request.body.resource \in Resources
    BY <1>3, RequestKinds
  <2>2. [scene.resources EXCEPT ![request.body.id] = request.body.resource] \in ResourceMaps
    BY <2>1 DEF ResourceMaps
  <2> QED BY <1>3, <2>2 DEF After
<1>4. CASE request.type = "release_resource"
  <2>1. request.body \in ResourceIds
    BY <1>4, RequestKinds
  <2>2. [scene.resources EXCEPT ![request.body] = None] \in ResourceMaps
    BY <2>1 DEF ResourceMaps
  <2> QED BY <1>4, <2>2 DEF After
<1>5. CASE request.type = "scene_transaction"
  <2>1. request.body.mutations \in Mutations
    BY <1>5, RequestKinds
  <2>2. Candidate(scene.elements, request.body.mutations) \in ElementMaps
    BY <2>1, CandidateType
  <2> QED BY <1>5, <2>2 DEF After
<1> QED BY <1>1, <1>2, <1>3, <1>4, <1>5, RequestKinds DEF RequestTypes

LEMMA OverType ==
    ASSUME Calling, NEW p \in Processes, NEW request \in Requests,
           NEW registered \in BOOLEAN, Over(p, request, registered)
    PROVE  /\ client' \in [Processes -> Clients]
           /\ \A q \in Processes :
                  client'[q].active_transaction_id \in 0..MaximumTransactions
<1> DEFINE n == IF request.type = "scene_transaction" THEN 0
                ELSE client[p].active_transaction_id
           k == [client[p] EXCEPT !.exchange = None, !.registered = registered,
                                  !.active_transaction_id = n]
<1>1. client[p] \in Clients
  BY DEF Calling
<1>2. n \in Nat /\ n \in 0..MaximumTransactions
  BY <1>1, ProtocolAssumption DEF Calling, Clients
<1>3. client' = [client EXCEPT ![p] = k]
  BY DEF Over
<1>4. k \in Clients /\ k.active_transaction_id = n
  <2> HIDE DEF n
  <2>1. k \in Clients
    BY <1>1, <1>2, ClientUpdates
  <2>2. k.active_transaction_id = n
    BY <1>1 DEF Clients
  <2> QED BY <2>1, <2>2
<1> HIDE DEF k, n
<1> QED BY <1>2, <1>3, <1>4 DEF Calling

(* An answer changes what the process knows within its types.              *)
LEMMA AcknowledgedType ==
    ASSUME Calling, NEW p \in Processes, NEW request \in Requests,
           Acknowledged(p, request) \/ Refused(p, request),
           UNCHANGED <<session, requests>>
    PROVE  Calling'
<1>1. client[p].registered \in BOOLEAN /\ told[p] \in SceneViews
  BY DEF Calling, Clients, SceneViews
<1>2. /\ client' \in [Processes -> Clients]
      /\ \A q \in Processes :
             client'[q].active_transaction_id \in 0..MaximumTransactions
  BY <1>1, OverType DEF Acknowledged, Refused
<1>3. After(told[p], request) \in SceneViews
  BY <1>1, AfterType
<1>4. told' \in [Processes -> SceneViews]
  BY <1>3 DEF Acknowledged, Refused, Calling, SceneViews
<1> QED BY <1>2, <1>4 DEF Calling, SceneViews

(* A worker's new state is a session.                                      *)
LEMMA SessionUpdates ==
    ASSUME NEW k \in Sessions, NEW stage \in Stages, NEW reply \in Replies \cup {None}
    PROVE  /\ [k EXCEPT !.stage = stage] \in Sessions
           /\ [k EXCEPT !.reply = reply, !.stage = stage] \in Sessions
<1>1. [k EXCEPT !.stage = stage] \in Sessions
  BY DEF Sessions
<1>2. [k EXCEPT !.reply = reply, !.stage = stage] \in Sessions
  BY DEF Sessions
<1> QED BY <1>1, <1>2

LEMMA StageType ==
    ASSUME Calling, NEW c \in Connections, NEW stage \in Stages, Stage(c, stage)
    PROVE  session' \in [Connections -> Sessions]
<1>1. session[c] \in Sessions
  BY DEF Calling
<1>2. session' = [session EXCEPT ![c] = [session[c] EXCEPT !.stage = stage]]
  BY DEF Stage
<1>3. [session[c] EXCEPT !.stage = stage] \in Sessions
  BY <1>1, SessionUpdates
<1> QED BY <1>2, <1>3 DEF Calling

LEMMA AnsweredType ==
    ASSUME Calling, NEW c \in Connections, requests[c] # <<>>,
           NEW accepted \in BOOLEAN, NEW registered \in BOOLEAN, NEW errors \in Nat,
           Answered(c, accepted, registered, errors)
    PROVE  session' \in [Connections -> Sessions]
<1> DEFINE request == Head(requests[c])
           reply == [id |-> request.id, type |-> request.type, accepted |-> accepted]
<1>1. request.id \in Nat /\ request.type \in RequestTypes
  BY HeadIsRequest, RequestKinds DEF Calling
<1>2. reply \in Replies
  BY <1>1 DEF Replies
<1>3. [stage |-> "serving", registered |-> registered, protocol_errors |-> errors,
       reply |-> reply] \in Sessions
  <2> HIDE DEF reply
  <2> QED BY <1>2 DEF Sessions, Stages
<1> QED BY <1>3 DEF Calling, Answered

LEMMA TakenType ==
    ASSUME Calling, NEW c \in Connections, requests[c] # <<>>,
           requests' = [requests EXCEPT ![c] = Tail(@)]
    PROVE  requests' \in [Connections -> Seq(Requests)]
<1>1. Tail(requests[c]) \in Seq(Requests)
  BY HeadIsRequest DEF Calling
<1> QED BY <1>1 DEF Calling

(* What ProviderSession::process leaves to be answered.                    *)
LEMMA ProcessType ==
    ASSUME Calling, NEW c \in Connections, Process(c)
    PROVE  Calling'
<1> DEFINE Taken == /\ requests[c] # <<>>
                    /\ requests' = [requests EXCEPT ![c] = Tail(@)]
                    /\ UNCHANGED <<client, told>>
<1>1. session[c].protocol_errors \in Nat /\ session[c].protocol_errors + 1 \in Nat
      /\ session[c].registered \in BOOLEAN
  BY DEF Calling, Sessions
<1>2. ASSUME Taken, Fulfil(c) \/ reject(c)
      PROVE  Calling'
  <2>1. session' \in [Connections -> Sessions]
    BY <1>1, <1>2, AnsweredType DEF Fulfil, reject
  <2>2. requests' \in [Connections -> Seq(Requests)]
    BY <1>2, TakenType
  <2> QED BY <1>2, <2>1, <2>2 DEF Calling
<1>3. Taken
  BY DEF Process, Processing, process_registration, process_upload, process_release,
         process_transaction
<1>4. Fulfil(c) \/ reject(c)
  BY DEF Process, process_registration, process_upload, process_release,
         process_transaction
<1> QED BY <1>2, <1>3, <1>4

(* A call of the library leaves requests the broker can take.              *)
LEMMA CallType ==
    ASSUME Calling, NEW p \in Processes, Call(p)
    PROVE  Calling'
<1> USE DEF Calling
<1>1. client[p] \in Clients /\ client[p].next_request_id \in Nat
  BY DEF Clients
<1>2. CASE open_impl(p)
  <2>1. PICK c \in Connections :
            /\ session' = [session EXCEPT ![c].stage = "backlog"]
            /\ requests' = [requests EXCEPT ![c] = <<Hello>>]
            /\ client' = [client EXCEPT ![p] =
                   [Disconnected EXCEPT !.socket = c, !.exchange = Hello,
                                        !.next_request_id = 2]]
    BY <1>2 DEF open_impl
  <2>2. Hello \in Requests
    BY DEF Hello, Requests
  <2>3. session' \in [Connections -> Sessions]
    BY <2>1, StageType DEF Stage, Stages
  <2>4. requests' \in [Connections -> Seq(Requests)]
    BY <2>1, <2>2
  <2> DEFINE k == [Disconnected EXCEPT !.socket = c, !.exchange = Hello,
                                       !.next_request_id = 2]
  <2>5. k \in Clients /\ k.active_transaction_id = 0
    <3> HIDE DEF Calling
    <3> QED BY <2>2 DEF Disconnected, Clients
  <2>6. client' \in [Processes -> Clients]
    BY <2>1, <2>5
  <2>7. \A q \in Processes : client'[q].active_transaction_id \in 0..MaximumTransactions
    BY <2>1, <2>5, ProtocolAssumption
  <2> QED BY <1>2, <2>3, <2>4, <2>6, <2>7 DEF open_impl
<1>3. CASE register_provider_impl(p)
  <2>1. IdentityOf[p] \in Identities
    BY ProtocolAssumption
  <2>2. [id |-> client[p].next_request_id, type |-> "register_provider",
         body |-> IdentityOf[p]] \in Requests
    BY <1>1, <2>1 DEF Requests
  <2> HIDE DEF Calling
  <2> QED BY <1>3, <2>2, SendType DEF register_provider_impl, Ready
<1>4. CASE \E r \in ResourceIds, x \in Resources : upload_resource_request(p, r, x)
  <2>1. PICK r \in ResourceIds, x \in Resources : upload_resource_request(p, r, x)
    BY <1>4
  <2>2. [id |-> client[p].next_request_id, type |-> "upload_resource",
         body |-> [id |-> r, resource |-> x]] \in Requests
    BY <1>1 DEF Requests
  <2> HIDE DEF Calling
  <2> QED BY <2>1, <2>2, SendType DEF upload_resource_request, OutsideTransaction, Ready
<1>5. CASE \E r \in ResourceIds : release_resource_impl(p, r)
  <2>1. PICK r \in ResourceIds : release_resource_impl(p, r)
    BY <1>5
  <2>2. [id |-> client[p].next_request_id, type |-> "release_resource",
         body |-> r] \in Requests
    BY <1>1 DEF Requests
  <2> HIDE DEF Calling
  <2> QED BY <2>1, <2>2, SendType DEF release_resource_impl, OutsideTransaction, Ready
<1>6. CASE begin_transaction_impl(p)
  <2> DEFINE n == client[p].next_transaction_id
             k == [client[p] EXCEPT !.active_transaction_id = n,
                                    !.next_transaction_id = client[p].next_transaction_id + 1]
  <2>1. n \in Nat /\ n <= MaximumTransactions
    BY <1>1, <1>6 DEF begin_transaction_impl, Clients
  <2>2. client' = [client EXCEPT ![p] = k]
    BY <1>6 DEF begin_transaction_impl
  <2>3. k \in Clients /\ k.active_transaction_id = n
    <3>1. client[p].next_transaction_id + 1 \in Nat
      BY <1>1 DEF Clients
    <3>2. client[p] \in Clients
      BY <1>1
    <3>3. k \in Clients
      <4> HIDE DEF n, Calling
      <4> QED BY <2>1, <3>1, <3>2, ClientUpdates
    <3>4. k.active_transaction_id = n
      <4> HIDE DEF n, Calling
      <4> QED BY <3>2 DEF Clients
    <3> QED BY <3>3, <3>4
  <2>4. n \in 0..MaximumTransactions
    BY <2>1, ProtocolAssumption
  <2> HIDE DEF k, n
  <2> QED BY <1>6, <2>2, <2>3, <2>4 DEF begin_transaction_impl, socketVars
<1>7. CASE \E m \in Mutations : commit_transaction_impl(p, m)
  <2>1. PICK m \in Mutations : commit_transaction_impl(p, m)
    BY <1>7
  <2> DEFINE id == client[p].active_transaction_id
  <2>2. id \in 1..MaximumTransactions
    BY <2>1 DEF commit_transaction_impl
  <2>3. id \in TransactionIds
    BY <2>2, ProtocolAssumption
  <2>4. [id |-> client[p].next_request_id, type |-> "scene_transaction",
         body |-> [id |-> id, mutations |-> m]] \in Requests
    BY <1>1, <2>3 DEF Requests
  <2> HIDE DEF Calling
  <2> QED BY <2>1, <2>4, SendType DEF commit_transaction_impl, Ready
<1>8. CASE abort_transaction_impl(p)
  <2> DEFINE k == [client[p] EXCEPT !.active_transaction_id = 0]
  <2>1. client' = [client EXCEPT ![p] = k]
    BY <1>8 DEF abort_transaction_impl
  <2>2. k \in Clients /\ k.active_transaction_id = 0
    <3>1. client[p] \in Clients
      BY <1>1
    <3>2. k \in Clients
      <4> HIDE DEF Calling
      <4> QED BY <3>1, ClientUpdates
    <3>3. k.active_transaction_id = 0
      BY <3>1 DEF Clients
    <3> QED BY <3>2, <3>3
  <2>3. 0 \in 0..MaximumTransactions
    BY ProtocolAssumption
  <2> HIDE DEF k
  <2> QED BY <1>8, <2>1, <2>2, <2>3 DEF abort_transaction_impl, socketVars
<1>9. CASE close_impl(p) \/ ReceiveTimeout(p)
  BY <1>9, CloseConnectionType DEF close_impl, ReceiveTimeout
<1> QED BY <1>2, <1>3, <1>4, <1>5, <1>6, <1>7, <1>8, <1>9 DEF Call

LEMMA ReceiveType ==
    ASSUME Calling, NEW p \in Processes, Receive(p)
    PROVE  Calling'
<1> USE DEF Calling
<1> DEFINE c == client[p].socket
           answer == Head(answers[c])
           request == client[p].exchange
<1>1. CASE BrokerClosed(p)
  BY <1>1, CloseConnectionType DEF BrokerClosed, ReceiveTimeout
<1>2. CASE ReceiveAnswer(p)
  <2>1. request \in Requests /\ client[p] \in Clients
    BY <1>2 DEF ReceiveAnswer, Clients
  <2>2. UNCHANGED <<session, requests>>
    BY <1>2 DEF ReceiveAnswer
  <2>3. CASE CloseConnection(p)
    BY <2>2, <2>3, CloseConnectionType
  <2>4. CASE Acknowledged(p, request) \/ Refused(p, request)
    BY <2>1, <2>2, <2>4, AcknowledgedType
  <2> QED BY <1>2, <2>3, <2>4 DEF ReceiveAnswer
<1> QED BY <1>1, <1>2 DEF Receive

LEMMA WorkType ==
    ASSUME Calling, NEW c \in Connections,
           AcceptConnection(c) \/ TurnAway(c) \/ Work(c)
    PROVE  Calling'
<1>1. CASE AcceptConnection(c) \/ TurnAway(c)
  BY <1>1, StageType DEF AcceptConnection, TurnAway, Calling, socketVars, Stages
<1>2. CASE Handshake(c)
  <2>1. session' \in [Connections -> Sessions]
    BY <1>2, StageType DEF Handshake, Stages
  <2>2. requests' \in [Connections -> Seq(Requests)]
    BY <1>2, TakenType DEF Handshake
  <2> QED BY <1>2, <2>1, <2>2 DEF Handshake, Calling
<1>3. CASE HangUp(c) \/ Leave(c) \/ CloseSocket(c) \/ EndWorker(c)
  BY <1>3, StageType
     DEF HangUp, Leave, CloseSocket, EndWorker, Calling, socketVars, Stages
<1>4. CASE Process(c)
  BY <1>4, ProcessType
<1>5. CASE SendAnswer(c)
  <2>1. PICK stage \in {session[c].stage, "leaving"} :
            session' = [session EXCEPT ![c].reply = None, ![c].stage = stage]
    BY <1>5 DEF SendAnswer
  <2>2. session[c] \in Sessions /\ stage \in Stages
    BY DEF Calling, Sessions, Stages
  <2>3. [session[c] EXCEPT !.reply = None, !.stage = stage] \in Sessions
    BY <2>2, SessionUpdates
  <2>4. session' = [session EXCEPT ![c] =
            [session[c] EXCEPT !.reply = None, !.stage = stage]]
    BY <2>1
  <2> QED BY <1>5, <2>3, <2>4 DEF SendAnswer, Calling
<1> QED BY <1>1, <1>2, <1>3, <1>4, <1>5 DEF Work

LEMMA NextCalling ==
    ASSUME Calling, [ProtocolNext]_protocolVars
    PROVE  Calling'
<1>1. CASE UNCHANGED protocolVars
  BY <1>1 DEF protocolVars, socketVars, Calling
<1>2. CASE \E p \in Processes : Call(p) \/ Receive(p)
  BY <1>2, CallType, ReceiveType
<1>3. CASE \E c \in Connections : AcceptConnection(c) \/ TurnAway(c) \/ Work(c)
  BY <1>3, WorkType
<1> QED BY <1>1, <1>2, <1>3 DEF ProtocolNext, Listen

LEMMA InitCalling == ProtocolInit => Calling
<1> SUFFICES ASSUME ProtocolInit PROVE Calling
  OBVIOUS
<1>1. NoSession \in Sessions
  BY DEF NoSession, Sessions, Stages
<1>2. Disconnected.active_transaction_id \in 0..MaximumTransactions
  BY ProtocolAssumption DEF Disconnected
<1> QED BY <1>1, <1>2, DisconnectedType DEF ProtocolInit, Calling

-----------------------------------------------------------------------------
(* The store.                                                              *)

(* A request is processed by an operation of the store, or leaves it alone. *)
LEMMA ProcessKeepsStore ==
    ASSUME Calling, NEW c \in Connections, Process(c)
    PROVE  [Next]_vars
<1> DEFINE request == Head(requests[c])
<1>1. request \in Requests /\ requests[c] # <<>>
  BY HeadIsRequest DEF Calling, Process, process_registration, process_upload,
     process_release, process_transaction, Processing
<1>2. CASE process_registration(c)
  <2>1. request.body \in Identities
    BY <1>1, <1>2, RequestKinds DEF process_registration, Processing
  <2> QED BY <1>2, <2>1 DEF process_registration, reject, Body, Next, Register
<1>3. CASE process_upload(c)
  <2>1. request.body \in [id : ResourceIds, resource : Resources]
    BY <1>1, <1>3, RequestKinds DEF process_upload, Processing
  <2>2. CASE store_resource(c, request.body.id, request.body.resource)
    BY <2>1, <2>2 DEF store_resource, CanStore, Next, Store
  <2> QED BY <1>3, <2>2 DEF process_upload, reject, Body
<1>4. CASE process_release(c)
  <2>1. request.body \in ResourceIds
    BY <1>1, <1>4, RequestKinds DEF process_release, Processing
  <2>2. CASE release_resource(c, request.body)
    BY <2>1, <2>2 DEF release_resource, CanRelease, Next, Release
  <2> QED BY <1>4, <2>2 DEF process_release, reject, Body
<1>5. CASE process_transaction(c)
  <2>1. request.body \in [id : TransactionIds, mutations : Mutations]
    BY <1>1, <1>5, RequestKinds DEF process_transaction, Processing
  <2>2. CASE commit(c, request.body.id, request.body.mutations)
    BY <2>1, <2>2 DEF commit, CanCommit, Next, Commit
  <2> QED BY <1>5, <2>2 DEF process_transaction, reject, Body
<1> QED BY <1>2, <1>3, <1>4, <1>5 DEF Process

LEMMA NextKeepsStore ==
    ASSUME Calling, [ProtocolNext]_protocolVars
    PROVE  [Next]_vars
<1>1. CASE UNCHANGED protocolVars
  BY <1>1 DEF protocolVars
<1>2. CASE \E p \in Processes : Call(p) \/ Receive(p)
  BY <1>2 DEF Call, Receive, open_impl, register_provider_impl, upload_resource_request,
     release_resource_impl, begin_transaction_impl, commit_transaction_impl,
     abort_transaction_impl, close_impl, ReceiveTimeout, ReceiveAnswer, BrokerClosed
<1>3. CASE Listen
  BY <1>3 DEF Listen, AcceptConnection, TurnAway
<1>4. ASSUME NEW c \in Connections, Work(c)
      PROVE  [Next]_vars
  <2>1. CASE Handshake(c) \/ HangUp(c) \/ SendAnswer(c) \/ CloseSocket(c) \/ EndWorker(c)
    BY <2>1 DEF Handshake, HangUp, SendAnswer, CloseSocket, EndWorker
  <2>2. CASE Process(c)
    BY <2>2, ProcessKeepsStore
  <2>3. CASE Leave(c)
    BY <2>3 DEF Leave, Next, Disconnect
  <2> QED BY <1>4, <2>1, <2>2, <2>3 DEF Work
<1> QED BY <1>1, <1>2, <1>3, <1>4 DEF ProtocolNext

THEOREM RequestsAreWellFormed == ProtocolSpec => []Calling
<1> QED BY InitCalling, NextCalling, PTL DEF ProtocolSpec

(* The broker's sessions take no step of the store but its own: whatever   *)
(* clients send, and whenever they go (provider_session.cpp, process).     *)
THEOREM ServesTheStore == ProtocolSpec => KeepsTheStore
<1>1. ProtocolInit => Init
  BY DEF ProtocolInit
<1> QED BY <1>1, NextKeepsStore, RequestsAreWellFormed, PTL DEF ProtocolSpec, KeepsTheStore, Spec

(* So everything that is proved of the store holds under its sessions.     *)
THEOREM ServedScenesStayWhole ==
    ProtocolSpec => [](TypeOK /\ NoDanglingResource /\ PublishedIsCommitted
                       /\ SnapshotIsCurrent /\ FeedIsContiguous)
<1> QED BY ServesTheStore, TypeCorrect, ScenesStayWhole, SnapshotNeverStale,
           RetainedAreConsecutive, PTL DEF KeepsTheStore

-----------------------------------------------------------------------------
(* Sockets and their count.                                                *)

(* The connections that the accept loop counted and no worker has counted  *)
(* down.                                                                   *)
Counted == {c \in Connections :
    session[c].stage \in {"handshake", "serving", "leaving", "closing", "counting"}}

Counting ==
    /\ open \in [Connections -> SUBSET {"client", "broker"}]
    /\ active_connections \in Int
    /\ active_connections <= MaximumConnections
    /\ IsFiniteSet(Counted)
    /\ Cardinality(Counted) <= active_connections
    /\ \A c \in Connections :
           "broker" \in open[c] =>
               session[c].stage \in {"backlog", "handshake", "serving", "leaving", "closing"}

(* Steps that move no connection into the count or out of it.              *)
LEMMA SameCount ==
    ASSUME Calling, Counting, Calling',
           open' \in [Connections -> SUBSET {"client", "broker"}],
           UNCHANGED active_connections, Counted' = Counted,
           \A c \in Connections : "broker" \in open'[c] =>
               session'[c].stage \in {"backlog", "handshake", "serving", "leaving", "closing"}
    PROVE  Counting'
BY DEF Counting

LEMMA CallCounts ==
    ASSUME Calling, Counting, Calling', NEW p \in Processes, Call(p) \/ Receive(p)
    PROVE  Counting'
<1> USE DEF Counting
<1>1. CASE open_impl(p)
  <2>1. PICK c \in Connections :
            /\ session[c].stage = "unused"
            /\ open' = [open EXCEPT ![c] = {"client", "broker"}]
            /\ session' = [session EXCEPT ![c].stage = "backlog"]
            /\ UNCHANGED active_connections
    BY <1>1 DEF open_impl, First, Unused
  <2>2. session \in [Connections -> Sessions]
    BY DEF Calling
  <2>3. session'[c].stage = "backlog"
        /\ \A d \in Connections \ {c} : session'[d] = session[d]
    BY <2>1, <2>2 DEF Sessions
  <2>4. Counted' = Counted
    BY <2>1, <2>3 DEF Counted
  <2> HIDE DEF Counted
  <2> QED BY <2>1, <2>3, <2>4
<1>2. CASE ~open_impl(p)
  <2>1. UNCHANGED <<session, active_connections>>
    BY <1>2 DEF Call, Receive, register_provider_impl, upload_resource_request,
       release_resource_impl, begin_transaction_impl, commit_transaction_impl,
       abort_transaction_impl, close_impl, ReceiveTimeout, ReceiveAnswer, BrokerClosed
  <2>2. open' = open \/ open' = [open EXCEPT ![client[p].socket] = @ \ {"client"}]
    BY <1>2 DEF Call, Receive, register_provider_impl, upload_resource_request,
       release_resource_impl, begin_transaction_impl, commit_transaction_impl,
       abort_transaction_impl, close_impl, ReceiveTimeout, ReceiveAnswer, BrokerClosed,
       Send, CloseConnection, Acknowledged, Refused, socketVars
  <2>3. Counted' = Counted
    BY <2>1 DEF Counted
  <2>4. /\ open' \in [Connections -> SUBSET {"client", "broker"}]
        /\ \A c \in Connections : open'[c] \subseteq open[c]
    BY <2>2
  <2> HIDE DEF Counted
  <2> QED BY <2>1, <2>3, <2>4
<1> QED BY <1>1, <1>2

LEMMA WorkCounts ==
    ASSUME Calling, Counting, Calling', NEW c \in Connections,
           AcceptConnection(c) \/ TurnAway(c) \/ Work(c)
    PROVE  Counting'
<1> USE DEF Counting
<1> DEFINE Others == \A d \in Connections \ {c} :
                         session'[d] = session[d] /\ open'[d] = open[d]
<1>1. session \in [Connections -> Sessions]
  BY DEF Calling
<1>2. ASSUME NEW stage, Stage(c, stage), open' = open \/ open' = [open EXCEPT ![c] = @ \ {"broker"}]
      PROVE  /\ session'[c].stage = stage
             /\ Others
             /\ open' \in [Connections -> SUBSET {"client", "broker"}]
             /\ "broker" \in open'[c] => "broker" \in open[c]
  BY <1>1, <1>2 DEF Stage, Sessions
<1>3. CASE AcceptConnection(c)
  <2>1. session[c].stage = "backlog" /\ session'[c].stage = "handshake" /\ Others
        /\ open' = open
    BY <1>2, <1>3 DEF AcceptConnection, First, Backlog, socketVars
  <2>2. c \notin Counted /\ Counted' = Counted \cup {c}
    BY <2>1 DEF Counted
  <2>3. IsFiniteSet(Counted') /\ Cardinality(Counted') = Cardinality(Counted) + 1
    BY <2>2, FS_AddElement
  <2>4. active_connections' = active_connections + 1 /\ active_connections < MaximumConnections
    BY <1>3 DEF AcceptConnection
  <2>5. Cardinality(Counted) \in Nat /\ MaximumConnections \in Nat
    BY FS_CardinalityType, ProtocolAssumption
  <2> HIDE DEF Counted
  <2> QED BY <2>1, <2>3, <2>4, <2>5
<1>4. CASE TurnAway(c)
  <2>1. session[c].stage = "backlog" /\ session'[c].stage = "done" /\ Others
        /\ open' = [open EXCEPT ![c] = @ \ {"broker"}]
        /\ open' \in [Connections -> SUBSET {"client", "broker"}]
        /\ UNCHANGED active_connections
    BY <1>2, <1>4 DEF TurnAway, First, Backlog
  <2>2. Counted' = Counted
    BY <2>1 DEF Counted
  <2> HIDE DEF Counted
  <2> QED BY <2>1, <2>2
<1>5. CASE Handshake(c) \/ HangUp(c) \/ Leave(c)
  <2>1. PICK stage \in {"serving", "leaving", "closing"} : Stage(c, stage)
    BY <1>5 DEF Handshake, HangUp, Leave
  <2>2. session[c].stage \in {"handshake", "serving", "leaving"}
        /\ UNCHANGED <<open, active_connections>>
    BY <1>5 DEF Handshake, HangUp, Leave, socketVars
  <2>3. session'[c].stage = stage /\ Others
    BY <1>2, <2>1, <2>2
  <2>4. Counted' = Counted
    BY <2>1, <2>2, <2>3 DEF Counted
  <2> HIDE DEF Counted
  <2> QED BY <2>1, <2>2, <2>3, <2>4
<1>6. CASE Process(c)
  <2>1. /\ session[c].stage = "serving"
        /\ \E k : k.stage = "serving" /\ session' = [session EXCEPT ![c] = k]
        /\ UNCHANGED <<open, active_connections>>
    BY <1>6 DEF Process, process_registration, process_upload, process_release,
       process_transaction, Processing, Fulfil, reject, Answered
  <2>2. session'[c].stage = "serving" /\ Others
    BY <1>1, <2>1
  <2>3. Counted' = Counted
    BY <2>1, <2>2 DEF Counted
  <2> HIDE DEF Counted
  <2> QED BY <2>1, <2>2, <2>3
<1>7. CASE SendAnswer(c)
  <2>1. PICK stage \in {"serving", "leaving"} :
            session' = [session EXCEPT ![c].reply = None, ![c].stage = stage]
    BY <1>7 DEF SendAnswer
  <2>2. session[c].stage = "serving" /\ UNCHANGED <<open, active_connections>>
    BY <1>7 DEF SendAnswer
  <2>3. session'[c].stage = stage /\ Others
    BY <1>1, <2>1, <2>2 DEF Sessions
  <2>4. Counted' = Counted
    BY <2>1, <2>2, <2>3 DEF Counted
  <2> HIDE DEF Counted
  <2> QED BY <2>1, <2>2, <2>3, <2>4
<1>8. CASE CloseSocket(c)
  <2>1. session[c].stage = "closing" /\ session'[c].stage = "counting" /\ Others
        /\ open' = [open EXCEPT ![c] = @ \ {"broker"}]
        /\ open' \in [Connections -> SUBSET {"client", "broker"}]
        /\ UNCHANGED active_connections
    BY <1>2, <1>8 DEF CloseSocket
  <2>2. Counted' = Counted
    BY <2>1 DEF Counted
  <2> HIDE DEF Counted
  <2> QED BY <2>1, <2>2
<1>9. CASE EndWorker(c)
  <2>1. session[c].stage = "counting" /\ session'[c].stage = "done" /\ Others
        /\ open' = open
    BY <1>2, <1>9 DEF EndWorker, socketVars
  <2>2. c \in Counted /\ Counted' = Counted \ {c}
    BY <2>1 DEF Counted
  <2>3. IsFiniteSet(Counted') /\ Cardinality(Counted') = Cardinality(Counted) - 1
    BY <2>2, FS_RemoveElement
  <2>4. active_connections' = active_connections - 1
    BY <1>9 DEF EndWorker
  <2>5. Cardinality(Counted) \in Nat /\ MaximumConnections \in Nat
    BY FS_CardinalityType, ProtocolAssumption
  <2> HIDE DEF Counted
  <2> QED BY <2>1, <2>3, <2>4, <2>5
<1> QED BY <1>3, <1>4, <1>5, <1>6, <1>7, <1>8, <1>9 DEF Work

LEMMA InitCounting == ProtocolInit => Counting
<1> SUFFICES ASSUME ProtocolInit PROVE Counting
  OBVIOUS
<1>1. Counted = {}
  BY DEF ProtocolInit, NoSession, Counted
<1>2. IsFiniteSet(Counted) /\ Cardinality(Counted) = 0
  BY <1>1, FS_EmptySet
<1>3. active_connections \in Nat /\ active_connections <= MaximumConnections
  BY ProtocolAssumption DEF ProtocolInit
<1> HIDE DEF Counted
<1> QED BY <1>2, <1>3 DEF ProtocolInit, Counting

LEMMA CountingBounds ==
    ASSUME Counting
    PROVE  SocketsAreBounded /\ active_connections \in Nat
<1> DEFINE accepted == {c \in Connections :
               "broker" \in open[c] /\ session[c].stage # "backlog"}
<1>1. accepted \subseteq Counted
  BY DEF Counting, Counted
<1>2. Cardinality(accepted) <= Cardinality(Counted) /\ Cardinality(accepted) \in Nat
      /\ Cardinality(Counted) \in Nat
  BY <1>1, FS_Subset, FS_CardinalityType DEF Counting
<1> HIDE DEF accepted
<1>3. Cardinality(accepted) <= active_connections /\ active_connections \in Nat
      /\ active_connections <= MaximumConnections
  BY <1>2 DEF Counting
<1> QED BY <1>3 DEF SocketsAreBounded, accepted

THEOREM CountIsKept == ProtocolSpec => []Counting
<1>1. Calling /\ Counting /\ Calling' /\ [ProtocolNext]_protocolVars => Counting'
  <2> SUFFICES ASSUME Calling, Counting, Calling', [ProtocolNext]_protocolVars
               PROVE  Counting'
    OBVIOUS
  <2>1. CASE UNCHANGED protocolVars
    BY <2>1 DEF protocolVars, socketVars, Counting, Counted
  <2>2. CASE \E p \in Processes : Call(p) \/ Receive(p)
    BY <2>2, CallCounts
  <2>3. CASE \E c \in Connections : AcceptConnection(c) \/ TurnAway(c) \/ Work(c)
    BY <2>3, WorkCounts
  <2> QED BY <2>1, <2>2, <2>3 DEF ProtocolNext, Listen
<1> QED BY <1>1, InitCounting, RequestsAreWellFormed, PTL DEF ProtocolSpec

(* The broker never holds more sockets than its limit, in whatever order   *)
(* connections come, are refused, end and are counted (main.cpp:244-278).  *)
THEOREM SocketsStayBounded == ProtocolSpec => []SocketsAreBounded
<1>1. Counting => SocketsAreBounded
  BY CountingBounds
<1> QED BY <1>1, CountIsKept, PTL

-----------------------------------------------------------------------------
(* Scenes and their connections.                                           *)

(* A scene has a session that registered it; when that is about to leave,  *)
(* its client left before or its last refusal was counted.                 *)
Owning ==
    \A c \in Registered :
        /\ session[c].stage \in {"serving", "leaving"}
        /\ session[c].registered
        /\ session[c].stage = "leaving" =>
               "client" \notin open[c] \/ session[c].protocol_errors >= MaximumErrors

(* A request adds no scene but its own connection's, and takes none away.  *)
LEMMA ProcessRegisters ==
    ASSUME TypeOK, Calling, NEW c \in Connections, Process(c)
    PROVE  /\ \A d \in Connections \ {c} : providers'[d] = providers[d]
           /\ providers' = providers \/ Fulfil(c)
           /\ c \in Registered => providers'[c] # None
<1> DEFINE request == Head(requests[c])
           Grows == /\ \A d \in Connections \ {c} : providers'[d] = providers[d]
                    /\ c \in Registered => providers'[c] # None
<1>1. request \in Requests /\ requests[c] # <<>>
  BY HeadIsRequest DEF Calling, Process, process_registration, process_upload,
     process_release, process_transaction, Processing
<1>2. providers \in [Connections -> ProviderStates \cup {None}] /\ None \notin ProviderStates
  BY StoreAssumption DEF TypeOK
<1>3. CASE UNCHANGED vars
  <2>1. providers' = providers
    BY <1>3 DEF vars
  <2> QED BY <2>1 DEF Registered
<1>4. ASSUME process_registration(c), ~UNCHANGED vars
      PROVE  Grows /\ Fulfil(c)
  <2>1. register_provider(c, request.body) /\ Fulfil(c)
    BY <1>4 DEF process_registration, reject, Body
  <2>2. request.body \in Identities
    BY <1>1, <1>4, RequestKinds DEF process_registration, Processing
  <2>3. providers'[c] \in ProviderStates
    BY <2>1, <2>2, RegistrationType
  <2> QED BY <1>2, <2>1, <2>3 DEF register_provider
<1>5. ASSUME process_upload(c), ~UNCHANGED vars
      PROVE  Grows /\ Fulfil(c)
  <2>1. store_resource(c, request.body.id, request.body.resource) /\ Fulfil(c)
    BY <1>5 DEF process_upload, reject, Body
  <2>2. request.body \in [id : ResourceIds, resource : Resources]
    BY <1>1, <1>5, RequestKinds DEF process_upload, Processing
  <2>3. c \in Registered /\ request.body.id \in ResourceIds /\ request.body.resource \in Resources
    BY <2>1, <2>2 DEF store_resource, CanStore
  <2>4. providers'[c] \in ProviderStates
    BY <2>1, <2>3, StoreType
  <2> QED BY <1>2, <2>1, <2>4 DEF store_resource
<1>6. ASSUME process_release(c), ~UNCHANGED vars
      PROVE  Grows /\ Fulfil(c)
  <2>1. release_resource(c, request.body) /\ Fulfil(c)
    BY <1>6 DEF process_release, reject, Body
  <2>2. request.body \in ResourceIds /\ c \in Registered
    BY <1>1, <1>6, <2>1, RequestKinds DEF process_release, Processing, release_resource, CanRelease
  <2>3. providers'[c] \in ProviderStates
    BY <2>1, <2>2, ReleaseType
  <2> QED BY <1>2, <2>1, <2>3 DEF release_resource
<1>7. ASSUME process_transaction(c), ~UNCHANGED vars
      PROVE  Grows /\ Fulfil(c)
  <2>1. commit(c, request.body.id, request.body.mutations) /\ Fulfil(c)
    BY <1>7 DEF process_transaction, reject, Body
  <2>2. request.body \in [id : TransactionIds, mutations : Mutations]
    BY <1>1, <1>7, RequestKinds DEF process_transaction, Processing
  <2>3. c \in Registered /\ request.body.id \in TransactionIds
        /\ request.body.mutations \in Mutations
    BY <2>1, <2>2 DEF commit, CanCommit
  <2>4. providers'[c] \in ProviderStates
    BY <2>1, <2>3, CommitType
  <2> QED BY <1>2, <2>1, <2>4 DEF commit
<1> QED BY <1>3, <1>4, <1>5, <1>6, <1>7 DEF Process

(* All that a step outside Process and Leave does to scenes and sessions.  *)
LEMMA CallOwns ==
    ASSUME Calling, Owning, Counting, NEW p \in Processes, Call(p) \/ Receive(p)
    PROVE  Owning' /\ UNCHANGED providers
<1>1. CASE open_impl(p)
  <2>1. PICK c \in Connections :
            /\ session[c].stage = "unused"
            /\ open' = [open EXCEPT ![c] = {"client", "broker"}]
            /\ session' = [session EXCEPT ![c].stage = "backlog"]
            /\ UNCHANGED providers
    BY <1>1 DEF open_impl, First, Unused, vars
  <2>2. c \notin Registered
    BY <2>1 DEF Owning
  <2>3. \A d \in Connections \ {c} : session'[d] = session[d] /\ open'[d] = open[d]
    BY <2>1 DEF Calling, Counting
  <2> QED BY <2>1, <2>2, <2>3 DEF Owning, Registered
<1>2. CASE ~open_impl(p)
  <2>1. UNCHANGED <<session, providers>>
    BY <1>2 DEF Call, Receive, register_provider_impl, upload_resource_request,
       release_resource_impl, begin_transaction_impl, commit_transaction_impl,
       abort_transaction_impl, close_impl, ReceiveTimeout, ReceiveAnswer, BrokerClosed, vars
  <2>2. open' = open \/ open' = [open EXCEPT ![client[p].socket] = @ \ {"client"}]
    BY <1>2 DEF Call, Receive, register_provider_impl, upload_resource_request,
       release_resource_impl, begin_transaction_impl, commit_transaction_impl,
       abort_transaction_impl, close_impl, ReceiveTimeout, ReceiveAnswer, BrokerClosed,
       Send, CloseConnection, Acknowledged, Refused, socketVars
  <2>3. \A c \in Connections : open'[c] \subseteq open[c]
    BY <2>2 DEF Counting
  <2> QED BY <2>1, <2>3 DEF Owning, Registered
<1> QED BY <1>1, <1>2

LEMMA WorkOwns ==
    ASSUME TypeOK, Calling, Owning, Counting, NEW c \in Connections,
           AcceptConnection(c) \/ TurnAway(c) \/ Work(c)
    PROVE  /\ Owning'
           /\ (\A d \in Registered : providers'[d] # None) \/ Leave(c)
<1>1. /\ session \in [Connections -> Sessions]
      /\ open \in [Connections -> SUBSET {"client", "broker"}]
      /\ providers \in [Connections -> ProviderStates \cup {None}]
  BY DEF Calling, Counting, TypeOK
<1>2. ASSUME NEW stage, Stage(c, stage), c \notin Registered, UNCHANGED providers,
             open' = open \/ open' = [open EXCEPT ![c] = @ \ {"broker"}]
      PROVE  Owning' /\ \A d \in Registered : providers'[d] # None
  <2>1. \A d \in Connections \ {c} : session'[d] = session[d] /\ open'[d] = open[d]
    BY <1>1, <1>2 DEF Stage
  <2> QED BY <1>2, <2>1 DEF Owning, Registered
<1>3. CASE AcceptConnection(c) \/ TurnAway(c) \/ CloseSocket(c) \/ EndWorker(c)
  <2>1. session[c].stage \notin {"serving", "leaving"}
    BY <1>3 DEF AcceptConnection, TurnAway, First, Backlog, CloseSocket, EndWorker
  <2>2. c \notin Registered
    BY <2>1 DEF Owning
  <2>3. \E stage : Stage(c, stage)
    BY <1>3 DEF AcceptConnection, TurnAway, CloseSocket, EndWorker
  <2>4. UNCHANGED providers /\ (open' = open \/ open' = [open EXCEPT ![c] = @ \ {"broker"}])
    BY <1>3 DEF AcceptConnection, TurnAway, CloseSocket, EndWorker, vars, socketVars
  <2> QED BY <1>2, <2>2, <2>3, <2>4
<1>4. CASE Handshake(c)
  <2>1. c \notin Registered /\ UNCHANGED <<providers, open>>
    BY <1>4 DEF Handshake, Owning, vars
  <2>2. \E stage : Stage(c, stage)
    BY <1>4 DEF Handshake
  <2> QED BY <1>2, <2>1, <2>2
<1>5. CASE HangUp(c)
  <2>1. /\ UNCHANGED <<providers, open>>
        /\ session' = [session EXCEPT ![c].stage = "leaving"]
        /\ "client" \notin open[c] \/ ~session[c].registered
    BY <1>5 DEF HangUp, vars, socketVars, Stage
  <2>2. /\ \A d \in Connections \ {c} : session'[d] = session[d]
        /\ session'[c].stage = "leaving" /\ session'[c].registered = session[c].registered
    BY <1>1, <2>1 DEF Sessions
  <2>3. c \in Registered => session[c].registered
    BY DEF Owning
  <2> QED BY <2>1, <2>2, <2>3 DEF Owning, Registered
<1>6. CASE SendAnswer(c)
  <2>1. PICK stage \in {"serving", "leaving"} :
            /\ session' = [session EXCEPT ![c].reply = None, ![c].stage = stage]
            /\ stage = "leaving" =>
                   "client" \notin open[c] \/ session[c].protocol_errors >= MaximumErrors
    BY <1>6 DEF SendAnswer
  <2>2. UNCHANGED <<providers, open>>
    BY <1>6 DEF SendAnswer, vars
  <2>3. /\ \A d \in Connections \ {c} : session'[d] = session[d]
        /\ session'[c].stage = stage /\ session'[c].registered = session[c].registered
        /\ session'[c].protocol_errors = session[c].protocol_errors
    BY <1>1, <2>1 DEF Sessions
  <2> QED BY <2>1, <2>2, <2>3 DEF Owning, Registered
<1>7. CASE Process(c)
  <2>1. /\ \A d \in Connections \ {c} : providers'[d] = providers[d]
        /\ providers' = providers \/ Fulfil(c)
        /\ c \in Registered => providers'[c] # None
    BY <1>7, ProcessRegisters
  <2>2. /\ UNCHANGED open
        /\ Fulfil(c) \/ reject(c)
    BY <1>7 DEF Process, process_registration, process_upload, process_release,
       process_transaction, Processing
  <2>3. /\ \A d \in Connections \ {c} : session'[d] = session[d]
        /\ session'[c].stage = "serving"
        /\ Fulfil(c) => session'[c].registered
        /\ reject(c) => session'[c].registered = session[c].registered
    BY <1>1, <2>2 DEF Fulfil, reject, Answered
  <2>4. reject(c) => providers' = providers
    BY DEF reject, vars
  <2> QED BY <2>1, <2>2, <2>3, <2>4 DEF Owning, Registered
<1>8. CASE Leave(c)
  <2>1. /\ Stage(c, "closing") /\ UNCHANGED open
        /\ \/ providers' = providers /\ c \notin Registered
           \/ providers' = [providers EXCEPT ![c] = None]
    BY <1>8 DEF Leave, disconnect, vars, socketVars
  <2>2. \A d \in Connections \ {c} : session'[d] = session[d] /\ providers'[d] = providers[d]
    BY <1>1, <2>1 DEF Stage
  <2>3. c \notin Registered'
    BY <1>1, <2>1 DEF Registered
  <2> QED BY <1>8, <2>1, <2>2, <2>3 DEF Owning, Registered
<1> QED BY <1>3, <1>4, <1>5, <1>6, <1>7, <1>8 DEF Work

(* Every scene belongs to a session that registered it and has not left    *)
(* (provider_session.cpp, ~ProviderSession).                               *)
THEOREM ScenesHaveSessions == ProtocolSpec => []Owning
<1>1. ProtocolInit => Owning
  BY DEF ProtocolInit, Init, NoProviders, Owning, Registered
<1>2. TypeOK /\ Calling /\ Counting /\ Owning /\ [ProtocolNext]_protocolVars => Owning'
  <2> SUFFICES ASSUME TypeOK, Calling, Counting, Owning, [ProtocolNext]_protocolVars
               PROVE  Owning'
    OBVIOUS
  <2>1. CASE UNCHANGED protocolVars
    BY <2>1 DEF protocolVars, vars, socketVars, Owning, Registered
  <2>2. CASE \E p \in Processes : Call(p) \/ Receive(p)
    BY <2>2, CallOwns
  <2>3. CASE \E c \in Connections : AcceptConnection(c) \/ TurnAway(c) \/ Work(c)
    BY <2>3, WorkOwns
  <2> QED BY <2>1, <2>2, <2>3 DEF ProtocolNext, Listen
<1>3. KeepsTheStore => []TypeOK
  BY TypeCorrect DEF KeepsTheStore
<1> QED BY <1>1, <1>2, <1>3, ServesTheStore, RequestsAreWellFormed, CountIsKept, PTL
        DEF ProtocolSpec

(* A provider that stays keeps its scene, however long it is silent and    *)
(* whatever others do: only its own last refusal takes it down             *)
(* (connection.cpp, serve_connection; provider_session.cpp, reject).       *)
THEOREM ScenesOutlastSilence == ProtocolSpec => ScenesEndWithTheirClient
<1> DEFINE Lasts == \A c \in Connections :
               (c \in Registered /\ "client" \in open[c] /\ c \notin Registered') =>
                   session[c].protocol_errors >= MaximumErrors
<1>1. ASSUME TypeOK, Calling, Counting, Owning, [ProtocolNext]_protocolVars
      PROVE  [Lasts]_protocolVars
  <2>1. CASE UNCHANGED protocolVars
    BY <2>1
  <2>2. CASE \E p \in Processes : Call(p) \/ Receive(p)
    <3>1. UNCHANGED providers
      BY <1>1, <2>2, CallOwns
    <3> QED BY <3>1 DEF Registered
  <2>3. ASSUME NEW d \in Connections, AcceptConnection(d) \/ TurnAway(d) \/ Work(d)
        PROVE  Lasts
    <3>1. (\A c \in Registered : providers'[c] # None) \/ Leave(d)
      BY <1>1, <2>3, WorkOwns
    <3>2. CASE \A c \in Registered : providers'[c] # None
      BY <3>2 DEF Registered
    <3>3. CASE Leave(d)
      <4>1. session[d].stage = "leaving"
        BY <3>3 DEF Leave
      <4>2. \A c \in Connections \ {d} : providers'[c] = providers[c]
        BY <1>1, <3>3 DEF Leave, disconnect, vars, TypeOK
      <4> QED BY <1>1, <4>1, <4>2 DEF Owning, Registered
    <3> QED BY <3>1, <3>2, <3>3
  <2> QED BY <1>1, <2>1, <2>2, <2>3 DEF ProtocolNext, Listen
<1>2. KeepsTheStore => []TypeOK
  BY TypeCorrect DEF KeepsTheStore
<1> QED BY <1>1, <1>2, ServesTheStore, RequestsAreWellFormed, CountIsKept, ScenesHaveSessions, PTL
        DEF ProtocolSpec, ScenesEndWithTheirClient

-----------------------------------------------------------------------------
(* Requests and their answers.                                             *)

Answers == [id : Nat, accepted : BOOLEAN, revision : Nat]

Idle(c) == requests[c] = <<>> /\ session[c].reply = None /\ answers[c] = <<>>

(* Of a request that a client waits for there is one trace at most: the    *)
(* packet, what its worker will answer, or the answer.                     *)
UnderWay(c, id) ==
    \/ Idle(c)
    \/ /\ \E r \in Requests : requests[c] = <<r>> /\ r.id = id
       /\ session[c].reply = None /\ answers[c] = <<>>
    \/ /\ requests[c] = <<>> /\ answers[c] = <<>>
       /\ session[c].reply # None /\ session[c].reply.id = id
    \/ /\ requests[c] = <<>> /\ session[c].reply = None
       /\ \E a \in Answers : answers[c] = <<a>> /\ a.id = id

(* What a process with a socket may rely on.                               *)
InTurn(p) ==
    client[p].socket # None =>
        /\ session[client[p].socket].stage # "unused"
        /\ client[p].exchange = None => Idle(client[p].socket)
        /\ client[p].exchange # None =>
               UnderWay(client[p].socket, client[p].exchange.id)

Exchanging ==
    /\ answers \in [Connections -> Seq(Answers)]
    /\ \A c \in Connections : session[c].stage = "unused" => Idle(c)
    /\ \A p \in Processes : InTurn(p)
    /\ \A p, q \in Processes :
           client[p].socket # None /\ client[p].socket = client[q].socket => p = q

(* The steps of one process and of what is on its socket leave the others  *)
(* in order.                                                               *)
LEMMA OthersInTurn ==
    ASSUME Exchanging, Calling, Calling', NEW p \in Processes, NEW c \in Connections,
           client[p].socket = c \/ session[c].stage = "unused",
           \A q \in Processes \ {p} : client'[q] = client[q],
           \A d \in Connections \ {c} :
               requests'[d] = requests[d] /\ session'[d] = session[d] /\ answers'[d] = answers[d]
    PROVE  /\ \A q \in Processes \ {p} : InTurn(q)'
           /\ \A d \in Connections \ {c} : session'[d].stage = "unused" => Idle(d)'
<1>1. ASSUME NEW q \in Processes \ {p}, client[q].socket # None
      PROVE  client[q].socket \in Connections \ {c}
  BY <1>1 DEF Exchanging, InTurn, Calling, Clients
<1>2. \A d \in Connections \ {c} : Idle(d)' = Idle(d)
  BY DEF Idle
<1>3. \A d \in Connections \ {c}, id \in Nat : UnderWay(d, id)' = UnderWay(d, id)
  BY <1>2 DEF UnderWay
<1>4. \A q \in Processes : client[q].exchange # None => client[q].exchange.id \in Nat
  BY RequestKinds DEF Calling, Clients
<1>5. ASSUME NEW q \in Processes \ {p}
      PROVE  InTurn(q)'
  <2>1. InTurn(q)
    BY DEF Exchanging
  <2> QED BY <1>1, <1>2, <1>3, <1>4, <2>1 DEF InTurn
<1> QED BY <1>2, <1>5 DEF Exchanging

(* A process that leaves its socket is in order.                           *)
LEMMA CloseExchanges ==
    ASSUME Exchanging, Calling, Calling', NEW p \in Processes, client[p].socket # None,
           CloseConnection(p), UNCHANGED <<session, requests>>,
           \/ answers' = answers
           \/ answers' = [answers EXCEPT ![client[p].socket] = Tail(@)]
                  /\ answers[client[p].socket] # <<>>
    PROVE  Exchanging'
<1> DEFINE c == client[p].socket
<1>1. c \in Connections
  BY DEF Calling, Clients
<1>2. answers' \in [Connections -> Seq(Answers)]
      /\ \A d \in Connections \ {c} : answers'[d] = answers[d]
  <2>1. answers[c] \in Seq(Answers)
    BY <1>1 DEF Exchanging
  <2>2. answers[c] # <<>> => Tail(answers[c]) \in Seq(Answers)
    BY <2>1
  <2> HIDE DEF c
  <2> QED BY <2>2 DEF Exchanging, c
<1>3. client'[p].socket = None /\ \A q \in Processes \ {p} : client'[q] = client[q]
  BY DEF CloseConnection, Disconnected, Calling
<1>4. session[c].stage # "unused"
  BY DEF Exchanging, InTurn
<1>5. /\ \A q \in Processes \ {p} : InTurn(q)'
      /\ \A d \in Connections \ {c} : session'[d].stage = "unused" => Idle(d)'
  BY <1>1, <1>2, <1>3, OthersInTurn
<1>6. InTurn(p)'
  BY <1>3 DEF InTurn
<1>7. \A d \in Connections : session'[d].stage = "unused" => Idle(d)'
  BY <1>4, <1>5
<1>8. \A q, r \in Processes :
          client'[q].socket # None /\ client'[q].socket = client'[r].socket => q = r
  BY <1>3 DEF Exchanging
<1> QED BY <1>2, <1>5, <1>6, <1>7, <1>8 DEF Exchanging

(* A process that keeps its socket is in order when its socket is.         *)
LEMMA OwnExchanges ==
    ASSUME Exchanging, Calling, Calling', NEW p \in Processes, client[p].socket # None,
           client'[p].socket = client[p].socket, InTurn(p)',
           answers' \in [Connections -> Seq(Answers)],
           \A q \in Processes \ {p} : client'[q] = client[q],
           UNCHANGED session,
           \A d \in Connections \ {client[p].socket} :
               requests'[d] = requests[d] /\ answers'[d] = answers[d]
    PROVE  Exchanging'
<1> DEFINE c == client[p].socket
<1>1. c \in Connections /\ session[c].stage # "unused"
  BY DEF Calling, Clients, Exchanging, InTurn
<1>2. /\ \A q \in Processes \ {p} : InTurn(q)'
      /\ \A d \in Connections \ {c} : session'[d].stage = "unused" => Idle(d)'
  BY <1>1, OthersInTurn
<1>3. \A d \in Connections : session'[d].stage = "unused" => Idle(d)'
  BY <1>1, <1>2
<1>4. \A q, r \in Processes :
          client'[q].socket # None /\ client'[q].socket = client'[r].socket => q = r
  BY DEF Exchanging
<1> QED BY <1>2, <1>3, <1>4 DEF Exchanging

LEMMA SendExchanges ==
    ASSUME Exchanging, Calling, Calling', NEW p \in Processes, Ready(p),
           NEW type, NEW body, Send(p, type, body),
           UNCHANGED session
    PROVE  Exchanging'
<1>1. PICK c \in Connections :
          c = client[p].socket /\ c # None /\ client[p].exchange = None
  BY DEF Ready, Calling, Clients
<1>2. PICK request :
          request = [id |-> client[p].next_request_id, type |-> type, body |-> body]
  OBVIOUS
<1>3. CASE "broker" \in open[c]
  <2>1. /\ requests' = [requests EXCEPT ![c] = Append(@, request)]
        /\ client' = [client EXCEPT ![p] =
              [client[p] EXCEPT !.exchange = request,
                                !.next_request_id = client[p].next_request_id + 1]]
        /\ UNCHANGED answers
    BY <1>1, <1>2, <1>3 DEF Send
  <2>2. client'[p].socket = c /\ client'[p].exchange = request
        /\ \A q \in Processes \ {p} : client'[q] = client[q]
    BY <1>1, <2>1 DEF Calling, Clients
  <2>3. Idle(c)
    BY <1>1 DEF Exchanging, InTurn
  <2>4. requests'[c] = <<request>>
    BY <1>1, <2>1, <2>3 DEF Idle, Calling
  <2>5. request \in Requests
    <3>1. requests'[c] \in Seq(Requests)
      BY <1>1 DEF Calling
    <3> QED BY <2>4, <3>1
  <2>6. InTurn(p)'
    <3>1. session'[c].stage # "unused"
      BY <1>1 DEF Exchanging, InTurn
    <3>2. request # None
      BY <2>5, ProtocolAssumption
    <3>3. UnderWay(c, request.id)'
      BY <2>1, <2>3, <2>4, <2>5 DEF UnderWay, Idle
    <3> QED BY <1>1, <2>2, <3>1, <3>2, <3>3 DEF InTurn
  <2>7. answers' \in [Connections -> Seq(Answers)]
        /\ \A d \in Connections \ {c} : requests'[d] = requests[d] /\ answers'[d] = answers[d]
    BY <2>1 DEF Exchanging, Calling
  <2> QED BY <1>1, <2>2, <2>6, <2>7, OwnExchanges
<1>4. CASE "broker" \notin open[c]
  <2>1. CloseConnection(p) /\ UNCHANGED <<requests, answers>>
    BY <1>1, <1>4 DEF Send
  <2> QED BY <1>1, <2>1, CloseExchanges
<1> QED BY <1>3, <1>4

LEMMA OpenExchanges ==
    ASSUME Exchanging, Calling, Calling', NEW p \in Processes, open_impl(p)
    PROVE  Exchanging'
<1>1. PICK c \in Connections :
          /\ session[c].stage = "unused"
          /\ session' = [session EXCEPT ![c].stage = "backlog"]
          /\ requests' = [requests EXCEPT ![c] = <<Hello>>]
          /\ client' = [client EXCEPT ![p] =
                 [Disconnected EXCEPT !.socket = c, !.exchange = Hello,
                                      !.next_request_id = 2]]
          /\ client[p].socket = None /\ UNCHANGED answers
  BY DEF open_impl, First, Unused
<1>2. /\ client'[p].socket = c /\ client'[p].exchange = Hello
      /\ \A q \in Processes \ {p} : client'[q] = client[q]
  BY <1>1 DEF Calling, Disconnected
<1>3. /\ session'[c].stage = "backlog" /\ session'[c].reply = session[c].reply
      /\ requests'[c] = <<Hello>> /\ answers'[c] = answers[c]
      /\ \A d \in Connections \ {c} :
             session'[d] = session[d] /\ requests'[d] = requests[d] /\ answers'[d] = answers[d]
  BY <1>1 DEF Calling, Sessions
<1>4. Hello \in Requests /\ Hello # None
  BY ProtocolAssumption DEF Hello, Requests
<1>5. Idle(c)
  BY <1>1 DEF Exchanging
<1>6. UnderWay(c, Hello.id)'
  BY <1>3, <1>4, <1>5 DEF UnderWay, Idle
<1>7. c # None
  BY ProtocolAssumption
<1>8. InTurn(p)'
  BY <1>2, <1>3, <1>4, <1>6, <1>7 DEF InTurn
<1>9. /\ \A q \in Processes \ {p} : InTurn(q)'
      /\ \A d \in Connections \ {c} : session'[d].stage = "unused" => Idle(d)'
  BY <1>1, <1>2, <1>3, OthersInTurn
<1>10. \A q \in Processes \ {p} : client[q].socket # c
  BY <1>1, <1>7 DEF Exchanging, InTurn
<1>11. \A q, r \in Processes :
           client'[q].socket # None /\ client'[q].socket = client'[r].socket => q = r
  BY <1>2, <1>10 DEF Exchanging
<1>12. \A d \in Connections : session'[d].stage = "unused" => Idle(d)'
  BY <1>3, <1>9
<1> QED BY <1>1, <1>8, <1>9, <1>11, <1>12 DEF Exchanging

LEMMA AnswerExchanges ==
    ASSUME Exchanging, Calling, Calling', NEW p \in Processes, ReceiveAnswer(p)
    PROVE  Exchanging'
<1> DEFINE request == client[p].exchange
<1>1. PICK c \in Connections :
          /\ c = client[p].socket /\ c # None /\ request # None /\ answers[c] # <<>>
          /\ answers' = [answers EXCEPT ![c] = Tail(@)]
          /\ UNCHANGED <<session, requests>>
  BY DEF ReceiveAnswer, Calling, Clients
<1>2. CASE CloseConnection(p)
  BY <1>1, <1>2, CloseExchanges
<1>3. CASE Acknowledged(p, request) \/ Refused(p, request)
  <2>1. \E registered : Over(p, request, registered)
    BY <1>3 DEF Acknowledged, Refused
  <2>2. /\ client'[p].socket = c /\ client'[p].exchange = None
        /\ \A q \in Processes \ {p} : client'[q] = client[q]
    BY <1>1, <2>1 DEF Over, Calling, Clients
  <2>3. UnderWay(c, request.id) /\ session[c].stage # "unused"
    BY <1>1 DEF Exchanging, InTurn
  <2>4. requests[c] = <<>> /\ session[c].reply = None /\ \E a \in Answers : answers[c] = <<a>>
    BY <1>1, <2>3 DEF UnderWay, Idle
  <2>5. answers' \in [Connections -> Seq(Answers)] /\ answers'[c] = <<>>
        /\ \A d \in Connections \ {c} : answers'[d] = answers[d]
    BY <1>1, <2>4 DEF Exchanging
  <2>6. Idle(c)'
    BY <1>1, <2>4, <2>5 DEF Idle
  <2>7. InTurn(p)'
    BY <1>1, <2>2, <2>3, <2>6 DEF InTurn
  <2> QED BY <1>1, <2>2, <2>5, <2>7, OwnExchanges
<1> QED BY <1>2, <1>3 DEF ReceiveAnswer

LEMMA CallExchanges ==
    ASSUME Exchanging, Calling, Calling', NEW p \in Processes, Call(p) \/ Receive(p)
    PROVE  Exchanging'
<1>1. CASE open_impl(p)
  BY <1>1, OpenExchanges
<1>2. CASE \/ register_provider_impl(p)
           \/ \E r \in ResourceIds, x \in Resources : upload_resource_request(p, r, x)
           \/ \E r \in ResourceIds : release_resource_impl(p, r)
           \/ \E m \in Mutations : commit_transaction_impl(p, m)
  <2>1. Ready(p) /\ UNCHANGED session /\ \E type, body : Send(p, type, body)
    BY <1>2 DEF register_provider_impl, upload_resource_request, release_resource_impl,
       commit_transaction_impl, OutsideTransaction
  <2> QED BY <2>1, SendExchanges
<1>3. CASE begin_transaction_impl(p) \/ abort_transaction_impl(p)
  <2>1. client[p].socket # None /\ UNCHANGED <<session, requests, answers>>
    BY <1>3 DEF begin_transaction_impl, abort_transaction_impl, OutsideTransaction, Ready,
       socketVars
  <2>2. /\ client'[p].socket = client[p].socket /\ client'[p].exchange = client[p].exchange
        /\ \A q \in Processes \ {p} : client'[q] = client[q]
    <3>1. client \in [Processes -> Clients]
      BY DEF Calling
    <3>2. CASE begin_transaction_impl(p)
      BY <3>1, <3>2 DEF begin_transaction_impl, Clients
    <3>3. CASE abort_transaction_impl(p)
      BY <3>1, <3>3 DEF abort_transaction_impl, Clients
    <3> QED BY <1>3, <3>2, <3>3
  <2>3. InTurn(p)'
    <3>1. InTurn(p)
      BY DEF Exchanging
    <3>2. \A c : Idle(c) => Idle(c)'
      BY <2>1 DEF Idle
    <3>3. \A c, id : UnderWay(c, id) => UnderWay(c, id)'
      BY <2>1, <3>2 DEF UnderWay
    <3> QED BY <2>1, <2>2, <3>1, <3>2, <3>3 DEF InTurn
  <2> QED BY <2>1, <2>2, <2>3, OwnExchanges DEF Exchanging
<1>4. CASE close_impl(p) \/ ReceiveTimeout(p) \/ BrokerClosed(p)
  <2>1. CloseConnection(p) /\ client[p].socket # None
        /\ UNCHANGED <<session, requests, answers>>
    BY <1>4 DEF close_impl, ReceiveTimeout, BrokerClosed
  <2> QED BY <2>1, CloseExchanges
<1>5. CASE ReceiveAnswer(p)
  BY <1>5, AnswerExchanges
<1> QED BY <1>1, <1>2, <1>3, <1>4, <1>5 DEF Call, Receive

(* The broker's steps on a connection keep what is under way there under   *)
(* way, and what is idle idle.                                             *)
LEMMA OneConnection ==
    ASSUME Exchanging, Calling, Calling', NEW c \in Connections,
           session[c].stage # "unused", session'[c].stage # "unused",
           UNCHANGED client, answers' \in [Connections -> Seq(Answers)],
           \A d \in Connections \ {c} :
               requests'[d] = requests[d] /\ session'[d] = session[d] /\ answers'[d] = answers[d],
           Idle(c) => Idle(c)',
           \A id \in Nat : UnderWay(c, id) => UnderWay(c, id)'
    PROVE  Exchanging'
<1>1. \A d \in Connections : Idle(d) => Idle(d)'
  BY DEF Idle
<1>2. \A d \in Connections, id \in Nat : UnderWay(d, id) => UnderWay(d, id)'
  <2>1. \A d \in Connections \ {c} : Idle(d)' = Idle(d)
    BY DEF Idle
  <2>2. \A d \in Connections \ {c}, id \in Nat : UnderWay(d, id)' = UnderWay(d, id)
    BY <2>1 DEF UnderWay
  <2> QED BY <2>2
<1>3. ASSUME NEW p \in Processes
      PROVE  InTurn(p)'
  <2>1. client[p].socket # None => client[p].socket \in Connections
    BY DEF Calling, Clients
  <2>2. client[p].exchange # None => client[p].exchange.id \in Nat
    BY RequestKinds DEF Calling, Clients
  <2>3. InTurn(p)
    BY DEF Exchanging
  <2>4. \A d \in Connections : session[d].stage # "unused" => session'[d].stage # "unused"
    OBVIOUS
  <2> QED BY <1>1, <1>2, <2>1, <2>2, <2>3, <2>4 DEF InTurn
<1>4. \A d \in Connections : session'[d].stage = "unused" => Idle(d)'
  BY <1>1 DEF Exchanging
<1>5. \A p, q \in Processes :
          client'[p].socket # None /\ client'[p].socket = client'[q].socket => p = q
  BY DEF Exchanging
<1> QED BY <1>3, <1>4, <1>5 DEF Exchanging

(* A request that was processed leaves a reply to send.                    *)
LEMMA ProcessReplies ==
    ASSUME Calling, NEW c \in Connections, Process(c)
    PROVE  session'[c].reply # None
<1>1. /\ session \in [Connections -> Sessions] /\ requests[c] # <<>>
      /\ Fulfil(c) \/ reject(c)
  BY DEF Process, process_registration, process_upload, process_release,
     process_transaction, Processing, Calling
<1>2. Head(requests[c]).id \in Nat /\ Head(requests[c]).type \in RequestTypes
  BY <1>1, HeadIsRequest, RequestKinds DEF Calling
<1>3. ASSUME NEW accepted \in BOOLEAN, NEW registered, NEW errors,
             Answered(c, accepted, registered, errors)
      PROVE  session'[c].reply \in Replies
  <2> DEFINE answer == [id |-> Head(requests[c]).id, type |-> Head(requests[c]).type,
                        accepted |-> accepted]
  <2>1. answer \in Replies
    BY <1>2 DEF Replies
  <2>2. session'[c] = [stage |-> "serving", registered |-> registered,
                       protocol_errors |-> errors, reply |-> answer]
    BY <1>1, <1>3 DEF Answered
  <2> HIDE DEF answer
  <2> QED BY <2>1, <2>2
<1>4. session'[c].reply \in Replies
  BY <1>1, <1>3 DEF Fulfil, reject
<1> QED BY <1>4, ProtocolAssumption

LEMMA WorkExchanges ==
    ASSUME TypeOK, SnapshotIsCurrent, Exchanging, Calling, Calling', NEW c \in Connections,
           AcceptConnection(c) \/ TurnAway(c) \/ Work(c)
    PROVE  Exchanging'
<1>1. /\ session \in [Connections -> Sessions]
      /\ requests \in [Connections -> Seq(Requests)]
      /\ answers \in [Connections -> Seq(Answers)]
  BY DEF Calling, Exchanging
<1>2. CASE \/ AcceptConnection(c) \/ TurnAway(c) \/ HangUp(c) \/ Leave(c)
           \/ CloseSocket(c) \/ EndWorker(c)
  <2>1. /\ session[c].stage # "unused"
        /\ \E stage : stage # "unused" /\ Stage(c, stage)
        /\ UNCHANGED <<client, requests, answers>>
    BY <1>2 DEF AcceptConnection, TurnAway, First, Backlog, HangUp, Leave, CloseSocket,
       EndWorker, socketVars
  <2>2. /\ session'[c].stage # "unused" /\ session'[c].reply = session[c].reply
        /\ \A d \in Connections \ {c} : session'[d] = session[d]
    BY <1>1, <2>1 DEF Stage, Sessions
  <2>3. Idle(c)' = Idle(c) /\ \A id \in Nat : UnderWay(c, id)' = UnderWay(c, id)
    BY <2>1, <2>2 DEF Idle, UnderWay
  <2> QED BY <1>1, <2>1, <2>2, <2>3, OneConnection
<1>3. CASE Handshake(c)
  <2> DEFINE answer == [id |-> Head(requests[c]).id, accepted |-> TRUE, revision |-> 0]
  <2>1. /\ session[c].stage = "handshake" /\ requests[c] # <<>>
        /\ requests' = [requests EXCEPT ![c] = Tail(@)]
        /\ \E stage \in {"serving", "leaving"} : Stage(c, stage)
        /\ answers' = [answers EXCEPT ![c] = Append(@, answer)] \/ UNCHANGED answers
        /\ UNCHANGED client
    BY <1>3 DEF Handshake
  <2>2. /\ session'[c].stage # "unused" /\ session'[c].reply = session[c].reply
        /\ \A d \in Connections \ {c} : session'[d] = session[d]
    BY <1>1, <2>1 DEF Stage, Sessions
  <2>3. Head(requests[c]) \in Requests /\ Head(requests[c]).id \in Nat
    BY <1>1, <2>1, HeadIsRequest, RequestKinds
  <2>4. answer \in Answers /\ answer.id = Head(requests[c]).id
    BY <2>3 DEF Answers
  <2> HIDE DEF answer
  <2>5. /\ answers' \in [Connections -> Seq(Answers)]
        /\ \A d \in Connections \ {c} : requests'[d] = requests[d] /\ answers'[d] = answers[d]
    <3>1. Append(answers[c], answer) \in Seq(Answers)
      BY <1>1, <2>4
    <3> QED BY <1>1, <2>1, <3>1
  <2>6. ASSUME NEW id \in Nat, UnderWay(c, id)
        PROVE  UnderWay(c, id)'
    <3>1. PICK r \in Requests : requests[c] = <<r>> /\ r.id = id
                                /\ session[c].reply = None /\ answers[c] = <<>>
      BY <2>1, <2>6 DEF UnderWay, Idle
    <3>2. requests'[c] = <<>> /\ answer.id = id
      BY <1>1, <2>1, <2>4, <3>1
    <3>3. answers'[c] = <<>> \/ answers'[c] = <<answer>>
      BY <1>1, <2>1, <3>1
    <3> QED BY <2>2, <2>4, <3>1, <3>2, <3>3 DEF UnderWay, Idle
  <2>7. ~Idle(c)
    BY <2>1 DEF Idle
  <2> QED BY <2>1, <2>2, <2>5, <2>6, <2>7, OneConnection
<1>4. CASE SendAnswer(c)
  <2>1. /\ session[c].stage = "serving" /\ session[c].reply # None
        /\ \E stage \in {"serving", "leaving"} :
               session' = [session EXCEPT ![c].reply = None, ![c].stage = stage]
        /\ answers' = [answers EXCEPT ![c] = Append(@, Reply(c))] \/ UNCHANGED answers
        /\ UNCHANGED <<client, requests>>
    BY <1>4 DEF SendAnswer
  <2>2. /\ session'[c].stage # "unused" /\ session'[c].reply = None
        /\ \A d \in Connections \ {c} : session'[d] = session[d]
    BY <1>1, <2>1 DEF Sessions
  <2>3. Reply(c) \in Answers /\ Reply(c).id = session[c].reply.id
    <3>1. session[c].reply \in Replies
      BY <1>1, <2>1 DEF Sessions
    <3>2. current_snapshot.revision \in Nat
      BY DEF TypeOK, SnapshotIsCurrent
    <3> QED BY <3>1, <3>2 DEF Reply, Replies, Answers
  <2>4. /\ answers' \in [Connections -> Seq(Answers)]
        /\ \A d \in Connections \ {c} : requests'[d] = requests[d] /\ answers'[d] = answers[d]
    <3>1. Append(answers[c], Reply(c)) \in Seq(Answers)
      BY <1>1, <2>3
    <3> QED BY <1>1, <2>1, <3>1
  <2>5. ASSUME NEW id \in Nat, UnderWay(c, id)
        PROVE  UnderWay(c, id)'
    <3>1. requests[c] = <<>> /\ answers[c] = <<>> /\ session[c].reply.id = id
      BY <2>1, <2>5 DEF UnderWay, Idle
    <3>2. requests'[c] = <<>> /\ (answers'[c] = <<>> \/ answers'[c] = <<Reply(c)>>)
      BY <1>1, <2>1, <3>1
    <3> QED BY <2>2, <2>3, <3>1, <3>2 DEF UnderWay, Idle
  <2>6. ~Idle(c)
    BY <2>1 DEF Idle
  <2> QED BY <2>1, <2>2, <2>4, <2>5, <2>6, OneConnection
<1>5. CASE Process(c)
  <2>1. /\ session[c].stage = "serving" /\ requests[c] # <<>>
        /\ requests' = [requests EXCEPT ![c] = Tail(@)]
        /\ UNCHANGED <<client, answers>>
        /\ Fulfil(c) \/ reject(c)
    BY <1>5 DEF Process, process_registration, process_upload, process_release,
       process_transaction, Processing
  <2>2. /\ session'[c].stage = "serving" /\ session'[c].reply.id = Head(requests[c]).id
        /\ \A d \in Connections \ {c} : session'[d] = session[d]
    BY <1>1, <2>1 DEF Fulfil, reject, Answered
  <2>3. session'[c].reply # None
    BY <1>5, ProcessReplies
  <2>4. ASSUME NEW id \in Nat, UnderWay(c, id)
        PROVE  UnderWay(c, id)'
    <3>1. PICK r \in Requests : requests[c] = <<r>> /\ r.id = id /\ answers[c] = <<>>
      BY <2>1, <2>4 DEF UnderWay, Idle
    <3>2. requests'[c] = <<>> /\ answers'[c] = <<>> /\ session'[c].reply.id = id
      BY <1>1, <2>1, <2>2, <3>1
    <3> QED BY <2>3, <3>2 DEF UnderWay
  <2>5. ~Idle(c)
    BY <2>1 DEF Idle
  <2>6. \A d \in Connections \ {c} : requests'[d] = requests[d] /\ answers'[d] = answers[d]
    BY <1>1, <2>1
  <2> QED BY <1>1, <2>1, <2>2, <2>4, <2>5, <2>6, OneConnection
<1> QED BY <1>2, <1>3, <1>4, <1>5 DEF Work

(* Of a request there is one trace at most, and none when its client       *)
(* waits for nothing (client.cpp, exchange; provider_session.cpp).         *)
THEOREM ExchangesAreInOrder == ProtocolSpec => []Exchanging
<1>1. ProtocolInit => Exchanging
  <2> SUFFICES ASSUME ProtocolInit PROVE Exchanging
    OBVIOUS
  <2>1. \A p \in Processes : client[p].socket = None
    BY DEF ProtocolInit, Disconnected
  <2>2. \A c \in Connections : Idle(c)
    BY DEF ProtocolInit, NoSession, Idle
  <2>3. answers \in [Connections -> Seq(Answers)]
    BY DEF ProtocolInit
  <2> QED BY <2>1, <2>2, <2>3 DEF Exchanging, InTurn
<1>2. TypeOK /\ SnapshotIsCurrent /\ Calling /\ Calling' /\ Exchanging
      /\ [ProtocolNext]_protocolVars => Exchanging'
  <2> SUFFICES ASSUME TypeOK, SnapshotIsCurrent, Calling, Calling', Exchanging,
                      [ProtocolNext]_protocolVars
               PROVE  Exchanging'
    OBVIOUS
  <2>1. CASE UNCHANGED protocolVars
    BY <2>1 DEF protocolVars, socketVars, Exchanging, InTurn, Idle, UnderWay
  <2>2. CASE \E p \in Processes : Call(p) \/ Receive(p)
    BY <2>2, CallExchanges
  <2>3. CASE \E c \in Connections : AcceptConnection(c) \/ TurnAway(c) \/ Work(c)
    BY <2>3, WorkExchanges
  <2> QED BY <2>1, <2>2, <2>3 DEF ProtocolNext, Listen
<1>3. KeepsTheStore => [](TypeOK /\ SnapshotIsCurrent)
  BY TypeCorrect, SnapshotNeverStale, PTL DEF KeepsTheStore
<1> QED BY <1>1, <1>2, <1>3, ServesTheStore, RequestsAreWellFormed, PTL DEF ProtocolSpec

(* However clients give up, connect again and are refused, every variable  *)
(* of the protocol keeps its type (client.cpp, provider_session.cpp).      *)
THEOREM ProtocolTypeCorrect == ProtocolSpec => []ProtocolTypeOK
<1>1. Calling /\ Counting /\ Exchanging => ProtocolTypeOK
  BY CountingBounds DEF Calling, Counting, Exchanging, Answers, ProtocolTypeOK
<1> QED BY <1>1, RequestsAreWellFormed, CountIsKept, ExchangesAreInOrder, PTL

(* The answer a client finds is the answer to the request it waits for,    *)
(* whatever it gave up before (client.cpp, exchange: an error closes the   *)
(* connection, so nothing of it can come late).                            *)
THEOREM AnswersAlwaysMatch == ProtocolSpec => []AnswersMatch
<1>1. Exchanging /\ Calling => AnswersMatch
  <2> SUFFICES ASSUME Exchanging, Calling, NEW p \in Processes, NEW c,
                      c = client[p].socket, c # None, answers[c] # <<>>
               PROVE  /\ client[p].exchange # None
                      /\ Head(answers[c]).id = client[p].exchange.id
    BY DEF AnswersMatch
  <2>1. InTurn(p)
    BY DEF Exchanging
  <2>2. client[p].exchange # None /\ UnderWay(c, client[p].exchange.id)
    BY <2>1 DEF InTurn, Idle
  <2> QED BY <2>2 DEF UnderWay, Idle
<1> QED BY <1>1, ExchangesAreInOrder, RequestsAreWellFormed, PTL

-----------------------------------------------------------------------------
(* What a process knows of its scene.                                      *)

View(c) == [elements |-> providers[c].elements, resources |-> providers[c].resources]

Has(p, c, scene) ==
    /\ c \in Registered
    /\ providers[c].identity = IdentityOf[p]
    /\ View(c) = scene
    /\ providers[c].last_transaction_id < client[p].next_transaction_id

(* What p may ask in the state it is in.                                   *)
MayAsk(p, type, body) ==
    \/ type = "hello" /\ ~client[p].registered /\ client[p].active_transaction_id = 0
    \/ /\ type = "register_provider" /\ body = IdentityOf[p]
       /\ ~client[p].registered /\ client[p].active_transaction_id = 0
    \/ /\ type \in {"upload_resource", "release_resource"}
       /\ client[p].registered /\ client[p].active_transaction_id = 0
    \/ /\ type = "scene_transaction" /\ body.id = client[p].active_transaction_id
       /\ client[p].registered /\ client[p].active_transaction_id # 0

(* The transaction that p is in is newer than any it ended.                *)
Sensible(p) ==
    /\ 0 < client[p].next_transaction_id
    /\ client[p].active_transaction_id # 0 =>
           /\ client[p].registered
           /\ client[p].active_transaction_id < client[p].next_transaction_id
    /\ client[p].exchange # None =>
           MayAsk(p, client[p].exchange.type, client[p].exchange.body)

(* The store is where p was told it is; or one accepted request ahead,     *)
(* whose answer p has not received.                                        *)
Settled(p, c) ==
    IF client[p].registered
    THEN /\ Has(p, c, told[p])
         /\ client[p].active_transaction_id # 0 =>
                providers[c].last_transaction_id < client[p].active_transaction_id
    ELSE c \notin Registered

Ahead(p, c) ==
    IF client[p].exchange.type = "hello" THEN c \notin Registered
    ELSE Has(p, c, After(told[p], client[p].exchange))

AfterAnswer(p, c, accepted) == IF accepted THEN Ahead(p, c) ELSE Settled(p, c)

Serves(p, c) ==
    /\ session[c].reply = None /\ answers[c] = <<>> => Settled(p, c)
    /\ session[c].reply # None => AfterAnswer(p, c, session[c].reply.accepted)
    /\ answers[c] # <<>> => AfterAnswer(p, c, Head(answers[c]).accepted)

Holds(p, c) ==
    /\ Sensible(p)
    /\ "client" \in open[c]
    /\ requests[c] # <<>> => Head(requests[c]) = client[p].exchange
    /\ session[c].stage \in {"backlog", "handshake"} =>
           /\ client[p].exchange # None /\ client[p].exchange.type = "hello"
           /\ answers[c] = <<>>
    /\ session[c].stage = "serving" => Serves(p, c)

Agrees(p) ==
    /\ client[p].socket = None => ~client[p].registered
    /\ \A c \in Connections : client[p].socket = c => Holds(p, c)

Agreeing == \A p \in Processes : Agrees(p)

(* What happens on one connection is none of the business of a process     *)
(* with another.                                                           *)
LEMMA OthersAgree ==
    ASSUME Calling, NEW q \in Processes, Agrees(q), NEW c \in Connections,
           client[q].socket # c, client'[q] = client[q], told'[q] = told[q],
           \A d \in Connections \ {c} :
               /\ requests'[d] = requests[d] /\ session'[d] = session[d]
               /\ answers'[d] = answers[d] /\ open'[d] = open[d]
               /\ providers'[d] = providers[d]
    PROVE  Agrees(q)'
<1> SUFFICES ASSUME NEW d \in Connections, client[q].socket = d
             PROVE  Holds(q, d)'
  <2>1. client'[q].socket = None => ~client'[q].registered
    BY DEF Agrees
  <2> QED BY <2>1 DEF Agrees
<1>1. Holds(q, d)
  BY DEF Agrees
<1>2. /\ requests'[d] = requests[d] /\ session'[d] = session[d]
      /\ answers'[d] = answers[d] /\ open'[d] = open[d] /\ providers'[d] = providers[d]
  OBVIOUS
<1>3. (d \in Registered)' <=> d \in Registered
  BY <1>2 DEF Registered
<1>4. \A scene : Has(q, d, scene)' <=> Has(q, d, scene)
  BY <1>2, <1>3 DEF Has, View
<1>5. Sensible(q)' <=> Sensible(q)
  BY DEF Sensible, MayAsk
<1>6. (Settled(q, d)' <=> Settled(q, d)) /\ (Ahead(q, d)' <=> Ahead(q, d))
  <2>1. After(told[q], client[q].exchange)' = After(told[q], client[q].exchange)
    OBVIOUS
  <2>2. Has(q, d, told[q])' <=> Has(q, d, told[q])
    BY <1>4
  <2> QED BY <1>2, <1>3, <1>4, <2>1 DEF Settled, Ahead
<1>7. Serves(q, d)' <=> Serves(q, d)
  BY <1>2, <1>6 DEF Serves, AfterAnswer
<1> QED BY <1>1, <1>2, <1>5, <1>7 DEF Holds

(* A process that keeps what it has and was told sees the store as before. *)
LEMMA SameView ==
    ASSUME NEW p \in Processes, NEW c \in Connections, providers'[c] = providers[c],
           told'[p] = told[p], client'[p].registered = client[p].registered,
           client'[p].next_transaction_id = client[p].next_transaction_id,
           client'[p].active_transaction_id = client[p].active_transaction_id,
           Settled(p, c)
    PROVE  Settled(p, c)'
<1>1. (c \in Registered)' <=> c \in Registered
  BY DEF Registered
<1>2. Has(p, c, told[p]) => Has(p, c, told[p])'
  BY <1>1 DEF Has, View
<1> QED BY <1>1, <1>2 DEF Settled

LEMMA CloseAgrees ==
    ASSUME Agreeing, Calling, Counting, Exchanging, NEW p \in Processes,
           client[p].socket # None, CloseConnection(p),
           UNCHANGED <<providers, session, requests>>,
           \/ answers' = answers
           \/ answers' = [answers EXCEPT ![client[p].socket] = Tail(@)]
    PROVE  Agreeing'
<1>1. PICK c \in Connections : c = client[p].socket
  BY DEF Calling, Clients
<1>2. client'[p].socket = None
      /\ \A q \in Processes \ {p} : client'[q] = client[q] /\ told'[q] = told[q]
  BY DEF CloseConnection, Disconnected, Calling
<1>3. \A d \in Connections \ {c} : open'[d] = open[d] /\ answers'[d] = answers[d]
  BY <1>1 DEF CloseConnection, Counting, Exchanging
<1>4. Agrees(p)'
  <2>1. ~client'[p].registered
    BY DEF CloseConnection, Disconnected, Calling
  <2> QED BY <1>2, <2>1, ProtocolAssumption DEF Agrees
<1>5. \A q \in Processes \ {p} : client[q].socket # c
  BY <1>1 DEF Exchanging
<1>6. \A q \in Processes \ {p} : Agrees(q)'
  BY <1>2, <1>3, <1>5, OthersAgree DEF Agreeing
<1> QED BY <1>4, <1>6 DEF Agreeing

(* A step of a process that keeps its connection.                          *)
LEMMA OwnAgrees ==
    ASSUME Agreeing, Calling, Exchanging, NEW p \in Processes, NEW c \in Connections,
           client[p].socket = c, client'[p].socket = c, Holds(p, c)',
           UNCHANGED <<providers, session, open>>,
           \A q \in Processes \ {p} : client'[q] = client[q] /\ told'[q] = told[q],
           \A d \in Connections \ {c} : requests'[d] = requests[d] /\ answers'[d] = answers[d]
    PROVE  Agreeing'
<1>1. c # None
  BY ProtocolAssumption
<1>2. Agrees(p)'
  BY <1>1 DEF Agrees
<1>3. \A q \in Processes \ {p} : client[q].socket # c
  BY <1>1 DEF Exchanging
<1>4. \A q \in Processes \ {p} : Agrees(q)'
  BY <1>3, OthersAgree DEF Agreeing
<1> QED BY <1>2, <1>4 DEF Agreeing

LEMMA SendAgrees ==
    ASSUME Agreeing, Calling, Calling', Counting, Exchanging, NEW p \in Processes, Ready(p),
           NEW type, NEW body, Send(p, type, body), MayAsk(p, type, body),
           UNCHANGED <<providers, session>>
    PROVE  Agreeing'
<1>1. PICK c \in Connections :
          c = client[p].socket /\ c # None /\ client[p].exchange = None
  BY DEF Ready, Calling, Clients
<1>2. PICK request :
          request = [id |-> client[p].next_request_id, type |-> type, body |-> body]
  OBVIOUS
<1>3. CASE "broker" \in open[c]
  <2>1. /\ requests' = [requests EXCEPT ![c] = Append(@, request)]
        /\ client' = [client EXCEPT ![p] =
              [client[p] EXCEPT !.exchange = request,
                                !.next_request_id = client[p].next_request_id + 1]]
        /\ UNCHANGED <<told, open, answers>>
    BY <1>1, <1>2, <1>3 DEF Send
  <2>2. /\ client'[p].socket = c /\ client'[p].exchange = request
        /\ client'[p].registered = client[p].registered
        /\ client'[p].active_transaction_id = client[p].active_transaction_id
        /\ client'[p].next_transaction_id = client[p].next_transaction_id
        /\ \A q \in Processes \ {p} : client'[q] = client[q]
    BY <1>1, <2>1 DEF Calling, Clients
  <2>3. Idle(c)
    BY <1>1 DEF Exchanging, InTurn
  <2>4. requests'[c] = <<request>>
    BY <2>1, <2>3 DEF Idle, Calling
  <2>5. Holds(p, c) /\ session[c].stage \notin {"backlog", "handshake"}
    BY <1>1 DEF Agreeing, Agrees, Holds
  <2>6. Sensible(p)'
    <3>1. MayAsk(p, request.type, request.body)'
      BY <1>2, <2>2 DEF MayAsk
    <3> QED BY <2>2, <2>5, <3>1 DEF Holds, Sensible
  <2>7. session[c].stage = "serving" => Settled(p, c)'
    <3>1. session[c].stage = "serving" => Settled(p, c)
      BY <2>3, <2>5 DEF Holds, Serves, Idle
    <3> QED BY <2>1, <2>2, <3>1, SameView
  <2>8. Serves(p, c)' \/ session[c].stage # "serving"
    BY <2>1, <2>3, <2>7 DEF Serves, Idle
  <2>9. Holds(p, c)'
    BY <2>1, <2>2, <2>4, <2>5, <2>6, <2>8 DEF Holds
  <2>10. \A d \in Connections \ {c} : requests'[d] = requests[d] /\ answers'[d] = answers[d]
    BY <2>1 DEF Calling
  <2> QED BY <1>1, <2>1, <2>2, <2>9, <2>10, OwnAgrees
<1>4. CASE "broker" \notin open[c]
  <2>1. CloseConnection(p) /\ UNCHANGED <<requests, answers>>
    BY <1>1, <1>4 DEF Send
  <2> QED BY <1>1, <2>1, CloseAgrees
<1> QED BY <1>3, <1>4

LEMMA OpenAgrees ==
    ASSUME Agreeing, Calling, Counting, Exchanging, NEW p \in Processes, open_impl(p)
    PROVE  Agreeing'
<1>1. PICK c \in Connections :
          /\ session[c].stage = "unused"
          /\ open' = [open EXCEPT ![c] = {"client", "broker"}]
          /\ session' = [session EXCEPT ![c].stage = "backlog"]
          /\ requests' = [requests EXCEPT ![c] = <<Hello>>]
          /\ client' = [client EXCEPT ![p] =
                 [Disconnected EXCEPT !.socket = c, !.exchange = Hello,
                                      !.next_request_id = 2]]
          /\ UNCHANGED <<providers, told, answers>>
  BY DEF open_impl, First, Unused, vars
<1>2. /\ client'[p].socket = c /\ client'[p].exchange = Hello
      /\ ~client'[p].registered /\ client'[p].active_transaction_id = 0
      /\ client'[p].next_transaction_id = 1
      /\ \A q \in Processes \ {p} : client'[q] = client[q]
  BY <1>1 DEF Calling, Disconnected
<1>3. /\ session'[c].stage = "backlog" /\ requests'[c] = <<Hello>>
      /\ open'[c] = {"client", "broker"}
      /\ \A d \in Connections \ {c} :
             session'[d] = session[d] /\ requests'[d] = requests[d] /\ open'[d] = open[d]
  BY <1>1 DEF Calling, Counting, Sessions
<1>4. Hello # None /\ Hello.type = "hello"
  <2>1. Hello \in Requests
    BY DEF Hello, Requests
  <2> QED BY <2>1, ProtocolAssumption DEF Hello
<1>5. Sensible(p)'
  BY <1>2, <1>4 DEF Sensible, MayAsk
<1>6. Holds(p, c)'
  <2>1. answers'[c] = <<>>
    BY <1>1 DEF Exchanging, Idle
  <2> QED BY <1>2, <1>3, <1>4, <1>5, <2>1 DEF Holds
<1>7. c # None
  BY ProtocolAssumption
<1>8. Agrees(p)'
  BY <1>2, <1>6, <1>7 DEF Agrees
<1>9. \A q \in Processes : client[q].socket # c
  BY <1>1, <1>7 DEF Exchanging, InTurn
<1>10. \A q \in Processes \ {p} : Agrees(q)'
  BY <1>1, <1>2, <1>3, <1>9, OthersAgree DEF Agreeing
<1> QED BY <1>8, <1>10 DEF Agreeing

(* The answer brings the process up to the store.                          *)
LEMMA AnswerAgrees ==
    ASSUME Agreeing, Calling, Counting, Exchanging, NEW p \in Processes, ReceiveAnswer(p)
    PROVE  Agreeing'
<1>1. PICK c \in Connections, request \in Requests :
          /\ c = client[p].socket /\ c # None /\ answers[c] # <<>>
          /\ request = client[p].exchange /\ request # None
          /\ answers' = [answers EXCEPT ![c] = Tail(@)]
          /\ UNCHANGED <<providers, session, requests>>
          /\ \/ CloseConnection(p)
             \/ Head(answers[c]).accepted /\ Acknowledged(p, request) /\ UNCHANGED open
             \/ ~Head(answers[c]).accepted /\ Refused(p, request) /\ UNCHANGED open
  BY DEF ReceiveAnswer, Calling, Clients, vars
<1>2. CASE CloseConnection(p)
  BY <1>1, <1>2, CloseAgrees
<1>3. ASSUME NEW registered, Over(p, request, registered), UNCHANGED open,
             \A q \in Processes \ {p} : told'[q] = told[q],
             session[c].stage = "serving" => Settled(p, c)',
             client[p].registered => registered
      PROVE  Agreeing'
  <2>1. UnderWay(c, request.id) /\ session[c].stage # "unused" /\ Holds(p, c)
    BY <1>1 DEF Exchanging, InTurn, Agreeing, Agrees
  <2>2. requests[c] = <<>> /\ session[c].reply = None /\ \E a \in Answers : answers[c] = <<a>>
    BY <1>1, <2>1 DEF UnderWay, Idle
  <2>3. answers'[c] = <<>> /\ \A d \in Connections \ {c} : answers'[d] = answers[d]
    BY <1>1, <2>2 DEF Exchanging
  <2>4. /\ client'[p].socket = c /\ client'[p].exchange = None
        /\ client'[p].registered = registered
        /\ client'[p].active_transaction_id =
               IF request.type = "scene_transaction" THEN 0 ELSE client[p].active_transaction_id
        /\ client'[p].next_transaction_id = client[p].next_transaction_id
        /\ \A q \in Processes \ {p} : client'[q] = client[q]
    BY <1>1, <1>3 DEF Over, Calling, Clients
  <2>5. Sensible(p)'
    BY <1>1, <1>3, <2>1, <2>4 DEF Holds, Sensible
  <2>6. session[c].stage \notin {"backlog", "handshake"}
    BY <1>1, <2>1 DEF Holds
  <2>7. Serves(p, c)' \/ session[c].stage # "serving"
    BY <1>1, <1>3, <2>2, <2>3 DEF Serves
  <2>8. Holds(p, c)'
    BY <1>1, <1>3, <2>1, <2>2, <2>5, <2>6, <2>7 DEF Holds
  <2> QED BY <1>1, <1>3, <2>3, <2>4, <2>8, OwnAgrees
<1>4. /\ Holds(p, c) /\ MayAsk(p, request.type, request.body)
      /\ client[p] \in Clients
  BY <1>1 DEF Agreeing, Agrees, Holds, Sensible, Calling
<1>5. ASSUME Head(answers[c]).accepted, Acknowledged(p, request), UNCHANGED open
      PROVE  Agreeing'
  <2> DEFINE registered == client[p].registered \/ request.type = "register_provider"
  <2>1. /\ Over(p, request, registered)
        /\ told'[p] = After(told[p], request)
        /\ \A q \in Processes \ {p} : told'[q] = told[q]
    BY <1>5 DEF Acknowledged, Calling
  <2>2. /\ client'[p].registered = registered
        /\ client'[p].active_transaction_id = 0
        /\ client'[p].next_transaction_id = client[p].next_transaction_id
    BY <1>4, <2>1 DEF Over, MayAsk, Calling, Clients
  <2>3. ASSUME session[c].stage = "serving"
        PROVE  Settled(p, c)'
    <3>1. Ahead(p, c)
      BY <1>1, <1>4, <1>5, <2>3 DEF Holds, Serves, AfterAnswer
    <3>2. CASE request.type = "hello"
      <4>1. ~registered /\ c \notin Registered
        BY <1>1, <1>4, <3>1, <3>2 DEF MayAsk, Ahead
      <4> QED BY <1>1, <2>2, <4>1 DEF Settled, Registered
    <3>3. CASE request.type # "hello"
      <4>1. registered /\ Has(p, c, After(told[p], request))
        BY <1>1, <1>4, <3>1, <3>3 DEF MayAsk, Ahead
      <4>2. Has(p, c, told[p])'
        BY <1>1, <2>1, <2>2, <4>1 DEF Has, View, Registered
      <4> QED BY <2>2, <4>1, <4>2 DEF Settled
    <3> QED BY <3>2, <3>3
  <2> QED BY <1>3, <1>5, <2>1, <2>3
<1>6. ASSUME ~Head(answers[c]).accepted, Refused(p, request), UNCHANGED open
      PROVE  Agreeing'
  <2>1. Over(p, request, client[p].registered) /\ UNCHANGED told
    BY <1>6 DEF Refused
  <2>2. /\ client'[p].registered = client[p].registered
        /\ client'[p].active_transaction_id = 0
        /\ client'[p].next_transaction_id = client[p].next_transaction_id
    BY <1>4, <2>1 DEF Over, MayAsk, Calling, Clients
  <2>3. ASSUME session[c].stage = "serving"
        PROVE  Settled(p, c)'
    <3>1. Settled(p, c)
      BY <1>1, <1>4, <1>6, <2>3 DEF Holds, Serves, AfterAnswer
    <3>2. Has(p, c, told[p]) => Has(p, c, told[p])'
      BY <1>1, <2>1, <2>2 DEF Has, View, Registered
    <3> QED BY <1>1, <2>2, <3>1, <3>2 DEF Settled, Registered
  <2> QED BY <1>3, <1>6, <2>1, <2>3
<1> QED BY <1>1, <1>2, <1>5, <1>6

LEMMA CallAgrees ==
    ASSUME TypeOK, Agreeing, Calling, Calling', Counting, Exchanging, NEW p \in Processes,
           Call(p) \/ Receive(p)
    PROVE  Agreeing'
<1>1. CASE open_impl(p)
  BY <1>1, OpenAgrees
<1>2. CASE \/ register_provider_impl(p)
           \/ \E r \in ResourceIds, x \in Resources : upload_resource_request(p, r, x)
           \/ \E r \in ResourceIds : release_resource_impl(p, r)
           \/ \E m \in Mutations : commit_transaction_impl(p, m)
  <2>1. Ready(p) /\ UNCHANGED <<providers, session>>
    BY <1>2 DEF register_provider_impl, upload_resource_request, release_resource_impl,
       commit_transaction_impl, OutsideTransaction, vars
  <2>2. Sensible(p) /\ client[p] \in Clients
    BY <2>1 DEF Ready, Agreeing, Agrees, Holds, Calling, Clients
  <2>3. ~client[p].registered => client[p].active_transaction_id = 0
    BY <2>2 DEF Sensible
  <2>4. \E type, body : Send(p, type, body) /\ MayAsk(p, type, body)
    <3>1. CASE register_provider_impl(p)
      <4>1. Send(p, "register_provider", IdentityOf[p])
        BY <3>1 DEF register_provider_impl
      <4>2. MayAsk(p, "register_provider", IdentityOf[p])
        BY <2>3, <3>1 DEF register_provider_impl, MayAsk
      <4> QED BY <4>1, <4>2
    <3>2. ASSUME NEW r \in ResourceIds, NEW x \in Resources, upload_resource_request(p, r, x)
          PROVE  \E type, body : Send(p, type, body) /\ MayAsk(p, type, body)
      <4>1. Send(p, "upload_resource", [id |-> r, resource |-> x])
        BY <3>2 DEF upload_resource_request
      <4>2. MayAsk(p, "upload_resource", [id |-> r, resource |-> x])
        BY <3>2 DEF upload_resource_request, OutsideTransaction, MayAsk
      <4> QED BY <4>1, <4>2
    <3>3. ASSUME NEW r \in ResourceIds, release_resource_impl(p, r)
          PROVE  \E type, body : Send(p, type, body) /\ MayAsk(p, type, body)
      <4>1. Send(p, "release_resource", r)
        BY <3>3 DEF release_resource_impl
      <4>2. MayAsk(p, "release_resource", r)
        BY <3>3 DEF release_resource_impl, OutsideTransaction, MayAsk
      <4> QED BY <4>1, <4>2
    <3>4. ASSUME NEW m \in Mutations, commit_transaction_impl(p, m)
          PROVE  \E type, body : Send(p, type, body) /\ MayAsk(p, type, body)
      <4> DEFINE body == [id |-> client[p].active_transaction_id, mutations |-> m]
      <4>1. Send(p, "scene_transaction", body)
        BY <3>4 DEF commit_transaction_impl
      <4>2. MayAsk(p, "scene_transaction", body)
        BY <3>4 DEF commit_transaction_impl, MayAsk
      <4> QED BY <4>1, <4>2
    <3> QED BY <1>2, <3>1, <3>2, <3>3, <3>4
  <2> QED BY <2>1, <2>4, SendAgrees
<1>3. CASE begin_transaction_impl(p) \/ abort_transaction_impl(p)
  <2>1. PICK c \in Connections :
            /\ client[p].socket = c /\ client[p].exchange = None /\ client[p] \in Clients
            /\ Holds(p, c)
    BY <1>3 DEF begin_transaction_impl, abort_transaction_impl, OutsideTransaction, Ready,
       Agreeing, Agrees, Calling, Clients
  <2>2. UNCHANGED <<providers, told, session, open, requests, answers>>
    BY <1>3 DEF begin_transaction_impl, abort_transaction_impl, socketVars, vars
  <2>3. /\ client'[p].socket = c /\ client'[p].exchange = None
        /\ client'[p].registered = client[p].registered
        /\ \A q \in Processes \ {p} : client'[q] = client[q]
        /\ \/ /\ client[p].registered
              /\ client'[p].active_transaction_id = client[p].next_transaction_id
              /\ client'[p].next_transaction_id = client[p].next_transaction_id + 1
           \/ /\ client'[p].active_transaction_id = 0
              /\ client'[p].next_transaction_id = client[p].next_transaction_id
    BY <1>3, <2>1 DEF begin_transaction_impl, abort_transaction_impl, OutsideTransaction,
       Calling, Clients
  <2>4. client[p].next_transaction_id \in Nat
    BY <2>1 DEF Clients
  <2>5. Sensible(p)'
    BY <2>1, <2>3, <2>4 DEF Holds, Sensible
  <2>6. Settled(p, c) => Settled(p, c)'
    <3>1. c \in Registered => providers[c].last_transaction_id \in Nat
      BY DEF TypeOK, Registered, ProviderStates
    <3>2. Has(p, c, told[p]) => Has(p, c, told[p])'
      BY <2>2, <2>3, <2>4, <3>1 DEF Has, View, Registered
    <3>3. CASE client[p].registered
      BY <2>2, <2>3, <3>2, <3>3 DEF Settled, Has
    <3>4. CASE ~client[p].registered
      BY <2>2, <2>3, <3>4 DEF Settled, Registered
    <3> QED BY <3>3, <3>4
  <2>7. Idle(c)
    BY <2>1, ProtocolAssumption DEF Exchanging, InTurn
  <2>8. session[c].stage = "serving" => Serves(p, c)'
    BY <2>1, <2>2, <2>6, <2>7 DEF Holds, Serves, Idle
  <2>9. Holds(p, c)'
    BY <2>1, <2>2, <2>3, <2>5, <2>7, <2>8 DEF Holds, Idle
  <2> QED BY <2>1, <2>2, <2>3, <2>9, OwnAgrees
<1>4. CASE close_impl(p) \/ ReceiveTimeout(p) \/ BrokerClosed(p)
  <2>1. CloseConnection(p) /\ client[p].socket # None
        /\ UNCHANGED <<providers, session, requests, answers>>
    BY <1>4 DEF close_impl, ReceiveTimeout, BrokerClosed, vars
  <2> QED BY <2>1, CloseAgrees
<1>5. CASE ReceiveAnswer(p)
  BY <1>5, AnswerAgrees
<1> QED BY <1>1, <1>2, <1>3, <1>4, <1>5 DEF Call, Receive

(* What a worker does of the request that p waits for puts the store one   *)
(* request ahead of what p was told, or leaves it where it was.            *)
LEMMA RequestFulfilled ==
    ASSUME TypeOK, Calling, NEW p \in Processes, NEW c \in Connections,
           NEW request \in Requests, client[p].exchange = request,
           Head(requests[c]) = request, Sensible(p), Settled(p, c), Process(c)
    PROVE  (Fulfil(c) /\ Ahead(p, c)') \/ reject(c)
<1>1. /\ UNCHANGED <<client, told>>
      /\ client[p] \in Clients
      /\ MayAsk(p, request.type, request.body)
      /\ providers \in [Connections -> ProviderStates \cup {None}] /\ None \notin ProviderStates
  <2>1. request # None
    BY ProtocolAssumption
  <2> QED BY <2>1, StoreAssumption DEF Process, process_registration, process_upload,
             process_release, process_transaction, Processing, Calling, Sensible, TypeOK
<1>2. ASSUME NEW scene, scene = After(told[p], request), request.type # "hello",
             providers'[c] \in ProviderStates,
             providers'[c].identity = IdentityOf[p],
             providers'[c].elements = scene.elements,
             providers'[c].resources = scene.resources,
             scene = [elements |-> scene.elements, resources |-> scene.resources],
             providers'[c].last_transaction_id < client[p].next_transaction_id
      PROVE  Ahead(p, c)'
  <2>1. View(c)' = scene
    BY <1>2 DEF View
  <2>2. c \in Registered'
    BY <1>1, <1>2 DEF Registered
  <2>3. Has(p, c, scene)'
    BY <1>1, <1>2, <2>1, <2>2 DEF Has
  <2>4. After(told[p], client[p].exchange)' = scene
    BY <1>1, <1>2
  <2> QED BY <1>1, <1>2, <2>3, <2>4 DEF Ahead
<1>3. ASSUME client[p].registered
      PROVE  /\ c \in Registered /\ providers[c] \in ProviderStates
             /\ providers[c].identity = IdentityOf[p]
             /\ told[p] = [elements |-> providers[c].elements,
                           resources |-> providers[c].resources]
             /\ providers[c].last_transaction_id < client[p].next_transaction_id
             /\ client[p].active_transaction_id # 0 =>
                    providers[c].last_transaction_id < client[p].active_transaction_id
  <2>1. Has(p, c, told[p])
    BY <1>3 DEF Settled
  <2>2. c \in Registered
    BY <2>1 DEF Has
  <2> QED BY <1>1, <1>3, <2>1, <2>2 DEF Settled, Has, View, Registered
<1>4. ASSUME process_registration(c), ~reject(c)
      PROVE  Fulfil(c) /\ Ahead(p, c)'
  <2>1. /\ register_provider(c, request.body) /\ Fulfil(c)
        /\ request.type = "register_provider" /\ request.body = IdentityOf[p]
    BY <1>1, <1>4 DEF process_registration, Processing, Body, MayAsk
  <2>2. request.body \in Identities
    BY <2>1, RequestKinds
  <2>3. providers'[c] \in ProviderStates
    BY <2>1, <2>2, RegistrationType
  <2>4. /\ providers'[c].identity = IdentityOf[p]
        /\ providers'[c].elements = [e \in ElementIds |-> None]
        /\ providers'[c].resources = [r \in ResourceIds |-> None]
        /\ providers'[c].last_transaction_id = 0
    BY <1>1, <2>1 DEF register_provider
  <2>5. After(told[p], request) = NothingTold
    BY <2>1 DEF After
  <2>6. 0 < client[p].next_transaction_id
    BY DEF Sensible
  <2>7. Ahead(p, c)'
    BY <1>2, <2>1, <2>3, <2>4, <2>5, <2>6 DEF NothingTold
  <2> QED BY <2>1, <2>7
<1>5. ASSUME process_upload(c), ~reject(c)
      PROVE  Fulfil(c) /\ Ahead(p, c)'
  <2> DEFINE r == request.body.id
             x == request.body.resource
             stored == [providers[c].resources EXCEPT ![r] = x]
  <2>1. /\ store_resource(c, r, x) /\ Fulfil(c)
        /\ request.type = "upload_resource" /\ client[p].registered
    BY <1>1, <1>5 DEF process_upload, Processing, Body, MayAsk
  <2>2. r \in ResourceIds /\ x \in Resources
    BY <2>1, RequestKinds
  <2>3. providers'[c] \in ProviderStates
    BY <1>3, <2>1, <2>2, StoreType
  <2>4. /\ providers'[c].identity = providers[c].identity
        /\ providers'[c].elements = providers[c].elements
        /\ providers'[c].resources = stored
        /\ providers'[c].last_transaction_id = providers[c].last_transaction_id
    BY <1>1, <1>3, <2>1 DEF store_resource, ProviderStates
  <2>5. After(told[p], request) =
            [elements |-> providers[c].elements, resources |-> stored]
    BY <1>3, <2>1 DEF After
  <2> HIDE DEF stored
  <2>6. Ahead(p, c)'
    BY <1>2, <1>3, <2>1, <2>3, <2>4, <2>5
  <2> QED BY <2>1, <2>6
<1>6. ASSUME process_release(c), ~reject(c)
      PROVE  Fulfil(c) /\ Ahead(p, c)'
  <2> DEFINE left == [providers[c].resources EXCEPT ![request.body] = None]
  <2>1. /\ release_resource(c, request.body) /\ Fulfil(c)
        /\ request.type = "release_resource" /\ client[p].registered
    BY <1>1, <1>6 DEF process_release, Processing, Body, MayAsk
  <2>2. request.body \in ResourceIds
    BY <2>1, RequestKinds
  <2>3. providers'[c] \in ProviderStates
    BY <1>3, <2>1, <2>2, ReleaseType
  <2>4. /\ providers'[c].identity = providers[c].identity
        /\ providers'[c].elements = providers[c].elements
        /\ providers'[c].resources = left
        /\ providers'[c].last_transaction_id = providers[c].last_transaction_id
    BY <1>1, <1>3, <2>1 DEF release_resource, ProviderStates
  <2>5. After(told[p], request) =
            [elements |-> providers[c].elements, resources |-> left]
    BY <1>3, <2>1 DEF After
  <2> HIDE DEF left
  <2>6. Ahead(p, c)'
    BY <1>2, <1>3, <2>1, <2>3, <2>4, <2>5
  <2> QED BY <2>1, <2>6
<1>7. ASSUME process_transaction(c), ~reject(c)
      PROVE  Fulfil(c) /\ Ahead(p, c)'
  <2> DEFINE id == request.body.id
             m == request.body.mutations
  <2>1. /\ request.type = "scene_transaction" /\ client[p].registered
        /\ id = client[p].active_transaction_id /\ id # 0
    BY <1>1, <1>7 DEF process_transaction, Processing, MayAsk
  <2>2. id \in TransactionIds /\ id \in Nat /\ m \in Mutations
    BY <2>1, RequestKinds, StoreAssumption
  <2>3. ~AlreadyApplied(c, id)
    <3>1. providers[c].last_transaction_id \in Nat
      BY <1>3, <2>1 DEF ProviderStates
    <3> QED BY <1>3, <2>1, <2>2, <3>1 DEF AlreadyApplied
  <2>4. commit(c, id, m) /\ Fulfil(c)
    BY <1>7, <2>3 DEF process_transaction, Body
  <2>5. providers'[c] \in ProviderStates
    BY <1>3, <2>1, <2>2, <2>4, CommitType
  <2>6. /\ providers'[c].identity = providers[c].identity
        /\ providers'[c].elements = Candidate(providers[c].elements, m)
        /\ providers'[c].resources = providers[c].resources
        /\ providers'[c].last_transaction_id = id
    BY <1>1, <1>3, <2>1, <2>4 DEF commit, ProviderStates
  <2>7. After(told[p], request) =
            [elements |-> Candidate(providers[c].elements, m),
             resources |-> providers[c].resources]
    BY <1>3, <2>1 DEF After
  <2>8. id < client[p].next_transaction_id
    BY <2>1 DEF Sensible
  <2>9. Ahead(p, c)'
    BY <1>2, <1>3, <2>1, <2>5, <2>6, <2>7, <2>8
  <2> QED BY <2>4, <2>9
<1> QED BY <1>4, <1>5, <1>6, <1>7 DEF Process

(* The broker's steps on a connection keep what its client may rely on.    *)
LEMMA OneServed ==
    ASSUME Agreeing, Calling, NEW c \in Connections, UNCHANGED <<client, told>>,
           \A d \in Connections \ {c} :
               /\ requests'[d] = requests[d] /\ session'[d] = session[d]
               /\ answers'[d] = answers[d] /\ open'[d] = open[d]
               /\ providers'[d] = providers[d],
           \A p \in Processes : client[p].socket = c /\ Holds(p, c) => Holds(p, c)'
    PROVE  Agreeing'
<1> SUFFICES ASSUME NEW p \in Processes PROVE Agrees(p)'
  BY DEF Agreeing
<1>1. CASE client[p].socket = c
  BY <1>1 DEF Agreeing, Agrees
<1>2. CASE client[p].socket # c
  BY <1>2, OthersAgree DEF Agreeing
<1> QED BY <1>1, <1>2

LEMMA SensibleStays ==
    ASSUME NEW p \in Processes, UNCHANGED client
    PROVE  Sensible(p)' <=> Sensible(p)
BY DEF Sensible, MayAsk

LEMMA WorkAgrees ==
    ASSUME TypeOK, Agreeing, Calling, Counting, Exchanging, Owning, NEW c \in Connections,
           AcceptConnection(c) \/ TurnAway(c) \/ Work(c)
    PROVE  Agreeing'
<1>1. /\ session \in [Connections -> Sessions]
      /\ requests \in [Connections -> Seq(Requests)]
      /\ answers \in [Connections -> Seq(Answers)]
      /\ open \in [Connections -> SUBSET {"client", "broker"}]
      /\ providers \in [Connections -> ProviderStates \cup {None}]
      /\ c # None
  BY ProtocolAssumption DEF Calling, Counting, Exchanging, TypeOK
<1>2. UNCHANGED <<client, told>>
  BY DEF AcceptConnection, TurnAway, Work, Handshake, HangUp, Process, process_registration,
     process_upload, process_release, process_transaction, Processing, SendAnswer, Leave,
     CloseSocket, EndWorker
<1>3. \A p \in Processes : client[p].socket = c => InTurn(p) /\ Holds(p, c)
  BY DEF Exchanging, Agreeing, Agrees
<1>4. CASE \/ AcceptConnection(c) \/ TurnAway(c) \/ HangUp(c) \/ Leave(c)
           \/ CloseSocket(c) \/ EndWorker(c)
  <2>1. PICK stage : /\ Stage(c, stage) /\ stage # "serving"
                     /\ stage \in {"backlog", "handshake"} => session[c].stage = "backlog"
                     /\ UNCHANGED <<requests, answers>>
    BY <1>4 DEF AcceptConnection, TurnAway, First, Backlog, HangUp, Leave, CloseSocket,
       EndWorker, socketVars
  <2>2. /\ open' = open \/ open' = [open EXCEPT ![c] = @ \ {"broker"}]
        /\ providers' = providers \/ providers' = [providers EXCEPT ![c] = None]
    BY <1>4 DEF AcceptConnection, TurnAway, HangUp, Leave, CloseSocket, EndWorker,
       disconnect, vars, socketVars
  <2>3. /\ session'[c].stage = stage
        /\ "client" \in open[c] => "client" \in open'[c]
        /\ \A d \in Connections \ {c} :
               session'[d] = session[d] /\ open'[d] = open[d] /\ providers'[d] = providers[d]
    BY <1>1, <2>1, <2>2 DEF Stage, Sessions
  <2>4. \A p \in Processes : client[p].socket = c /\ Holds(p, c) => Holds(p, c)'
    BY <1>2, <2>1, <2>3, SensibleStays DEF Holds
  <2> QED BY <1>2, <2>1, <2>3, <2>4, OneServed
<1>5. CASE Handshake(c)
  <2> DEFINE answer == [id |-> Head(requests[c]).id, accepted |-> TRUE, revision |-> 0]
  <2>1. /\ session[c].stage = "handshake" /\ requests[c] # <<>>
        /\ requests' = [requests EXCEPT ![c] = Tail(@)]
        /\ \/ /\ answers' = [answers EXCEPT ![c] = Append(@, answer)]
              /\ Stage(c, "serving")
           \/ /\ "client" \notin open[c] /\ Stage(c, "leaving") /\ UNCHANGED answers
        /\ UNCHANGED <<open, providers>>
    BY <1>5 DEF Handshake, vars
  <2>a. answer.accepted
    OBVIOUS
  <2> HIDE DEF answer
  <2>2. /\ session'[c].reply = session[c].reply
        /\ "client" \in open[c] => session'[c].stage = "serving"
        /\ \A d \in Connections \ {c} :
               session'[d] = session[d] /\ requests'[d] = requests[d] /\ answers'[d] = answers[d]
    BY <1>1, <2>1 DEF Stage, Sessions
  <2>3. c \notin Registered'
    BY <2>1 DEF Owning, Registered
  <2>4. ASSUME NEW p \in Processes, client[p].socket = c, Holds(p, c)
        PROVE  Holds(p, c)'
    <3>1. /\ "client" \in open[c] /\ client[p].exchange # None
          /\ client[p].exchange.type = "hello" /\ answers[c] = <<>>
      BY <2>1, <2>4 DEF Holds
    <3>2. UnderWay(c, client[p].exchange.id)
      BY <1>1, <1>3, <2>4, <3>1 DEF InTurn
    <3>3. requests'[c] = <<>> /\ session[c].reply = None
      <4>1. PICK r \in Requests : requests[c] = <<r>> /\ session[c].reply = None
        BY <2>1, <3>2 DEF UnderWay, Idle
      <4>2. requests'[c] = Tail(requests[c])
        BY <1>1, <2>1
      <4> QED BY <4>1, <4>2
    <3>4. answers'[c] = <<answer>>
      <4>1. answers'[c] = Append(answers[c], answer)
        BY <1>1, <2>1, <3>1
      <4> QED BY <3>1, <4>1
    <3>5. Ahead(p, c)'
      BY <1>2, <2>3, <3>1 DEF Ahead
    <3>6. Serves(p, c)'
      BY <2>2, <2>a, <3>3, <3>4, <3>5 DEF Serves, AfterAnswer
    <3> QED BY <1>2, <2>1, <2>2, <2>4, <3>1, <3>3, <3>6, SensibleStays DEF Holds
  <2> QED BY <1>2, <2>1, <2>2, <2>4, OneServed
<1>6. CASE SendAnswer(c)
  <2>1. PICK stage \in {"serving", "leaving"} :
            /\ session[c].stage = "serving" /\ session[c].reply # None
            /\ session' = [session EXCEPT ![c].reply = None, ![c].stage = stage]
            /\ "client" \in open[c] => answers' = [answers EXCEPT ![c] = Append(@, Reply(c))]
            /\ "client" \notin open[c] => UNCHANGED answers
            /\ UNCHANGED <<open, providers, requests>>
    BY <1>6 DEF SendAnswer, vars
  <2>2. /\ session'[c].stage = stage /\ session'[c].reply = None
        /\ \A d \in Connections \ {c} : session'[d] = session[d] /\ answers'[d] = answers[d]
    BY <1>1, <2>1 DEF Sessions
  <2>3. ASSUME NEW p \in Processes, client[p].socket = c, Holds(p, c)
        PROVE  Holds(p, c)'
    <3>1. client[p].exchange # None /\ UnderWay(c, client[p].exchange.id)
      BY <1>1, <1>3, <2>1, <2>3 DEF InTurn, Idle
    <3>2. requests[c] = <<>> /\ answers[c] = <<>>
      BY <2>1, <3>1 DEF UnderWay, Idle
    <3>3. answers'[c] = <<Reply(c)>> /\ Reply(c).accepted = session[c].reply.accepted
      BY <1>1, <2>1, <2>3, <3>2 DEF Holds, Reply
    <3>4. AfterAnswer(p, c, session[c].reply.accepted)
      BY <2>1, <2>3 DEF Holds, Serves
    <3>5. \A accepted : AfterAnswer(p, c, accepted)' <=> AfterAnswer(p, c, accepted)
      <4>1. After(told[p], client[p].exchange)' = After(told[p], client[p].exchange)
        BY <1>2
      <4>2. \A scene : Has(p, c, scene)' <=> Has(p, c, scene)
        BY <1>2, <2>1 DEF Has, View, Registered
      <4>3. Settled(p, c)' <=> Settled(p, c)
        BY <1>2, <2>1, <4>2 DEF Settled, Registered
      <4>4. Ahead(p, c)' <=> Ahead(p, c)
        BY <1>2, <2>1, <4>1, <4>2 DEF Ahead, Registered
      <4> QED BY <4>3, <4>4 DEF AfterAnswer
    <3>6. Serves(p, c)'
      BY <2>2, <3>3, <3>4, <3>5 DEF Serves, AfterAnswer
    <3> QED BY <1>2, <2>1, <2>2, <2>3, <3>2, <3>6, SensibleStays DEF Holds
  <2> QED BY <1>2, <2>1, <2>2, <2>3, OneServed
<1>7. CASE Process(c)
  <2>1. /\ session[c].stage = "serving" /\ requests[c] # <<>>
        /\ requests' = [requests EXCEPT ![c] = Tail(@)]
        /\ UNCHANGED <<open, answers>>
        /\ Fulfil(c) \/ reject(c)
    BY <1>7 DEF Process, process_registration, process_upload, process_release,
       process_transaction, Processing
  <2>2. /\ session'[c].stage = "serving"
        /\ Fulfil(c) => session'[c].reply.accepted
        /\ reject(c) => ~session'[c].reply.accepted
        /\ \A d \in Connections \ {c} : session'[d] = session[d] /\ requests'[d] = requests[d]
    BY <1>1, <2>1 DEF Fulfil, reject, Answered
  <2>3. \A d \in Connections \ {c} : providers'[d] = providers[d]
    BY <1>7, ProcessRegisters
  <2>4. ASSUME NEW p \in Processes, client[p].socket = c, Holds(p, c)
        PROVE  Holds(p, c)'
    <3> DEFINE request == client[p].exchange
    <3>1. request # None /\ UnderWay(c, request.id) /\ Head(requests[c]) = request
      BY <1>1, <1>3, <2>1, <2>4 DEF InTurn, Idle, Holds
    <3>2. \E r \in Requests : requests[c] = <<r>> /\ session[c].reply = None /\ answers[c] = <<>>
      BY <2>1, <3>1 DEF UnderWay, Idle
    <3>3. request \in Requests /\ requests'[c] = <<>>
      BY <1>1, <2>1, <3>1, <3>2 DEF Calling, Clients
    <3>4. Settled(p, c) /\ Sensible(p)
      BY <2>1, <2>4, <3>2 DEF Holds, Serves
    <3>5. (Fulfil(c) /\ Ahead(p, c)') \/ reject(c)
      BY <1>7, <3>1, <3>3, <3>4, RequestFulfilled
    <3>6. reject(c) => Settled(p, c)'
      BY <1>2, <3>4, SameView DEF reject, vars
    <3>7. AfterAnswer(p, c, session[c].reply.accepted)'
      BY <2>2, <3>5, <3>6 DEF AfterAnswer
    <3>8. session'[c].reply # None
      BY <1>7, ProcessReplies
    <3>9. Serves(p, c)'
      BY <2>1, <3>2, <3>7, <3>8 DEF Serves
    <3> QED BY <1>2, <2>1, <2>2, <2>4, <3>3, <3>9, SensibleStays DEF Holds
  <2> QED BY <1>2, <2>1, <2>2, <2>3, <2>4, OneServed
<1> QED BY <1>4, <1>5, <1>6, <1>7 DEF Work

(* A retry is never taken for what it repeats, and no answer for another   *)
(* one's: the store holds what its provider was told, or what it will be   *)
(* told by the answer under way (provider_session.cpp; client.cpp).        *)
THEOREM AgreementIsKept == ProtocolSpec => []Agreeing
<1>1. ProtocolInit => Agreeing
  BY ProtocolAssumption DEF ProtocolInit, Disconnected, Agreeing, Agrees
<1>2. TypeOK /\ Calling /\ Calling' /\ Counting /\ Exchanging /\ Owning /\ Agreeing
      /\ [ProtocolNext]_protocolVars => Agreeing'
  <2> SUFFICES ASSUME TypeOK, Calling, Calling', Counting, Exchanging, Owning, Agreeing,
                      [ProtocolNext]_protocolVars
               PROVE  Agreeing'
    OBVIOUS
  <2>1. CASE UNCHANGED protocolVars
    BY <2>1 DEF protocolVars, vars, socketVars, Agreeing, Agrees, Holds, Sensible, MayAsk,
       Serves, AfterAnswer, Settled, Ahead, Has, View, Registered
  <2>2. CASE \E p \in Processes : Call(p) \/ Receive(p)
    BY <2>2, CallAgrees
  <2>3. CASE \E c \in Connections : AcceptConnection(c) \/ TurnAway(c) \/ Work(c)
    BY <2>3, WorkAgrees
  <2> QED BY <2>1, <2>2, <2>3 DEF ProtocolNext, Listen
<1>3. KeepsTheStore => []TypeOK
  BY TypeCorrect DEF KeepsTheStore
<1> QED BY <1>1, <1>2, <1>3, ServesTheStore, RequestsAreWellFormed, CountIsKept,
           ExchangesAreInOrder, ScenesHaveSessions, PTL DEF ProtocolSpec

(* A provider between two calls of the library knows what the broker has   *)
(* of it, also after requests that were refused or given up                *)
(* (client.cpp, exchange; provider_session.cpp).                *)
THEOREM ClientsAlwaysKnowTheirScene == ProtocolSpec => []ClientsKnowTheirScene
<1>1. Agreeing /\ Exchanging /\ Calling => ClientsKnowTheirScene
  <2> SUFFICES ASSUME Agreeing, Exchanging, Calling, NEW p \in Processes, NEW c,
                      c = client[p].socket, client[p].registered,
                      client[p].exchange = None, session[c].stage = "serving"
               PROVE  /\ c \in Registered
                      /\ providers[c].identity = IdentityOf[p]
                      /\ told[p] = [elements |-> providers[c].elements,
                                    resources |-> providers[c].resources]
    BY DEF ClientsKnowTheirScene
  <2>1. c \in Connections /\ Holds(p, c) /\ Idle(c)
    <3>1. c # None
      BY DEF Agreeing, Agrees
    <3> QED BY <3>1 DEF Calling, Clients, Agreeing, Agrees, Exchanging, InTurn
  <2>2. Settled(p, c)
    BY <2>1 DEF Holds, Serves, Idle
  <2>3. Has(p, c, told[p])
    BY <2>2 DEF Settled
  <2> QED BY <2>3 DEF Has, View
<1> QED BY <1>1, AgreementIsKept, ExchangesAreInOrder, RequestsAreWellFormed, PTL

-----------------------------------------------------------------------------
(* Answers and the changes they acknowledge.                               *)

Distinct ==
    \A c, d \in Registered : providers[c].identity = providers[d].identity => c = d

LEMMA OneConnectionDistinct ==
    ASSUME Distinct, NEW c \in Connections,
           \A d \in Connections \ {c} : providers'[d] = providers[d],
           \/ c \notin Registered'
           \/ c \in Registered /\ providers'[c].identity = providers[c].identity
           \/ \A d \in Registered : providers[d].identity # providers'[c].identity
    PROVE  Distinct'
BY DEF Distinct, Registered

(* No two scenes are of one identity: only a registration adds one.        *)
LEMMA NextDistinct ==
    ASSUME TypeOK, Distinct, [Next]_vars
    PROVE  Distinct'
<1>1. providers \in [Connections -> ProviderStates \cup {None}] /\ None \notin ProviderStates
  BY StoreAssumption DEF TypeOK
<1>2. CASE UNCHANGED providers
  BY <1>2 DEF Distinct, Registered
<1>3. ASSUME NEW c \in Connections, NEW i \in Identities, register_provider(c, i)
      PROVE  Distinct'
  <2>1. /\ providers'[c].identity = i
        /\ \A d \in Connections \ {c} : providers'[d] = providers[d]
        /\ \A d \in Registered : providers[d].identity # i
    BY <1>1, <1>3 DEF register_provider, CanRegister
  <2> QED BY <2>1, OneConnectionDistinct
<1>4. ASSUME NEW c \in Connections, disconnect(c)
      PROVE  Distinct'
  <2>1. providers'[c] = None /\ \A d \in Connections \ {c} : providers'[d] = providers[d]
    BY <1>1, <1>4 DEF disconnect
  <2> QED BY <2>1, OneConnectionDistinct DEF Registered
<1>5. ASSUME NEW c \in Registered,
             \/ \E r \in ResourceIds, x \in Resources : store_resource(c, r, x)
             \/ \E r \in ResourceIds : release_resource(c, r)
             \/ \E id \in TransactionIds, m \in Mutations : commit(c, id, m)
      PROVE  Distinct'
  <2>1. c \in Connections /\ providers[c] \in ProviderStates
    BY <1>1, <1>5 DEF Registered
  <2>2. \A d \in Connections \ {c} : providers'[d] = providers[d]
    BY <1>1, <1>5 DEF store_resource, release_resource, commit
  <2>3. providers'[c].identity = providers[c].identity
    <3>1. CASE \E r \in ResourceIds, x \in Resources : store_resource(c, r, x)
      BY <1>1, <2>1, <3>1 DEF store_resource, ProviderStates
    <3>2. CASE \E r \in ResourceIds : release_resource(c, r)
      BY <1>1, <2>1, <3>2 DEF release_resource, ProviderStates
    <3>3. CASE \E id \in TransactionIds, m \in Mutations : commit(c, id, m)
      BY <1>1, <2>1, <3>3 DEF commit, ProviderStates
    <3> QED BY <1>5, <3>1, <3>2, <3>3
  <2> QED BY <1>5, <2>1, <2>2, <2>3, OneConnectionDistinct
<1>6. CASE SetEnabled \/ SetRequireApproval \/ SetApplicationPolicy \/ SetApplicationPosition
  <2>1. UNCHANGED providers
    BY <1>6 DEF SetEnabled, set_enabled, SetRequireApproval, set_require_approval,
       SetApplicationPolicy, set_application_policy, SetApplicationPosition,
       set_application_position
  <2> QED BY <1>2, <2>1
<1>7. CASE UNCHANGED vars
  BY <1>2, <1>7 DEF vars
<1> QED BY <1>3, <1>4, <1>5, <1>6, <1>7 DEF Next, Register, Disconnect, Store, Release, Commit

(* Two connections never serve one identity (store.cpp,                    *)
(* register_provider).                                                     *)
THEOREM IdentitiesAreDistinct == Spec => []Distinct
<1>1. Init => Distinct
  BY DEF Init, NoProviders, Distinct, Registered
<1> QED BY <1>1, NextDistinct, TypeCorrect, PTL DEF Spec

(* What is retained was retained before, or is the change just recorded.   *)
LEMMA RetainedBefore ==
    ASSUME NEW f \in Seq(ChangeRecords), NEW r, NEW i \in DOMAIN Retained(Append(f, r))
    PROVE  \/ Retained(Append(f, r))[i] = r
           \/ \E j \in DOMAIN f : Retained(Append(f, r))[i] = f[j]
<1> DEFINE g == Append(f, r)
<1>1. /\ g \in Seq(ChangeRecords \cup {r}) /\ Len(g) = Len(f) + 1 /\ Len(f) \in Nat
      /\ i \in DOMAIN Retained(g)
  OBVIOUS
<1>2. \A k \in 1..Len(g) : g[k] = r \/ \E j \in DOMAIN f : g[k] = f[j]
  <2> TAKE k \in 1..Len(g)
  <2>1. CASE k = Len(f) + 1
    BY <2>1
  <2>2. CASE k # Len(f) + 1
    <3>1. k \in 1..Len(f) /\ g[k] = f[k]
      BY <1>1, <2>2
    <3> QED BY <3>1
  <2> QED BY <2>1, <2>2
<1>3. RetainedLimit \in Nat \ {0}
  BY SceneAssumption DEF RetainedLimit
<1>4. \E k \in 1..Len(g) : Retained(g)[i] = g[k]
  <2> HIDE DEF g
  <2>1. CASE Len(g) > RetainedLimit
    <3> DEFINE first == Len(g) - RetainedLimit + 1
    <3>1. Retained(g) = SubSeq(g, first, Len(g))
      BY <2>1 DEF Retained
    <3>2. first \in 1..Len(g) /\ Len(g) - first + 1 = RetainedLimit
      BY <1>1, <1>3, <2>1
    <3>3. /\ DOMAIN Retained(g) = 1..RetainedLimit
          /\ \A k \in 1..RetainedLimit : Retained(g)[k] = g[first + k - 1]
      <4> HIDE DEF first
      <4> QED BY <1>1, <3>1, <3>2
    <3>4. \A k \in 1..RetainedLimit : first + k - 1 \in 1..Len(g)
      BY <1>1, <1>3, <2>1
    <3> HIDE DEF first
    <3> QED BY <1>1, <3>3, <3>4
  <2>2. CASE ~(Len(g) > RetainedLimit)
    <3>1. Retained(g) = g
      BY <2>2 DEF Retained
    <3> QED BY <1>1, <3>1
  <2> QED BY <2>1, <2>2
<1> QED BY <1>2, <1>4

(* What a worker records is about the scene of its own connection.         *)
LEMMA WorkRecords ==
    ASSUME TypeOK, Calling, Distinct, NEW c \in Connections,
           AcceptConnection(c) \/ TurnAway(c) \/ Work(c),
           NEW d \in Registered \ {c}, NEW i \in DOMAIN changes',
           changes'[i].kind = "upsert", changes'[i].identity = providers[d].identity
    PROVE  \E j \in DOMAIN changes : changes'[i] = changes[j]
<1> DEFINE request == Head(requests[c])
<1>1. /\ changes \in Seq(ChangeRecords)
      /\ providers \in [Connections -> ProviderStates \cup {None}] /\ None \notin ProviderStates
  BY StoreAssumption DEF TypeOK
<1>2. CASE changes' = changes
  BY <1>2
<1>3. ASSUME NEW kind, NEW identity, NEW provider, Record(kind, identity, provider),
             kind # "upsert" \/ identity # providers[d].identity
      PROVE  \E j \in DOMAIN changes : changes'[i] = changes[j]
  <2> DEFINE new == Change(revision + 1, kind, identity, provider)
  <2>1. changes' = Retained(Append(changes, new))
    BY <1>3 DEF Record
  <2>2. new.kind = kind /\ new.identity = identity
    BY DEF Change
  <2>3. changes'[i] # new
    BY <1>3, <2>2
  <2> HIDE DEF new
  <2> QED BY <1>1, <2>1, <2>3, RetainedBefore
<1>4. CASE Leave(c)
  <2>1. changes' = changes \/ \E identity, provider : Record("remove_provider", identity, provider)
    BY <1>4 DEF Leave, disconnect, vars, feedVars
  <2> QED BY <1>2, <1>3, <2>1
<1>5. ASSUME RecordUpsertIfVisible(c), providers'[c].identity # providers[d].identity
      PROVE  \E j \in DOMAIN changes : changes'[i] = changes[j]
  BY <1>2, <1>3, <1>5 DEF RecordUpsertIfVisible, feedVars
<1>6. CASE process_registration(c)
  <2>1. ASSUME register_provider(c, request.body)
        PROVE  \E j \in DOMAIN changes : changes'[i] = changes[j]
    <3>1. providers'[c].identity = request.body /\ RecordUpsertIfVisible(c)
      BY <1>1, <2>1 DEF register_provider
    <3>2. providers[d].identity # request.body
      BY <2>1 DEF register_provider, CanRegister
    <3> QED BY <1>5, <3>1, <3>2
  <2> QED BY <1>2, <1>6, <2>1 DEF process_registration, reject, Body, vars
<1>7. CASE process_upload(c) \/ process_release(c)
  <2>1. changes' = changes
    BY <1>7 DEF process_upload, process_release, store_resource, release_resource, reject,
       vars, feedVars
  <2> QED BY <1>2, <2>1
<1>8. CASE process_transaction(c)
  <2>1. ASSUME NEW id, NEW m, commit(c, id, m)
        PROVE  \E j \in DOMAIN changes : changes'[i] = changes[j]
    <3>1. c \in Registered /\ RecordUpsertIfVisible(c)
      BY <2>1 DEF commit, CanCommit
    <3>2. providers'[c].identity = providers[c].identity
      BY <1>1, <2>1, <3>1 DEF commit, ProviderStates, Registered
    <3>3. providers[c].identity # providers[d].identity
      BY <3>1 DEF Distinct
    <3> QED BY <1>5, <3>1, <3>2, <3>3
  <2> QED BY <1>2, <1>8, <2>1 DEF process_transaction, reject, vars
<1>9. CASE \/ AcceptConnection(c) \/ TurnAway(c) \/ Handshake(c) \/ HangUp(c)
           \/ SendAnswer(c) \/ CloseSocket(c) \/ EndWorker(c)
  <2>1. changes' = changes
    BY <1>9 DEF AcceptConnection, TurnAway, Handshake, HangUp, SendAnswer, CloseSocket,
       EndWorker, vars
  <2> QED BY <1>2, <2>1
<1> QED BY <1>4, <1>6, <1>7, <1>8, <1>9 DEF Work, Process

(* The answer to a change is on its way to p.                              *)
Awaited(p, c) ==
    /\ client[p].socket = c
    /\ answers[c] # <<>>
    /\ client[p].exchange.type \in {"register_provider", "scene_transaction"}
    /\ Head(answers[c]).accepted

Covered(p, r) ==
    \A i \in DOMAIN changes :
        changes[i].kind = "upsert" /\ changes[i].identity = IdentityOf[p] => changes[i].revision <= r

Replying(p, c) ==
    client[p].socket = c /\ session[c].reply # None =>
        session[c].reply.type = client[p].exchange.type

(* The session goes on until the answer is received, so no other provider  *)
(* takes the identity in the meantime.                                     *)
Covering ==
    \A p \in Processes, c \in Connections :
        /\ Replying(p, c)
        /\ Awaited(p, c) =>
               session[c].stage = "serving" /\ Covered(p, Head(answers[c]).revision)

LEMMA AwaitedScene ==
    ASSUME Agreeing, NEW p \in Processes, NEW c \in Connections, Awaited(p, c),
           session[c].stage = "serving"
    PROVE  c \in Registered /\ providers[c].identity = IdentityOf[p]
<1>1. Serves(p, c)
  BY DEF Agreeing, Agrees, Holds, Awaited
<1>2. Ahead(p, c) /\ client[p].exchange.type # "hello"
  BY <1>1 DEF Serves, AfterAnswer, Awaited
<1> QED BY <1>2 DEF Ahead, Has

LEMMA CallCovers ==
    ASSUME Covering, Calling, Calling', Exchanging, Exchanging', NEW p \in Processes,
           Call(p) \/ Receive(p)
    PROVE  Covering'
<1>1. /\ UNCHANGED changes
      /\ \A q \in Processes \ {p} : client'[q] = client[q]
      /\ \E c \in Connections :
             /\ client[p].socket = c \/ session[c].stage = "unused"
             /\ \A d \in Connections \ {c} : session'[d] = session[d] /\ answers'[d] = answers[d]
  <2>1. CASE open_impl(p)
    BY <2>1 DEF open_impl, First, Unused, Calling, vars
  <2>2. CASE ~open_impl(p)
    <3>1. client[p].socket \in Connections /\ UNCHANGED <<changes, session>>
      BY <2>2 DEF Call, Receive, register_provider_impl, upload_resource_request,
         release_resource_impl, begin_transaction_impl, commit_transaction_impl,
         abort_transaction_impl, close_impl, ReceiveTimeout, ReceiveAnswer, BrokerClosed,
         OutsideTransaction, Ready, Calling, Clients, vars
    <3>2. answers' = answers \/ answers' = [answers EXCEPT ![client[p].socket] = Tail(@)]
      BY <2>2 DEF Call, Receive, register_provider_impl, upload_resource_request,
         release_resource_impl, begin_transaction_impl, commit_transaction_impl,
         abort_transaction_impl, close_impl, ReceiveTimeout, ReceiveAnswer, BrokerClosed,
         Send, socketVars
    <3>3. \A q \in Processes \ {p} : client'[q] = client[q]
      BY <2>2 DEF Call, Receive, register_provider_impl, upload_resource_request,
         release_resource_impl, begin_transaction_impl, commit_transaction_impl,
         abort_transaction_impl, close_impl, ReceiveTimeout, ReceiveAnswer, BrokerClosed,
         Send, CloseConnection, Acknowledged, Refused, Over, Calling
    <3> QED BY <3>1, <3>2, <3>3 DEF Exchanging
  <2> QED BY <2>1, <2>2
<1>2. ASSUME NEW q \in Processes \ {p}, NEW d \in Connections, client[q].socket = d
      PROVE  /\ Replying(q, d)'
             /\ Awaited(q, d)' =>
                    (session[d].stage = "serving" /\ Covered(q, Head(answers[d]).revision))'
  <2>1. d # None /\ session[d].stage # "unused" /\ client[p].socket # d
    BY <1>2, ProtocolAssumption DEF Exchanging, InTurn
  <2>2. session'[d] = session[d] /\ answers'[d] = answers[d]
    BY <1>1, <2>1
  <2>3. Awaited(q, d)' => Awaited(q, d)
    BY <1>1, <2>2 DEF Awaited
  <2> QED BY <1>1, <2>2, <2>3 DEF Covering, Covered, Replying
<1>3. \/ client'[p].socket = None
      \/ client'[p].exchange = None
      \/ client'[p].socket \in Connections /\ requests'[client'[p].socket] # <<>>
  <2>1. CASE close_impl(p) \/ ReceiveTimeout(p) \/ BrokerClosed(p)
    BY <2>1 DEF close_impl, ReceiveTimeout, BrokerClosed, CloseConnection, Disconnected, Calling
  <2>2. CASE ReceiveAnswer(p)
    <3>1. CloseConnection(p) \/ \E request, registered : Over(p, request, registered)
      BY <2>2 DEF ReceiveAnswer, Acknowledged, Refused
    <3>2. ASSUME NEW request, NEW registered, Over(p, request, registered)
          PROVE  client'[p].exchange = None
      BY <3>2 DEF Over, Calling, Clients
    <3>3. CASE CloseConnection(p)
      BY <3>3 DEF CloseConnection, Disconnected, Calling
    <3> QED BY <3>1, <3>2, <3>3
  <2>3. CASE begin_transaction_impl(p) \/ abort_transaction_impl(p)
    BY <2>3 DEF begin_transaction_impl, abort_transaction_impl, OutsideTransaction, Ready,
       Calling, Clients
  <2>4. CASE open_impl(p)
    <3>1. PICK c \in Connections :
              /\ requests' = [requests EXCEPT ![c] = <<Hello>>]
              /\ client' = [client EXCEPT ![p] =
                     [Disconnected EXCEPT !.socket = c, !.exchange = Hello,
                                          !.next_request_id = 2]]
      BY <2>4 DEF open_impl
    <3>2. client'[p].socket = c /\ requests'[c] # <<>>
      BY <3>1 DEF Calling, Disconnected
    <3> QED BY <3>2
  <2>5. ASSUME NEW type, NEW body, Ready(p), Send(p, type, body)
        PROVE  \/ client'[p].socket = None
               \/ client'[p].socket \in Connections /\ requests'[client'[p].socket] # <<>>
    <3>1. PICK c \in Connections : c = client[p].socket
      BY <2>5 DEF Ready, Calling, Clients
    <3>2. CASE CloseConnection(p)
      BY <3>2 DEF CloseConnection, Disconnected, Calling
    <3>3. CASE ~CloseConnection(p)
      <4>1. PICK request : requests' = [requests EXCEPT ![c] = Append(@, request)]
        BY <2>5, <3>1, <3>3 DEF Send
      <4>2. client'[p].socket = c
        BY <2>5, <3>1, <3>3 DEF Send, Calling, Clients
      <4>3. requests'[c] = Append(requests[c], request) /\ requests[c] \in Seq(Requests)
        BY <4>1 DEF Calling
      <4> QED BY <4>2, <4>3
    <3> QED BY <3>2, <3>3
  <2> QED BY <2>1, <2>2, <2>3, <2>4, <2>5 DEF Call, Receive, register_provider_impl,
             upload_resource_request, release_resource_impl, commit_transaction_impl,
             OutsideTransaction
<1>4. \A d \in Connections : ~Awaited(p, d)' /\ Replying(p, d)'
  <2> SUFFICES ASSUME NEW d \in Connections, client'[p].socket = d
               PROVE  answers'[d] = <<>> /\ session'[d].reply = None
    BY DEF Awaited, Replying
  <2>1. d # None /\ InTurn(p)'
    BY ProtocolAssumption DEF Exchanging
  <2>2. CASE client'[p].exchange = None
    BY <2>1, <2>2 DEF InTurn, Idle
  <2>3. CASE client'[p].exchange # None
    <3>1. requests'[d] # <<>> /\ UnderWay(d, client[p].exchange.id)'
      BY <1>3, <2>1, <2>3 DEF InTurn
    <3> QED BY <3>1 DEF UnderWay, Idle
  <2> QED BY <2>2, <2>3
<1>5. \A q \in Processes \ {p}, d \in Connections :
          client[q].socket # d => ~Awaited(q, d)' /\ Replying(q, d)'
  BY <1>1 DEF Awaited, Replying
<1> QED BY <1>2, <1>4, <1>5 DEF Covering

LEMMA WorkCovers ==
    ASSUME TypeOK, SnapshotIsCurrent, FeedIsContiguous, Distinct, Calling, Exchanging,
           Exchanging', Agreeing, Owning, Covering, NEW c \in Connections,
           AcceptConnection(c) \/ TurnAway(c) \/ Work(c)
    PROVE  Covering'
<1>1. /\ session \in [Connections -> Sessions]
      /\ answers \in [Connections -> Seq(Answers)]
      /\ UNCHANGED client
      /\ current_snapshot.revision = revision
      /\ \A i \in DOMAIN changes : changes[i].revision <= revision
  <2>1. \A i \in DOMAIN changes : changes[i].revision <= revision
    <3>1. /\ revision \in Nat /\ Len(changes) \in Nat /\ DOMAIN changes = 1..Len(changes)
          /\ \A i \in 1..Len(changes) : changes[i].revision = revision - Len(changes) + i
      BY DEF TypeOK, FeedIsContiguous
    <3> QED BY <3>1
  <2> QED BY <2>1 DEF Calling, Exchanging, SnapshotIsCurrent, AcceptConnection, TurnAway, Work,
             Handshake, HangUp, Process, process_registration, process_upload, process_release,
             process_transaction, Processing, SendAnswer, Leave, CloseSocket, EndWorker
<1>2. \A d \in Connections \ {c} : session'[d] = session[d] /\ answers'[d] = answers[d]
  BY <1>1 DEF AcceptConnection, TurnAway, Work, Handshake, HangUp, Process,
     process_registration, process_upload, process_release, process_transaction, Processing,
     SendAnswer, Leave, CloseSocket, EndWorker, Stage, Fulfil, reject, Answered, socketVars
<1>3. ASSUME NEW p \in Processes, NEW d \in Connections \ {c}, Awaited(p, d)'
      PROVE  (session[d].stage = "serving" /\ Covered(p, Head(answers[d]).revision))'
  <2>1. Awaited(p, d) /\ session'[d] = session[d] /\ answers'[d] = answers[d]
    BY <1>1, <1>2, <1>3 DEF Awaited
  <2>2. session[d].stage = "serving" /\ Covered(p, Head(answers[d]).revision)
    BY <2>1 DEF Covering
  <2>3. d \in Registered \ {c} /\ providers[d].identity = IdentityOf[p]
    BY <2>1, <2>2, AwaitedScene
  <2>4. \A i \in DOMAIN changes' :
            changes'[i].kind = "upsert" /\ changes'[i].identity = IdentityOf[p] =>
                \E j \in DOMAIN changes : changes'[i] = changes[j]
    BY <2>3, WorkRecords
  <2>5. Covered(p, Head(answers[d]).revision)'
    BY <2>1, <2>2, <2>4 DEF Covered
  <2> QED BY <2>1, <2>2, <2>5
<1>4. ASSUME NEW p \in Processes, Awaited(p, c)'
      PROVE  (session[c].stage = "serving" /\ Covered(p, Head(answers[c]).revision))'
  <2>1. /\ client[p].socket = c /\ c # None /\ answers'[c] # <<>>
        /\ client[p].exchange.type \in {"register_provider", "scene_transaction"}
        /\ Head(answers'[c]).accepted
    BY <1>1, <1>4, ProtocolAssumption DEF Awaited
  <2>2. InTurn(p) /\ Holds(p, c)
    BY <2>1 DEF Exchanging, Agreeing, Agrees
  <2>3. ASSUME Awaited(p, c)
        PROVE  /\ session[c].stage = "serving" /\ Covered(p, Head(answers[c]).revision)
               /\ session[c].registered /\ "client" \in open[c]
               /\ requests[c] = <<>> /\ session[c].reply = None
    <3>1. session[c].stage = "serving" /\ Covered(p, Head(answers[c]).revision)
      BY <2>3 DEF Covering
    <3>2. session[c].registered
      BY <2>3, <3>1, AwaitedScene DEF Owning
    <3>3. requests[c] = <<>> /\ session[c].reply = None
      BY <2>1, <2>2, <2>3 DEF Awaited, InTurn, UnderWay, Idle
    <3> QED BY <2>2, <3>1, <3>2, <3>3 DEF Holds
  <2>4. CASE \/ AcceptConnection(c) \/ TurnAway(c) \/ HangUp(c) \/ Process(c) \/ Leave(c)
             \/ CloseSocket(c) \/ EndWorker(c)
    <3>1. UNCHANGED answers
      BY <2>4 DEF AcceptConnection, TurnAway, HangUp, Process, process_registration,
         process_upload, process_release, process_transaction, Processing, Leave, CloseSocket,
         EndWorker, socketVars
    <3>2. Awaited(p, c)
      BY <2>1, <3>1 DEF Awaited
    <3> QED BY <2>3, <2>4, <3>2 DEF AcceptConnection, TurnAway, First, Backlog, HangUp, Process,
               process_registration, process_upload, process_release, process_transaction,
               Processing, Leave, CloseSocket, EndWorker
  <2>5. CASE Handshake(c)
    <3>1. session[c].stage = "handshake"
      BY <2>5 DEF Handshake
    <3>2. client[p].exchange.type = "hello"
      BY <2>2, <3>1 DEF Holds
    <3> QED BY <2>1, <3>2
  <2>6. CASE SendAnswer(c)
    <3>1. /\ session[c].reply # None /\ session[c].stage = "serving" /\ UNCHANGED changes
          /\ answers' = [answers EXCEPT ![c] = Append(@, Reply(c))]
          /\ session'[c].stage = IF session[c].reply.accepted THEN "serving"
                                 ELSE session'[c].stage
      BY <1>1, <2>2, <2>6 DEF SendAnswer, Holds, Sessions, vars
    <3>2. answers[c] = <<>>
      BY <2>1, <2>2, <3>1 DEF InTurn, UnderWay, Idle
    <3>3. Head(answers'[c]) = Reply(c)
      BY <1>1, <3>1, <3>2
    <3>4. /\ Reply(c).accepted = session[c].reply.accepted
          /\ session[c].reply.type \in {"register_provider", "scene_transaction"} =>
                 Reply(c).revision = revision
      BY <1>1 DEF Reply
    <3>5. session[c].reply.type \in {"register_provider", "scene_transaction"}
      BY <2>1, <3>1 DEF Covering, Replying
    <3>6. PICK r : r = Reply(c).revision
      OBVIOUS
    <3>7. Covered(p, r)'
      BY <1>1, <3>1, <3>4, <3>5, <3>6 DEF Covered
    <3>8. session'[c].stage = "serving" /\ Head(answers'[c]).revision = r
      BY <2>1, <3>1, <3>3, <3>4, <3>6
    <3> QED BY <3>7, <3>8
  <2> QED BY <2>4, <2>5, <2>6 DEF Work
<1>5. ASSUME NEW p \in Processes, NEW d \in Connections
      PROVE  Replying(p, d)'
  <2>1. CASE client[p].socket # d
    BY <1>1, <2>1 DEF Replying
  <2>2. CASE d # c
    BY <1>1, <1>2, <2>2 DEF Replying, Covering
  <2>3. CASE client[p].socket = d /\ d = c
    <3>1. CASE \/ AcceptConnection(c) \/ TurnAway(c) \/ Handshake(c) \/ HangUp(c) \/ Leave(c)
               \/ CloseSocket(c) \/ EndWorker(c)
      <4>1. \E stage : Stage(c, stage)
        BY <3>1 DEF AcceptConnection, TurnAway, Handshake, HangUp, Leave, CloseSocket, EndWorker
      <4>2. session'[c].reply = session[c].reply
        BY <1>1, <4>1 DEF Stage, Sessions
      <4> QED BY <1>1, <2>3, <4>2 DEF Replying, Covering
    <3>2. CASE SendAnswer(c)
      <4>1. session'[c].reply = None
        BY <1>1, <3>2 DEF SendAnswer, Sessions
      <4> QED BY <2>3, <4>1 DEF Replying
    <3>3. CASE Process(c)
      <4>1. requests[c] # <<>> /\ (Fulfil(c) \/ reject(c))
        BY <3>3 DEF Process, process_registration, process_upload, process_release,
           process_transaction, Processing
      <4>2. Head(requests[c]) = client[p].exchange
        BY <2>3, <4>1 DEF Agreeing, Agrees, Holds
      <4>3. session'[c].reply.type = Head(requests[c]).type
        BY <1>1, <4>1 DEF Fulfil, reject, Answered
      <4> QED BY <1>1, <2>3, <4>2, <4>3 DEF Replying
    <3> QED BY <3>1, <3>2, <3>3 DEF Work
  <2> QED BY <2>1, <2>2, <2>3
<1> QED BY <1>3, <1>4, <1>5 DEF Covering

(* An accepted answer waits at a session that goes on, and is as new as    *)
(* every change of its provider (provider_session.cpp; connection.cpp).    *)
THEOREM AnswersAreCovered == ProtocolSpec => []Covering
<1>1. ProtocolInit => Covering
  BY DEF ProtocolInit, NoSession, Covering, Awaited, Replying
<1>2. TypeOK /\ SnapshotIsCurrent /\ FeedIsContiguous /\ Distinct /\ Calling /\ Calling'
      /\ Exchanging /\ Exchanging' /\ Agreeing /\ Owning /\ Covering
      /\ [ProtocolNext]_protocolVars => Covering'
  <2> SUFFICES ASSUME TypeOK, SnapshotIsCurrent, FeedIsContiguous, Distinct, Calling, Calling',
                      Exchanging, Exchanging', Agreeing, Owning, Covering,
                      [ProtocolNext]_protocolVars
               PROVE  Covering'
    OBVIOUS
  <2>1. CASE UNCHANGED protocolVars
    BY <2>1 DEF protocolVars, vars, socketVars, Covering, Covered, Awaited, Replying
  <2>2. CASE \E p \in Processes : Call(p) \/ Receive(p)
    BY <2>2, CallCovers
  <2>3. CASE \E c \in Connections : AcceptConnection(c) \/ TurnAway(c) \/ Work(c)
    BY <2>3, WorkCovers
  <2> QED BY <2>1, <2>2, <2>3 DEF ProtocolNext, Listen
<1>3. KeepsTheStore => [](TypeOK /\ SnapshotIsCurrent /\ FeedIsContiguous /\ Distinct)
  BY TypeCorrect, SnapshotNeverStale, RetainedAreConsecutive, IdentitiesAreDistinct, PTL
  DEF KeepsTheStore
<1> QED BY <1>1, <1>2, <1>3, ServesTheStore, RequestsAreWellFormed, ExchangesAreInOrder,
           AgreementIsKept, ScenesHaveSessions, PTL DEF ProtocolSpec

(* A renderer that has come as far as the revision in an answer shows the  *)
(* change it acknowledges, although the revision is read after the change  *)
(* left the store's mutex (provider_session.cpp, process_transaction).     *)
THEOREM AnswersAlwaysCover == ProtocolSpec => []AnswersCoverTheirChange
<1>1. Covering /\ Calling => AnswersCoverTheirChange
  <2> SUFFICES ASSUME Covering, Calling, NEW p \in Processes, NEW c,
                      c = client[p].socket, c # None, answers[c] # <<>>,
                      client[p].exchange.type \in {"register_provider", "scene_transaction"},
                      Head(answers[c]).accepted
               PROVE  Covered(p, Head(answers[c]).revision)
    BY DEF AnswersCoverTheirChange, Covered
  <2>1. c \in Connections /\ Awaited(p, c)
    BY DEF Calling, Clients, Awaited
  <2> QED BY <2>1 DEF Covering
<1> QED BY <1>1, AnswersAreCovered, RequestsAreWellFormed, PTL

=============================================================================
