-------------------------- MODULE ProviderProtocol --------------------------
(***************************************************************************)
(* Provider processes and the broker, over the packet socket: the client   *)
(* library (client/src/client.cpp), the broker's accept loop and worker    *)
(* threads (broker/src/main.cpp, connection.cpp) and the ProviderSession   *)
(* of each connection (broker/src/provider_session.cpp), around the        *)
(* SceneStore that all sessions share.  A request waits in the socket, is  *)
(* applied, is answered and is received in four steps; any number of other *)
(* sessions run between them, and the client may give up at any of them.   *)
(***************************************************************************)
EXTENDS SceneStore

CONSTANTS
    Processes,
    IdentityOf,             \* process -> the identity it registers
    MaximumConnections,     \* maximum_connections
    MaximumResidents,       \* renderers and controllers that stay connected
    MaximumErrors,          \* maximum_protocol_errors
    MaximumRequests,        \* bounds of the model: requests on a connection,
    MaximumTransactions     \*   and transactions begun on it

(* What a client may ask, and what a worker has yet to answer.             *)
Requests ==
    [id : Nat, type : {"hello"}, body : {None}]
    \cup [id : Nat, type : {"register_provider"}, body : Identities]
    \cup [id : Nat, type : {"upload_resource"}, body : [id : ResourceIds, resource : Resources]]
    \cup [id : Nat, type : {"release_resource"}, body : ResourceIds]
    \cup [id : Nat, type : {"scene_transaction"},
          body : [id : TransactionIds, mutations : Mutations]]
RequestTypes == {"hello", "register_provider", "upload_resource", "release_resource",
                 "scene_transaction"}
Replies == [id : Nat, type : RequestTypes, accepted : BOOLEAN]

ASSUME ProtocolAssumption ==
    /\ Connections \subseteq Nat
    /\ None \notin Connections
    /\ None \notin Requests
    /\ None \notin Replies
    /\ IdentityOf \in [Processes -> Identities]
    /\ {MaximumConnections, MaximumErrors, MaximumRequests, MaximumTransactions}
           \subseteq Nat
    /\ MaximumResidents \in 0..MaximumConnections
    /\ 1..MaximumTransactions \subseteq TransactionIds
    /\ \A m \in Mutations : \A i \in DOMAIN m :
           m[i].content # None => ValidElement(m[i].id, m[i].content)

VARIABLES
    client,             \* process -> its mango_overlay_client
    told,               \* history: process -> the scene it was told it has
    session,            \* connection -> the broker's worker and its session
    open,               \* connection -> which ends of its socket are open
    requests,           \* connection -> packets the broker has not received
    answers,            \* connection -> packets the client has not received
    active_connections

socketVars == <<open, requests, answers>>
protocolVars == <<vars, client, told, session, socketVars, active_connections>>

-----------------------------------------------------------------------------
(* Clients.  next_transaction_id and next_request_id start over with every *)
(* connection, as the library has no other way to connect again than a new *)
(* client.                                                                 *)

Disconnected ==
    [socket |-> None, registered |-> FALSE, active_transaction_id |-> 0,
     next_transaction_id |-> 1, next_request_id |-> 1, exchange |-> None]

NothingTold ==
    [elements |-> [e \in ElementIds |-> None],
     resources |-> [r \in ResourceIds |-> None]]

Hello == [id |-> 1, type |-> "hello", body |-> None]

(* close_connection: the library's end is closed and all it knew is gone.  *)
CloseConnection(p) ==
    /\ client' = [client EXCEPT ![p] = Disconnected]
    /\ told' = [told EXCEPT ![p] = NothingTold]
    /\ open' = [open EXCEPT ![client[p].socket] = @ \ {"client"}]

(* The first half of exchange: send.                                       *)
Send(p, type, body) ==
    LET c == client[p].socket
        id == client[p].next_request_id
    IN  IF "broker" \in open[c]
        THEN /\ requests' = [requests EXCEPT ![c] =
                    Append(@, [id |-> id, type |-> type, body |-> body])]
             /\ client' = [client EXCEPT
                    ![p].exchange = [id |-> id, type |-> type, body |-> body],
                    ![p].next_request_id = id + 1]
             /\ UNCHANGED <<told, open, answers>>
        ELSE CloseConnection(p) /\ UNCHANGED <<requests, answers>>

(* The process is between two calls of the library.                        *)
Ready(p) ==
    /\ client[p].socket # None
    /\ client[p].exchange = None
    /\ client[p].next_request_id <= MaximumRequests

(* Connection ids are given out in order.                                  *)
First(c, ids) == c \in ids /\ \A d \in ids : c <= d

Unused == {c \in Connections : session[c].stage = "unused"}

(* open_impl: connect, then the hello exchange.                            *)
open_impl(p) ==
    /\ client[p].socket = None
    /\ \E c \in Connections :
           /\ First(c, Unused)
           /\ open' = [open EXCEPT ![c] = {"client", "broker"}]
           /\ session' = [session EXCEPT ![c].stage = "backlog"]
           /\ requests' = [requests EXCEPT ![c] = <<Hello>>]
           /\ client' = [client EXCEPT ![p] =
                  [Disconnected EXCEPT !.socket = c, !.exchange = Hello,
                                       !.next_request_id = 2]]
    /\ UNCHANGED <<vars, told, answers, active_connections>>

register_provider_impl(p) ==
    /\ Ready(p)
    /\ ~client[p].registered
    /\ Send(p, "register_provider", IdentityOf[p])
    /\ UNCHANGED <<vars, session, active_connections>>

OutsideTransaction(p) ==
    Ready(p) /\ client[p].registered /\ client[p].active_transaction_id = 0

upload_resource_request(p, r, resource) ==
    /\ OutsideTransaction(p)
    /\ Send(p, "upload_resource", [id |-> r, resource |-> resource])
    /\ UNCHANGED <<vars, session, active_connections>>

release_resource_impl(p, r) ==
    /\ OutsideTransaction(p)
    /\ Send(p, "release_resource", r)
    /\ UNCHANGED <<vars, session, active_connections>>

(* Mutant: every client counts its transactions from 1, per transaction.   *)
begin_transaction_again(p) ==
    /\ OutsideTransaction(p)
    /\ client' = [client EXCEPT ![p].active_transaction_id = 1]
    /\ UNCHANGED <<vars, told, session, socketVars, active_connections>>

begin_transaction_impl(p) ==
    /\ OutsideTransaction(p)
    /\ client[p].next_transaction_id <= MaximumTransactions
    /\ client' = [client EXCEPT
           ![p].active_transaction_id = client[p].next_transaction_id,
           ![p].next_transaction_id = @ + 1]
    /\ UNCHANGED <<vars, told, session, socketVars, active_connections>>

(* The upserts and removals retained since begin, each checked by the      *)
(* library, go out as one list.                                            *)
commit_transaction_impl(p, mutations) ==
    /\ Ready(p)
    /\ client[p].registered /\ client[p].active_transaction_id # 0
    /\ Send(p, "scene_transaction",
            [id |-> client[p].active_transaction_id, mutations |-> mutations])
    /\ UNCHANGED <<vars, session, active_connections>>

abort_transaction_impl(p) ==
    /\ Ready(p)
    /\ client[p].active_transaction_id # 0
    /\ client' = [client EXCEPT ![p].active_transaction_id = 0]
    /\ UNCHANGED <<vars, told, session, socketVars, active_connections>>

(* close_impl, or the end of the process, in the middle of anything.       *)
close_impl(p) ==
    /\ client[p].socket # None
    /\ CloseConnection(p)
    /\ UNCHANGED <<vars, session, requests, answers, active_connections>>

(* What a request makes of the scene, when the broker accepts it.          *)
After(scene, request) ==
    LET body == request.body
    IN  CASE request.type = "hello" -> scene
          [] request.type = "register_provider" -> NothingTold
          [] request.type = "upload_resource" ->
                [scene EXCEPT !.resources =
                    [scene.resources EXCEPT ![body.id] = body.resource]]
          [] request.type = "release_resource" ->
                [scene EXCEPT !.resources = [scene.resources EXCEPT ![body] = None]]
          [] request.type = "scene_transaction" ->
                [scene EXCEPT !.elements = Candidate(scene.elements, body.mutations)]

(* The exchange is over, and a commit has ended its transaction whatever   *)
(* the answer.                                                             *)
Over(p, request, registered) ==
    LET active == IF request.type = "scene_transaction" THEN 0
                  ELSE client[p].active_transaction_id
    IN  client' = [client EXCEPT ![p].exchange = None,
                                 ![p].registered = registered,
                                 ![p].active_transaction_id = active]

Acknowledged(p, request) ==
    /\ Over(p, request, client[p].registered \/ request.type = "register_provider")
    /\ told' = [told EXCEPT ![p] = After(@, request)]

Refused(p, request) ==
    /\ Over(p, request, client[p].registered)
    /\ UNCHANGED told

(* The second half of exchange; an error leaves the connection.            *)
ReceiveAnswer(p) ==
    LET c == client[p].socket
        answer == Head(answers[c])
        request == client[p].exchange
    IN  /\ c # None
        /\ request # None
        /\ answers[c] # <<>>
        /\ answers' = [answers EXCEPT ![c] = Tail(@)]
        /\ CASE answer.id # request.id -> CloseConnection(p)
             [] answer.id = request.id /\ answer.accepted ->
                    Acknowledged(p, request) /\ UNCHANGED open
             [] answer.id = request.id /\ ~answer.accepted ->
                    Refused(p, request) /\ UNCHANGED open
        /\ UNCHANGED <<vars, session, requests, active_connections>>

(* Mutant: a request that timed out leaves the connection as it is.        *)
GiveUpQuietly(p) ==
    LET c == client[p].socket
    IN  /\ c # None
        /\ client[p].exchange # None
        /\ answers[c] = <<>>
        /\ client' = [client EXCEPT ![p].exchange = None,
                                    ![p].active_transaction_id = 0]
        /\ UNCHANGED <<vars, told, session, socketVars, active_connections>>

(* recv times out.                                                         *)
ReceiveTimeout(p) ==
    LET c == client[p].socket
    IN  /\ c # None
        /\ client[p].exchange # None
        /\ answers[c] = <<>>
        /\ CloseConnection(p)
        /\ UNCHANGED <<vars, session, requests, answers, active_connections>>

(* recv finds that the broker closed its end.                              *)
BrokerClosed(p) ==
    client[p].socket # None /\ "broker" \notin open[client[p].socket] /\ ReceiveTimeout(p)

-----------------------------------------------------------------------------
(* The accept loop.  It alone counts up, and a worker that counts down in  *)
(* between only makes room, so its test and its count are one step, and so *)
(* are accepting a connection and turning it away: the socket the loop     *)
(* holds for that moment is not among those that are bounded.              *)

NoSession == [stage |-> "unused", registered |-> FALSE, protocol_errors |-> 0, reply |-> None]

Stage(c, stage) == session' = [session EXCEPT ![c].stage = stage]
Backlog == {c \in Connections : session[c].stage = "backlog"}

AcceptConnection(c) ==
    /\ First(c, Backlog)
    /\ active_connections < MaximumConnections
    /\ active_connections' = active_connections + 1
    /\ Stage(c, "handshake")
    /\ UNCHANGED <<vars, client, told, socketVars>>

(* Mutant: what is turned away is counted like a worker that ended.        *)
TurnAwayCounted(c) ==
    /\ First(c, Backlog)
    /\ open' = [open EXCEPT ![c] = @ \ {"broker"}]
    /\ active_connections' = active_connections - 1
    /\ Stage(c, "done")
    /\ UNCHANGED <<vars, client, told, requests, answers>>

(* Mutant: the socket of a connection that is turned away stays open.      *)
TurnAwayOpen(c) ==
    /\ First(c, Backlog)
    /\ Stage(c, "done")
    /\ UNCHANGED <<vars, client, told, socketVars, active_connections>>

(* The broker is full, or has no thread or no timeout for the connection.  *)
TurnAway(c) ==
    /\ First(c, Backlog)
    /\ open' = [open EXCEPT ![c] = @ \ {"broker"}]
    /\ Stage(c, "done")
    /\ UNCHANGED <<vars, client, told, requests, answers, active_connections>>

-----------------------------------------------------------------------------
(* A worker thread: serve_connection and the end of the thread.            *)

(* Mutant: only a transaction is answered with a revision.                 *)
ReplyUndated(c) ==
    LET answer == session[c].reply
    IN  [id |-> answer.id, accepted |-> answer.accepted,
         revision |-> IF answer.type = "scene_transaction"
                      THEN current_snapshot.revision ELSE 0]

Reply(c) ==
    LET answer == session[c].reply
        dated == answer.type \in {"register_provider", "scene_transaction"}
    IN  [id |-> answer.id, accepted |-> answer.accepted,
         revision |-> IF dated THEN current_snapshot.revision ELSE 0]

(* serve_initial_handshake: the library's hello is always acceptable.      *)
Handshake(c) ==
    /\ session[c].stage = "handshake"
    /\ requests[c] # <<>>
    /\ requests' = [requests EXCEPT ![c] = Tail(@)]
    /\ IF "client" \in open[c]
       THEN /\ answers' = [answers EXCEPT ![c] =
                   Append(@, [id |-> Head(requests[c]).id, accepted |-> TRUE,
                              revision |-> 0])]
            /\ Stage(c, "serving")
       ELSE Stage(c, "leaving") /\ UNCHANGED answers
    /\ UNCHANGED <<vars, client, told, open, active_connections>>

(* Mutant: the receive timeout ends with the handshake.                    *)
HangUpOnClosed(c) ==
    /\ session[c].stage \in {"handshake", "serving"}
    /\ session[c].reply = None
    /\ requests[c] = <<>>
    /\ "client" \notin open[c] \/ session[c].stage = "handshake"
    /\ Stage(c, "leaving")
    /\ UNCHANGED <<vars, client, told, socketVars, active_connections>>

(* Mutant: it also holds for a provider that registered.                   *)
HangUpOnSilence(c) ==
    /\ session[c].stage \in {"handshake", "serving"}
    /\ session[c].reply = None
    /\ requests[c] = <<>>
    /\ Stage(c, "leaving")
    /\ UNCHANGED <<vars, client, told, socketVars, active_connections>>

(* There is nothing left to receive from a client that closed, or nothing  *)
(* came in time from one that is not registered.                           *)
HangUp(c) ==
    /\ session[c].stage \in {"handshake", "serving"}
    /\ session[c].reply = None
    /\ requests[c] = <<>>
    /\ "client" \notin open[c] \/ ~session[c].registered
    /\ Stage(c, "leaving")
    /\ UNCHANGED <<vars, client, told, socketVars, active_connections>>

(* ProviderSession::process.  What the store refuses is one more protocol  *)
(* error, and leaves the store as it is.                                   *)
Processing(c, type) ==
    /\ session[c].stage = "serving"
    /\ session[c].reply = None
    /\ requests[c] # <<>>
    /\ Head(requests[c]).type = type
    /\ requests' = [requests EXCEPT ![c] = Tail(@)]
    /\ UNCHANGED <<client, told, open, answers, active_connections>>

Answered(c, accepted, registered, errors) ==
    session' = [session EXCEPT ![c] =
        [stage |-> "serving", registered |-> registered, protocol_errors |-> errors,
         reply |-> [id |-> Head(requests[c]).id, type |-> Head(requests[c]).type,
                    accepted |-> accepted]]]

Fulfil(c) == Answered(c, TRUE, TRUE, session[c].protocol_errors)

reject(c) ==
    /\ Answered(c, FALSE, session[c].registered, session[c].protocol_errors + 1)
    /\ UNCHANGED vars

Body(c) == Head(requests[c]).body

process_registration(c) ==
    /\ Processing(c, "register_provider")
    /\ \/ CanRegister(c, Body(c)) /\ register_provider(c, Body(c)) /\ Fulfil(c)
       \/ ~CanRegister(c, Body(c)) /\ reject(c)

process_upload(c) ==
    /\ Processing(c, "upload_resource")
    /\ LET r == Body(c).id
           resource == Body(c).resource
       IN  \/ store_resource(c, r, resource) /\ Fulfil(c)
           \/ ~CanStore(c, r, resource) /\ reject(c)

process_release(c) ==
    /\ Processing(c, "release_resource")
    /\ \/ release_resource(c, Body(c)) /\ Fulfil(c)
       \/ ~CanRelease(c, Body(c)) /\ reject(c)

(* Only the last transaction is recognised as a repetition; an older one   *)
(* is stale, and refused like any other the store does not take.           *)
AlreadyApplied(c, id) ==
    c \in Registered /\ id = providers[c].last_transaction_id

process_transaction(c) ==
    /\ Processing(c, "scene_transaction")
    /\ LET id == Body(c).id
           mutations == Body(c).mutations
       IN  \/ commit(c, id, mutations) /\ Fulfil(c)
           \/ /\ WellFormedTransaction(id, mutations) /\ AlreadyApplied(c, id)
              /\ Fulfil(c) /\ UNCHANGED vars
           \/ /\ ~CanCommit(c, id, mutations)
              /\ ~(WellFormedTransaction(id, mutations) /\ AlreadyApplied(c, id))
              /\ reject(c)

(* The answer takes the revision of the snapshot it finds when it is made, *)
(* after the operation released the store's mutex.                         *)
SendAnswer(c) ==
    LET refused == ~session[c].reply.accepted
        reachable == "client" \in open[c]
        last == refused /\ session[c].protocol_errors >= MaximumErrors
    IN  /\ session[c].stage = "serving"
        /\ session[c].reply # None
        /\ answers' = IF reachable THEN [answers EXCEPT ![c] = Append(@, Reply(c))]
                      ELSE answers
        /\ session' = [session EXCEPT ![c].reply = None,
                                      ![c].stage = IF reachable /\ ~last THEN @ ELSE "leaving"]
        /\ UNCHANGED <<vars, client, told, open, requests, active_connections>>

(* Mutant: the scene is dropped and no renderer is told.                   *)
LeaveSilently(c) ==
    /\ session[c].stage = "leaving"
    /\ providers' = [providers EXCEPT ![c] = None]
    /\ UNCHANGED <<policyVars, feedVars, resource_bytes>>
    /\ Stage(c, "closing")
    /\ UNCHANGED <<client, told, socketVars, active_connections>>

(* ~ProviderSession, then close, then the count: three steps of one thread. *)
Leave(c) ==
    /\ session[c].stage = "leaving"
    /\ IF c \in Registered THEN disconnect(c) ELSE UNCHANGED vars
    /\ Stage(c, "closing")
    /\ UNCHANGED <<client, told, socketVars, active_connections>>

(* Mutant: counted before it is closed.                                    *)
CountFirst(c) ==
    /\ session[c].stage = "closing"
    /\ active_connections' = active_connections - 1
    /\ Stage(c, "counting")
    /\ UNCHANGED <<vars, client, told, socketVars>>

CloseSocket(c) ==
    /\ session[c].stage = "closing"
    /\ open' = [open EXCEPT ![c] = @ \ {"broker"}]
    /\ Stage(c, "counting")
    /\ UNCHANGED <<vars, client, told, requests, answers, active_connections>>

EndWorker(c) ==
    /\ session[c].stage = "counting"
    /\ active_connections' = active_connections - 1
    /\ Stage(c, "done")
    /\ UNCHANGED <<vars, client, told, socketVars>>

-----------------------------------------------------------------------------
ProtocolInit ==
    /\ Init
    /\ client = [p \in Processes |-> Disconnected]
    /\ told = [p \in Processes |-> NothingTold]
    /\ session = [c \in Connections |-> NoSession]
    /\ open = [c \in Connections |-> {}]
    /\ requests = [c \in Connections |-> <<>>]
    /\ answers = [c \in Connections |-> <<>>]
    /\ active_connections \in 0..MaximumResidents

Call(p) ==
    \/ open_impl(p)
    \/ register_provider_impl(p)
    \/ \E r \in ResourceIds, resource \in Resources : upload_resource_request(p, r, resource)
    \/ \E r \in ResourceIds : release_resource_impl(p, r)
    \/ begin_transaction_impl(p)
    \/ \E m \in Mutations : commit_transaction_impl(p, m)
    \/ abort_transaction_impl(p)
    \/ close_impl(p)
    \/ ReceiveTimeout(p)

Receive(p) == ReceiveAnswer(p) \/ BrokerClosed(p)

Listen == \E c \in Connections : AcceptConnection(c) \/ TurnAway(c)

Process(c) ==
    \/ process_registration(c)
    \/ process_upload(c)
    \/ process_release(c)
    \/ process_transaction(c)

Work(c) ==
    \/ Handshake(c)
    \/ HangUp(c)
    \/ Process(c)
    \/ SendAnswer(c)
    \/ Leave(c)
    \/ CloseSocket(c)
    \/ EndWorker(c)

ProtocolNext ==
    \/ \E p \in Processes : Call(p) \/ Receive(p)
    \/ Listen
    \/ \E c \in Connections : Work(c)

ProtocolSpec == ProtocolInit /\ [][ProtocolNext]_protocolVars

(* The threads of the broker run, and a process that waits for an answer   *)
(* receives what is there; nothing is assumed of its calls, nor that a     *)
(* request times out.                                                      *)
FairProtocolSpec ==
    /\ ProtocolSpec
    /\ WF_protocolVars(Listen)
    /\ \A c \in Connections : WF_protocolVars(Work(c))
    /\ \A p \in Processes : WF_protocolVars(Receive(p))

-----------------------------------------------------------------------------
(* Properties.                                                             *)

Stages == {"unused", "backlog", "handshake", "serving", "leaving", "closing",
           "counting", "done"}
Clients ==
    [socket : Connections \cup {None}, registered : BOOLEAN,
     active_transaction_id : Nat, next_transaction_id : Nat, next_request_id : Nat,
     exchange : Requests \cup {None}]
Sessions ==
    [stage : Stages, registered : BOOLEAN, protocol_errors : Nat,
     reply : Replies \cup {None}]

ProtocolTypeOK ==
    /\ client \in [Processes -> Clients]
    /\ told \in [Processes -> [elements : ElementMaps, resources : ResourceMaps]]
    /\ session \in [Connections -> Sessions]
    /\ open \in [Connections -> SUBSET {"client", "broker"}]
    /\ requests \in [Connections -> Seq(Requests)]
    /\ answers \in [Connections ->
           Seq([id : Nat, accepted : BOOLEAN, revision : Nat])]
    /\ active_connections \in Nat

(* Between two requests a process knows its scene: what it was told was    *)
(* stored, released and committed is what the broker has for it, also when *)
(* requests before were refused or given up.  A retry taken for the        *)
(* transaction it repeats, or an answer taken for another's, would part    *)
(* the two.                                                                *)
ClientsKnowTheirScene ==
    \A p \in Processes :
        LET c == client[p].socket
        IN  (/\ client[p].registered /\ client[p].exchange = None
             /\ session[c].stage = "serving") =>
                /\ c \in Registered
                /\ providers[c].identity = IdentityOf[p]
                /\ told[p] = [elements |-> providers[c].elements,
                             resources |-> providers[c].resources]

(* The answer that comes is the answer to the request that waits: nothing  *)
(* a process gave up on is delivered to its next request.                  *)
AnswersMatch ==
    \A p \in Processes :
        LET c == client[p].socket
        IN  (c # None /\ answers[c] # <<>>) =>
                /\ client[p].exchange # None
                /\ Head(answers[c]).id = client[p].exchange.id

(* The revision in an answer covers the change it answers: a renderer that *)
(* has come as far shows it, or something newer of the same provider.      *)
AnswersCoverTheirChange ==
    \A p \in Processes :
        LET c == client[p].socket
        IN  (/\ c # None /\ answers[c] # <<>>
             /\ client[p].exchange.type \in {"register_provider", "scene_transaction"}
             /\ Head(answers[c]).accepted) =>
                \A i \in DOMAIN changes :
                    changes[i].kind = "upsert" /\ changes[i].identity = IdentityOf[p]
                        => changes[i].revision <= Head(answers[c]).revision

(* The broker serves no more sockets than its limit: the count covers every *)
(* one given to a worker until it is closed, in whatever order they end.    *)
SocketsAreBounded ==
    LET accepted == {c \in Connections :
            "broker" \in open[c] /\ session[c].stage # "backlog"}
    IN  /\ Cardinality(accepted) <= active_connections
        /\ active_connections <= MaximumConnections

(* A connection that serves nobody ends: its client is gone, or it never   *)
(* registered.  Its scene is removed and its place is free again.          *)
Useful(c) == session[c].registered /\ "client" \in open[c]
Ended(c) == session[c].stage = "done" /\ providers[c] = None
ConnectionsEnd ==
    \A c \in Connections :
        session[c].stage # "unused" /\ ~Useful(c) ~> Useful(c) \/ Ended(c)

(* A request is answered, or its connection is closed: without any timeout *)
(* in the client, and also by a broker that is full.                       *)
RequestsEnd ==
    \A p \in Processes : client[p].exchange # None ~> client[p].exchange = None

(* A provider that is there keeps its scene, however long it is silent:    *)
(* only the last refusal the session tolerates takes it down.              *)
ScenesEndWithTheirClient ==
    [][\A c \in Connections :
          (c \in Registered /\ "client" \in open[c] /\ c \notin Registered') =>
              session[c].protocol_errors >= MaximumErrors]_protocolVars

(* Whatever the sessions, their clients and the sockets do, the store they *)
(* share takes no step but its own.                                        *)
KeepsTheStore == Spec

=============================================================================
