------------------------------- MODULE Server -------------------------------
(***************************************************************************)
(* The connections of a node: server/server.py (the lists of connections,    *)
(* the tasks that run the handlers of messages, bans) and                    *)
(* server/ws_connection.py (requests matched to answers by a nonce, their    *)
(* timeouts, close).                                                         *)
(*                                                                           *)
(* A step is what a coroutine does between two awaits.  The peer runs the    *)
(* same code at the other end: it may answer a request late or never, and    *)
(* makes requests of its own with the nonces of its side.  Sockets are       *)
(* external: they break at any time.  A message may wait in a queue, for a   *)
(* rate limit or for a handler that has ended with an exception, so that an  *)
(* answer comes at any later time or never.                                  *)
(***************************************************************************)
EXTENDS Integers, FiniteSets

CONSTANTS
    Conns,         \* bound: the WSChiaConnection objects
    Peers,         \* node ids of the peers
    PeerId,        \* PeerId[c]: the peer_node_id of connection c
    Outbound,      \* connections made by start_client; the others come in
    Exempt,        \* connections from a host of exempt_peer_networks
    MAX_INBOUND,   \* inbound connections that accept_inbound_connections allows
    HALF,          \* nonces of one side (2^15)
    MaxRequests,   \* bound: requests made
    MaxTasks,      \* bound: messages handed to the api
    NONE

ASSUME ServerAssumption ==
    /\ PeerId \in [Conns -> Peers]
    /\ Outbound \subseteq Conns /\ Exempt \subseteq Conns
    /\ HALF \in Nat \ {0}
    /\ {MAX_INBOUND, MaxRequests, MaxTasks} \subseteq Nat
    /\ NONE \notin Conns

Requests == 1..MaxRequests
Tasks == 1..MaxTasks

VARIABLES
    all_connections,     \* by node id; NONE where there is no key
    connection_by_type,  \* the same for one node type
    banned_peers,        \* the peers whose ban has not run out
    conn,                \* the connections
    request,             \* the calls of create_request
    pending_requests,    \* per connection and nonce: the request whose event is there
    request_results,     \* per connection and nonce: the answer that is there
    task,                \* the calls of the api
    api_tasks, tasks_from_peer, execute_tasks

registry == <<all_connections, connection_by_type, banned_peers>>
calls == <<task, api_tasks, tasks_from_peer, execute_tasks>>
tables == <<pending_requests, request_results>>
vars == <<registry, conn, request, tables, calls>>

\* What is in request_results when a request of the peer was taken for an answer.
PeerRequest == MaxRequests + 1
NoAnswer == 0
Nonces == 0..2 * HALF - 1

SameFirstNonce(outbound) == 0
FirstNonce(outbound) == IF outbound THEN 0 ELSE HALF
LastNonce(outbound) == IF outbound THEN HALF - 1 ELSE 2 * HALF - 1
NonceNotWrapped(outbound, nonce) == nonce + 1
NextNonce(outbound, nonce) ==
    IF nonce # LastNonce(outbound) THEN nonce + 1 ELSE FirstNonce(outbound)

\* at: how far the connection is set up; old: the connection that connection_added
\* closes first; ws: the socket is not closed; close: how far close() is ("lost":
\* cancelled on the way).
Unused(c) ==
    [at |-> "new", old |-> NONE, ws |-> TRUE, close |-> "open", ban |-> FALSE,
     raised |-> FALSE, nonce |-> FirstNonce(c \in Outbound)]

NoRequest ==
    [pc |-> "none", conn |-> NONE, id |-> 0, event |-> FALSE, timer |-> "none",
     answered |-> FALSE, result |-> NoAnswer, by |-> 0]

NoTask == [pc |-> "none", conn |-> NONE, execute |-> FALSE]

TypeOK ==
    /\ all_connections \in [Peers -> Conns \cup {NONE}]
    /\ connection_by_type \in [Peers -> Conns \cup {NONE}]
    /\ banned_peers \subseteq Peers
    /\ \A c \in Conns :
          /\ conn[c].at \in {"new", "handshake", "shaken", "adding", "added"}
          /\ conn[c].close \in {"open", "closing", "closed", "lost"}
          /\ conn[c].nonce \in FirstNonce(c \in Outbound)..LastNonce(c \in Outbound)
    /\ request \in [Requests ->
          [pc : {"none", "waiting", "done", "cancelled"}, conn : Conns \cup {NONE},
           id : Nonces, event : BOOLEAN, answered : BOOLEAN,
           timer : {"none", "created", "sleeping", "over", "lost"},
           result : {NoAnswer, PeerRequest} \cup Requests, by : {0} \cup Tasks]]
    /\ pending_requests \in [Conns -> [Nonces -> {0} \cup Requests]]
    /\ request_results \in [Conns -> [Nonces -> {NoAnswer, PeerRequest} \cup Requests]]
    /\ task \in [Tasks ->
          [pc : {"none", "queued", "created", "running", "waiting", "closing", "done"},
           conn : Conns \cup {NONE}, execute : BOOLEAN]]
    /\ api_tasks \subseteq Tasks /\ execute_tasks \subseteq Tasks
    /\ tasks_from_peer \in [Peers -> SUBSET Tasks]

Init ==
    /\ all_connections = [p \in Peers |-> NONE]
    /\ connection_by_type = [p \in Peers |-> NONE]
    /\ banned_peers = {}
    /\ conn = [c \in Conns |-> Unused(c)]
    /\ request = [r \in Requests |-> NoRequest]
    /\ pending_requests = [c \in Conns |-> [n \in Nonces |-> 0]]
    /\ request_results = [c \in Conns |-> [n \in Nonces |-> NoAnswer]]
    /\ task = [t \in Tasks |-> NoTask]
    /\ api_tasks = {} /\ execute_tasks = {}
    /\ tasks_from_peer = [p \in Peers |-> {}]

IsOpen(c) == conn[c].close = "open"

-----------------------------------------------------------------------------
(* Closing. *)

\* cancel_tasks_from_peer: all but the tasks that must run fully.
CancelsAllTasks(p) == {t \in tasks_from_peer[p] : task[t].pc # "done"}
CancelledTasks(p) ==
    {t \in tasks_from_peer[p] \ execute_tasks : task[t].pc # "done"}

\* The tasks of `ended` reach their finally clause, except those that are cancelled
\* before their first step: they never enter the try statement.
TasksEndUnlisted(ended) ==
    /\ task' = [t \in Tasks |-> IF t \in ended THEN [NoTask EXCEPT !.pc = "done"] ELSE task[t]]
    /\ api_tasks' = {t \in api_tasks : t \in ended => task[t].pc = "created"}
    /\ execute_tasks' = execute_tasks \ ended
    /\ UNCHANGED tasks_from_peer
TasksEnd(ended) ==
    LET ran == {t \in ended : task[t].pc # "created"} IN
    /\ task' = [t \in Tasks |-> IF t \in ended THEN [NoTask EXCEPT !.pc = "done"] ELSE task[t]]
    /\ api_tasks' = api_tasks \ ran
    /\ tasks_from_peer' = [p \in Peers |-> tasks_from_peer[p] \ ran]
    /\ execute_tasks' = execute_tasks \ ran

\* A task that ends in create_request leaves its entry in pending_requests.
Abandoned(r, ended) == request[r].pc = "waiting" /\ request[r].by \in ended

Cancelled(rec) == [rec EXCEPT !.pc = "cancelled", !.event = FALSE, !.by = 0]

\* cancel_pending_timeouts: time_out sets the event when it is cancelled, unless it has
\* not begun.
TimerCancelledSilently(r) ==
    [request[r] EXCEPT !.timer = IF @ = "sleeping" THEN "over" ELSE IF @ = "created" THEN "lost" ELSE @]
CancelledTimer(r) ==
    CASE request[r].timer = "sleeping" ->
           [request[r] EXCEPT !.timer = "over",
                              !.event = request[r].pc = "waiting"]
      [] request[r].timer = "created" -> [request[r] EXCEPT !.timer = "lost"]
      [] OTHER -> request[r]

CloserOf(t, c) == task[t].pc = "closing" /\ task[t].conn = c

\* The end of close(): the timeouts are cancelled (`cancels`; not after an exception)
\* and connection_closed removes whatever the lists hold for this node id and cancels
\* the tasks of the peer, among them those that were closing another connection.
CloseFinishes(c, ban, cancels, ends) ==
    LET p == PeerId[c]
        ended == CancelledTasks(p) \cup ends \cup {t \in Tasks : CloserOf(t, c)}
        after(r) == IF cancels /\ request[r].conn = c THEN CancelledTimer(r) ELSE request[r]
    IN
    /\ conn' = [d \in Conns |->
          IF d = c THEN [conn[c] EXCEPT !.close = "closed", !.ban = FALSE, !.ws = FALSE,
                                        !.raised = ~cancels /\ \E e \in Conns : conn[e].old = c]
          ELSE IF \E t \in ended : CloserOf(t, d) THEN [conn[d] EXCEPT !.close = "lost"]
          ELSE conn[d]]
    /\ request' = [r \in Requests |->
          IF Abandoned(r, ended) THEN Cancelled(after(r)) ELSE after(r)]
    /\ TasksEnd(ended)
    /\ all_connections' = [all_connections EXCEPT ![p] = NONE]
    /\ connection_by_type' = IF conn[c].at = "handshake" THEN connection_by_type
                             ELSE [connection_by_type EXCEPT ![p] = NONE]
    /\ banned_peers' = IF ban THEN banned_peers \cup {p} ELSE banned_peers
    /\ UNCHANGED tables

\* close() by the tasks of `by` (or by none): it stops the two handlers, and goes on at
\* once when the socket is closed already.
Close(c, ban, by) ==
    \/ ~conn[c].ws /\ CloseFinishes(c, ban, TRUE, by)
    \/ /\ conn[c].ws
       /\ conn' = [conn EXCEPT ![c].close = "closing", ![c].ban = ban]
       /\ request' = [r \in Requests |->
             IF Abandoned(r, by) THEN Cancelled(request[r]) ELSE request[r]]
       /\ task' = [t \in Tasks |-> IF t \in by THEN [task[t] EXCEPT !.pc = "closing"] ELSE task[t]]
       /\ UNCHANGED <<registry, tables, api_tasks, tasks_from_peer, execute_tasks>>

\* The socket is closed, after at least one turn of the event loop.
CloseEnds(c) ==
    /\ conn[c].close = "closing"
    /\ \A r \in Requests : request[r].conn = c => request[r].timer # "created"
    /\ \E cancels \in BOOLEAN : CloseFinishes(c, conn[c].ban, cancels, {})

-----------------------------------------------------------------------------
(* Setting up a connection. *)

\* incoming_connection and start_client, up to the handshake.
Connect(c) ==
    /\ conn[c].at = "new" /\ PeerId[c] \notin banned_peers
    /\ conn' = [conn EXCEPT ![c].at = "handshake"]
    /\ UNCHANGED <<registry, request, tables, calls>>

\* perform_handshake is done; the two handlers begin with the next await.
HandshakeDone(c) ==
    /\ conn[c].at = "handshake" /\ IsOpen(c) /\ conn[c].ws
    /\ conn' = [conn EXCEPT ![c].at = "shaken"]
    /\ UNCHANGED <<registry, request, tables, calls>>

\* The handshake raises: the connection is closed, with or without a ban.
HandshakeFails(c) ==
    /\ conn[c].at = "handshake" /\ IsOpen(c)
    /\ \E ban \in BOOLEAN : Close(c, ban, {})

InboundCount == Cardinality({p \in Peers : connection_by_type[p] \in Conns \ Outbound})

Accepts(c) == c \in Outbound \cup Exempt \/ InboundCount < MAX_INBOUND

\* The connection is complete and then closed, as there are too many.
RefuseInbound(c) ==
    /\ conn[c].at = "shaken" /\ IsOpen(c) /\ ~Accepts(c)
    /\ Close(c, FALSE, {})

Listed(c) ==
    /\ all_connections' = [all_connections EXCEPT ![PeerId[c]] = c]
    /\ connection_by_type' = [connection_by_type EXCEPT ![PeerId[c]] = c]

\* connection_added, when nothing has to be closed: no connection of the peer is listed,
\* or one whose close() has begun.
AddConnection(c) ==
    LET old == all_connections[PeerId[c]] IN
    /\ conn[c].at = "shaken" /\ Accepts(c)
    /\ old # NONE => ~IsOpen(old)
    /\ conn' = [conn EXCEPT ![c].at = "added"]
    /\ Listed(c)
    /\ UNCHANGED <<banned_peers, request, tables, calls>>

\* connection_added, waiting for the close() of the listed connection.  When its socket
\* is closed already there is nothing to wait for: ConnectionCloses and AddConnection.
ReplaceConnection(c) ==
    LET old == all_connections[PeerId[c]] IN
    /\ conn[c].at = "shaken" /\ Accepts(c)
    /\ old # NONE /\ IsOpen(old) /\ conn[old].ws
    /\ conn' = [conn EXCEPT ![c].at = "adding", ![c].old = old, ![old].close = "closing"]
    /\ UNCHANGED <<registry, request, tables, calls>>

AddReplacement(c) ==
    /\ conn[c].at = "adding" /\ conn[conn[c].old].close = "closed" /\ ~conn[conn[c].old].raised
    /\ conn' = [conn EXCEPT ![c].at = "added", ![c].old = NONE]
    /\ Listed(c)
    /\ UNCHANGED <<banned_peers, request, tables, calls>>

\* close() of the old connection raised: the new one is closed too.
ReplacementFails(c) ==
    /\ conn[c].at = "adding" /\ conn[conn[c].old].raised
    /\ IsOpen(c)
    /\ \E ban \in BOOLEAN : Close(c, ban, {})

-----------------------------------------------------------------------------
(* The socket. *)

SocketBreaks(c) ==
    /\ conn[c].at # "new" /\ conn[c].ws
    /\ conn' = [conn EXCEPT ![c].ws = FALSE]
    /\ UNCHANGED <<registry, request, tables, calls>>

\* inbound_handler finds the socket closed, or a message beyond the rate limit (with a
\* ban); or the node closes the connection, for inactivity or for what the peer sent.
ConnectionCloses(c) ==
    /\ conn[c].at \in {"adding", "added"} /\ IsOpen(c)
    /\ \E ban \in BOOLEAN : Close(c, ban, {})

BanExpires(p) ==
    /\ p \in banned_peers
    /\ banned_peers' = banned_peers \ {p}
    /\ UNCHANGED <<all_connections, connection_by_type, conn, request, tables, calls>>

-----------------------------------------------------------------------------
(* Requests and answers. *)

\* Earlier requests with the same nonce are over, and so are their timers: the rate
\* limits allow far fewer requests than HALF before that.
NonceFree(c) ==
    \A q \in Requests :
        request[q].conn = c /\ request[q].id = conn[c].nonce
           => request[q].pc # "waiting" /\ request[q].timer \in {"over", "lost"}

\* create_request up to event.wait(), by task t or by another coroutine of the node (0).
CreateRequest(c, t) ==
    \E r \in Requests :
        /\ request[r].pc = "none" /\ \A q \in 1..r - 1 : request[q].pc # "none"
        /\ conn[c].at \in {"adding", "added"} /\ IsOpen(c) /\ NonceFree(c)
        /\ request' = [request EXCEPT ![r] =
              [NoRequest EXCEPT !.pc = "waiting", !.conn = c, !.id = conn[c].nonce,
                                !.timer = "created", !.by = t]]
        /\ pending_requests' = [pending_requests EXCEPT ![c][conn[c].nonce] = r]
        /\ conn' = [conn EXCEPT ![c].nonce = NextNonce(c \in Outbound, @)]
        /\ UNCHANGED <<registry, request_results, api_tasks, tasks_from_peer, execute_tasks>>

NodeRequests(c) == CreateRequest(c, 0) /\ UNCHANGED task

\* The event of q is set; nobody waits for it any more when q was abandoned.
Woken(s, q) == s = q /\ request[s].pc = "waiting"

TimerStarts(r) ==
    /\ request[r].timer = "created"
    /\ request' = [request EXCEPT ![r].timer = "sleeping"]
    /\ UNCHANGED <<registry, conn, tables, calls>>

\* time_out sets the event that is in pending_requests by now.
TimerEnds(r) ==
    LET q == pending_requests[request[r].conn][request[r].id] IN
    /\ request[r].timer = "sleeping"
    /\ request' = [s \in Requests |->
          [request[s] EXCEPT !.timer = IF s = r THEN "over" ELSE @,
                             !.event = @ \/ Woken(s, q)]]
    /\ UNCHANGED <<registry, conn, tables, calls>>

NewTask(c) ==
    \E t \in Tasks, execute \in BOOLEAN :
        /\ task[t].pc = "none" /\ \A u \in 1..t - 1 : task[u].pc # "none"
        /\ task' = [task EXCEPT ![t] = [pc |-> "queued", conn |-> c, execute |-> execute]]

\* inbound_handler: a message whose id is pending is the answer, any other one is put
\* into the queue of the server.
ReadMessage(c, id, what) ==
    /\ conn[c].at \in {"adding", "added"} /\ IsOpen(c) /\ conn[c].ws
    /\ LET q == pending_requests[c][id] IN
       \/ /\ q # 0
          /\ request_results' = [request_results EXCEPT ![c][id] = what]
          /\ request' = [s \in Requests |->
                [request[s] EXCEPT !.event = @ \/ Woken(s, q), !.answered = @ \/ s = what]]
          /\ UNCHANGED task
       \/ /\ q = 0
          /\ NewTask(c)
          /\ request' = [s \in Requests |->
                [request[s] EXCEPT !.answered = @ \/ s = what]]
          /\ UNCHANGED request_results
    /\ UNCHANGED <<registry, conn, pending_requests, api_tasks, tasks_from_peer, execute_tasks>>

PeerAnswers(r) ==
    /\ request[r].pc # "none" /\ ~request[r].answered
    /\ ReadMessage(request[r].conn, request[r].id, r)

\* The peer numbers its requests from the other side of the connection.
PeerRequests(c) ==
    \E id \in FirstNonce(c \notin Outbound)..LastNonce(c \notin Outbound) :
        ReadMessage(c, id, PeerRequest)

\* create_request after event.wait(); a handler that made it goes on.
RequestReturns(r) ==
    LET c == request[r].conn
        id == request[r].id IN
    /\ request[r].pc = "waiting" /\ request[r].event
    /\ request' = [request EXCEPT ![r].pc = "done", ![r].result = request_results[c][id],
                                   ![r].event = FALSE, ![r].by = 0]
    /\ pending_requests' = [pending_requests EXCEPT ![c][id] = 0]
    /\ request_results' = [request_results EXCEPT ![c][id] = NoAnswer]
    /\ task' = [t \in Tasks |->
          IF t = request[r].by THEN [task[t] EXCEPT !.pc = "running"] ELSE task[t]]
    /\ UNCHANGED <<registry, conn, api_tasks, tasks_from_peer, execute_tasks>>

-----------------------------------------------------------------------------
(* Handlers of messages. *)

\* incoming_api_task creates the task and notes it.
Dispatch(t) ==
    /\ task[t].pc = "queued"
    /\ task' = [task EXCEPT ![t].pc = "created"]
    /\ api_tasks' = api_tasks \cup {t}
    /\ tasks_from_peer' = [tasks_from_peer EXCEPT ![PeerId[task[t].conn]] = @ \cup {t}]
    /\ UNCHANGED <<registry, conn, request, tables, execute_tasks>>

\* api_call up to the call of the handler.
HandlerStarts(t) ==
    /\ task[t].pc = "created"
    /\ task' = [task EXCEPT ![t].pc = "running"]
    /\ execute_tasks' = IF task[t].execute THEN execute_tasks \cup {t} ELSE execute_tasks
    /\ UNCHANGED <<registry, conn, request, tables, api_tasks, tasks_from_peer>>

HandlerRequests(t) ==
    /\ task[t].pc = "running"
    /\ CreateRequest(task[t].conn, t)
    /\ task' = [task EXCEPT ![t].pc = "waiting"]

\* The handler returns and its response, if any, is queued; or the api was not ready.
HandlerReturns(t) ==
    /\ task[t].pc = "running"
    /\ TasksEnd({t})
    /\ UNCHANGED <<registry, conn, request, tables>>

\* api_call catches an exception of the handler, or of a message without handler, or the
\* timeout of a handler that has one, and closes the connection with a ban.
HandlerFails(t) ==
    /\ \/ task[t].pc = "running"
       \/ task[t].pc = "waiting" /\ ~task[t].execute
    /\ \/ IsOpen(task[t].conn) /\ Close(task[t].conn, TRUE, {t})
       \/ /\ ~IsOpen(task[t].conn)
          /\ TasksEnd({t})
          /\ request' = [r \in Requests |->
                IF Abandoned(r, {t}) THEN Cancelled(request[r]) ELSE request[r]]
          /\ UNCHANGED <<registry, conn, tables>>

-----------------------------------------------------------------------------
Setup(c) ==
    \/ Connect(c) \/ HandshakeDone(c) \/ HandshakeFails(c) \/ RefuseInbound(c) \/ AddConnection(c)
    \/ ReplaceConnection(c) \/ AddReplacement(c) \/ ReplacementFails(c)

Network(c) ==
    \/ SocketBreaks(c) \/ ConnectionCloses(c)
    \/ PeerRequests(c) \/ NodeRequests(c) \/ CloseEnds(c)

Requesting(r) ==
    TimerStarts(r) \/ TimerEnds(r) \/ PeerAnswers(r) \/ RequestReturns(r)

Handling(t) ==
    \/ Dispatch(t) \/ HandlerStarts(t) \/ HandlerRequests(t) \/ HandlerReturns(t)
    \/ HandlerFails(t)

Next ==
    \/ \E c \in Conns : Setup(c) \/ Network(c)
    \/ \E p \in Peers : BanExpires(p)
    \/ \E r \in Requests : Requesting(r)
    \/ \E t \in Tasks : Handling(t)

\* The event loop runs what is ready, timers expire, sockets that are being closed are
\* closed in the end, and api_call ends a handler after 600 seconds unless it must run
\* fully.  Nothing is assumed of the peer, nor of the handlers.
Fairness ==
    /\ \A c \in Conns : WF_vars(CloseEnds(c))
    /\ \A r \in Requests :
          WF_vars(TimerStarts(r)) /\ WF_vars(TimerEnds(r)) /\ WF_vars(RequestReturns(r))
    /\ \A t \in Tasks :
          /\ WF_vars(Dispatch(t)) /\ WF_vars(HandlerStarts(t))
          /\ WF_vars(~task[t].execute /\ HandlerFails(t))

Spec == Init /\ [][Next]_vars /\ Fairness

-----------------------------------------------------------------------------
(* Properties *)

\* create_request returns nothing or the peer's answer to this very request: never a
\* request of the peer, and never an answer to an earlier request.
AnswersMatch == \A r \in Requests : request[r].result \in {NoAnswer, r}

\* cancel_tasks_from_peer looks up every id it finds in api_tasks and would raise in the
\* middle of connection_closed; and it finds every task that runs for the peer.
TasksTracked ==
    /\ \A p \in Peers : tasks_from_peer[p] \subseteq api_tasks
    /\ \A t \in Tasks :
          task[t].pc \in {"created", "running", "waiting", "closing"}
             => t \in api_tasks \cap tasks_from_peer[PeerId[task[t].conn]]
    /\ \A t \in execute_tasks : task[t].pc \in {"running", "waiting", "closing"}

\* A handler that must run fully is never ended while it waits for an answer, neither by
\* a timeout nor by the end of its connection or of another one to the same peer.
ExecuteTasksRunFully ==
    [][\A t \in Tasks :
          task[t].execute /\ task[t].pc = "waiting" => task'[t].pc \in {"waiting", "running"}]_vars

\* No wakeup of create_request is lost: an answer that is there and a timeout that has
\* passed, or was cut short by the end of the connection, have set its event.
NoWakeupLost ==
    \A r \in Requests : request[r].pc = "waiting" =>
        /\ request[r].timer = "over" => request[r].event
        /\ request_results[request[r].conn][request[r].id] # NoAnswer => request[r].event

\* Every request ends (the comment in create_request).  A timeout task that is cancelled
\* before its first step does not set the event.
RequestsEnd ==
    \A r \in Requests : (request[r].pc = "waiting") ~> (request[r].pc # "waiting")

\* all_connections "keeps track of all connections to and from this node".
OpenConnectionsListed ==
    \A c \in Conns : conn[c].at = "added" /\ IsOpen(c) => all_connections[PeerId[c]] = c
=============================================================================
