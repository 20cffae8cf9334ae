---------------------------- MODULE ServerProofs ----------------------------
(***************************************************************************)
(* Connections, requests and handlers, for any number of them.  The tasks   *)
(* of a peer are always found when its connection ends; a handler that must *)
(* run fully does; and as long as the nonces of a side do not come round,   *)
(* create_request returns the answer to its own request and no wakeup is    *)
(* lost.                                                                    *)
(***************************************************************************)
EXTENDS Server, TLAPS

-----------------------------------------------------------------------------
(* The invariant of the tasks *)

Ats == {"new", "handshake", "shaken", "adding", "added"}
Closes == {"open", "closing", "closed", "lost"}
Timers == {"none", "created", "sleeping", "over", "lost"}
TaskPcs == {"none", "queued", "created", "running", "waiting", "closing", "done"}
RequestPcs == {"none", "waiting", "done", "cancelled"}
Answers == {NoAnswer, PeerRequest} \cup Requests

RegistryShape ==
    /\ all_connections \in [Peers -> Conns \cup {NONE}]
    /\ connection_by_type \in [Peers -> Conns \cup {NONE}]
    /\ banned_peers \subseteq Peers

ConnType == [at : Ats, old : Conns \cup {NONE}, ws : BOOLEAN, close : Closes,
             ban : BOOLEAN, raised : BOOLEAN, nonce : Nonces]

ConnShape == conn \in [Conns -> ConnType]

\* The nonces of a connection are those of its side.
OwnHalf(c) == FirstNonce(c \in Outbound)..LastNonce(c \in Outbound)
NonceInHalf == \A c \in Conns : conn[c].nonce \in OwnHalf(c)

RequestType ==
    [pc : RequestPcs, conn : Conns \cup {NONE}, id : Nonces, event : BOOLEAN,
     answered : BOOLEAN, timer : Timers, result : Answers, by : {0} \cup Tasks]

RequestShape ==
    /\ request \in [Requests -> RequestType]
    /\ \A r \in Requests : request[r].pc # "none" => request[r].conn \in Conns

TableShape ==
    /\ pending_requests \in [Conns -> [Nonces -> {0} \cup Requests]]
    /\ request_results \in [Conns -> [Nonces -> Answers]]

TaskType == [pc : TaskPcs, conn : Conns \cup {NONE}, execute : BOOLEAN]
Active == {"created", "running", "waiting", "closing"}

TaskShape ==
    /\ task \in [Tasks -> TaskType]
    /\ \A t \in Tasks : task[t].pc \in Active \cup {"queued"} => task[t].conn \in Conns
    /\ api_tasks \subseteq Tasks /\ execute_tasks \subseteq Tasks
    /\ tasks_from_peer \in [Peers -> SUBSET Tasks]

Shape ==
    RegistryShape /\ ConnShape /\ NonceInHalf /\ RequestShape /\ TableShape /\ TaskShape

\* A request that waits for a handler is the only one of its kind, and the handler waits
\* for it: when create_request returns, it goes on with a task that is there.
RequestersWait ==
    \A r \in Requests : request[r].pc = "waiting" /\ request[r].by # 0 =>
        /\ task[request[r].by].pc = "waiting"
        /\ \A q \in Requests :
              request[q].pc = "waiting" /\ request[q].by = request[r].by => q = r

\* execute_tasks holds every handler that must run fully from its first step on.
ExecuteTasksKnown ==
    \A t \in Tasks :
        task[t].execute /\ task[t].pc \in {"running", "waiting", "closing"} => t \in execute_tasks

TasksInv == Shape /\ TasksTracked /\ RequestersWait /\ ExecuteTasksKnown

-----------------------------------------------------------------------------
(* The invariant of the requests *)

\* The nonces of one side do not come round.
NoncesNotReused == MaxRequests <= HALF

Made(r) == request[r].pc # "none"

\* Every request has a nonce of its own; while there are requests still to be made, the
\* next nonce is a new one.
IdsDiffer ==
    \A r, q \in Requests :
        Made(r) /\ Made(q) /\ request[r].conn = request[q].conn /\ request[r].id = request[q].id
            => r = q

IdsInHalf == \A r \in Requests : Made(r) => request[r].id \in OwnHalf(request[r].conn)

NextNonceNew ==
    \A m \in Requests : ~Made(m) =>
        /\ \A c \in Conns : conn[c].nonce <= FirstNonce(c \in Outbound) + (m - 1)
        /\ \A r \in Requests : Made(r) => request[r].id < conn[request[r].conn].nonce

\* pending_requests has the event of every request that waits, under its nonce; what else
\* is there belongs to a request that was given up.
PendingMatches ==
    /\ \A r \in Requests : request[r].pc = "waiting" =>
          pending_requests[request[r].conn][request[r].id] = r
    /\ \A c \in Conns, n \in Nonces : pending_requests[c][n] # 0 =>
          LET q == pending_requests[c][n]
          IN  Made(q) /\ request[q].conn = c /\ request[q].id = n

\* request_results has answers of the peer only, each under the nonce of its request.
ResultsMatch ==
    \A c \in Conns, n \in Nonces : request_results[c][n] # NoAnswer =>
        LET a == request_results[c][n]
        IN  a \in Requests /\ Made(a) /\ request[a].conn = c /\ request[a].id = n

RequestsInv ==
    /\ IdsDiffer /\ IdsInHalf /\ NextNonceNew /\ PendingMatches /\ ResultsMatch
    /\ AnswersMatch /\ NoWakeupLost

-----------------------------------------------------------------------------
(* Tasks that end *)

\* Facts about the constants, in the form in which the proofs use them.
LEMMA Constants ==
    /\ HALF \in Nat /\ HALF > 0 /\ MaxRequests \in Nat /\ MaxTasks \in Nat
    /\ NONE \notin Conns
    /\ \A c \in Conns : PeerId[c] \in Peers
    /\ 0 \notin Tasks /\ 0 \notin Requests
BY ServerAssumption DEF Tasks, Requests

\* The finally clause of api_call and the cancellations of connection_closed keep the
\* three tables of tasks in step.
LEMMA TasksEndKeeps ==
    ASSUME TaskShape, TasksTracked, ExecuteTasksKnown, NEW ended \in SUBSET Tasks, TasksEnd(ended)
    PROVE  /\ TaskShape' /\ TasksTracked' /\ ExecuteTasksKnown'
           /\ \A t \in ended : task'[t].pc = "done"
           /\ \A t \in Tasks \ ended : task'[t] = task[t]
<1> DEFINE ran == {t \in ended : task[t].pc # "created"}
<1>1. /\ task' = [t \in Tasks |-> IF t \in ended THEN [NoTask EXCEPT !.pc = "done"] ELSE task[t]]
      /\ api_tasks' = api_tasks \ ran
      /\ tasks_from_peer' = [p \in Peers |-> tasks_from_peer[p] \ ran]
      /\ execute_tasks' = execute_tasks \ ran
    BY DEF TasksEnd
<1>2. ASSUME NEW e, e = [NoTask EXCEPT !.pc = "done"]
      PROVE  e = [pc |-> "done", conn |-> NONE, execute |-> FALSE]
    BY <1>2 DEF NoTask
<1>3. /\ \A t \in ended : task'[t] = [pc |-> "done", conn |-> NONE, execute |-> FALSE]
      /\ \A t \in Tasks \ ended : task'[t] = task[t]
    BY <1>1, <1>2
<1>4. task' \in [Tasks -> TaskType]
    <2>1. [pc |-> "done", conn |-> NONE, execute |-> FALSE] \in TaskType
        BY DEF TaskType, TaskPcs
    <2>2. \A t \in Tasks : task'[t] \in TaskType
        BY <1>3, <2>1 DEF TaskShape
    <2> QED
        BY <1>1, <2>2
<1>5. \A t \in Tasks : task'[t].pc \in Active \cup {"queued"} => task'[t].conn \in Conns
    BY <1>3 DEF TaskShape, Active
<1>6. TaskShape'
    BY <1>1, <1>4, <1>5 DEF TaskShape
<1>7. TasksTracked'
    <2>1. \A p \in Peers : tasks_from_peer'[p] \subseteq api_tasks'
        BY <1>1 DEF TasksTracked
    <2>2. ASSUME NEW t \in Tasks, task'[t].pc \in Active
          PROVE  t \in api_tasks' \cap tasks_from_peer'[PeerId[task'[t].conn]]
        <3>1. t \notin ended
            BY <1>3, <2>2 DEF Active
        <3>2. task'[t] = task[t] /\ t \notin ran
            BY <1>3, <3>1
        <3>3. PeerId[task[t].conn] \in Peers
            BY <2>2, <3>2, Constants DEF TaskShape
        <3>4. t \in api_tasks \cap tasks_from_peer[PeerId[task[t].conn]]
            BY <2>2, <3>2 DEF TasksTracked, Active
        <3> QED
            BY <1>1, <3>2, <3>3, <3>4
    <2>3. ASSUME NEW t \in execute_tasks' PROVE task'[t].pc \in {"running", "waiting", "closing"}
        <3>1. t \in execute_tasks /\ t \notin ran /\ t \in Tasks
            BY <1>1, <2>3 DEF TaskShape
        <3>2. task[t].pc \in {"running", "waiting", "closing"}
            BY <3>1 DEF TasksTracked
        <3>3. t \notin ended
            BY <3>1, <3>2
        <3> QED
            BY <1>3, <3>1, <3>2, <3>3
    <2> QED
        BY <2>1, <2>2, <2>3 DEF TasksTracked, Active
<1>8. ExecuteTasksKnown'
    BY <1>1, <1>3 DEF ExecuteTasksKnown
<1> QED
    BY <1>3, <1>6, <1>7, <1>8

\* What may happen to a request while others go on, connections end and tasks are
\* cancelled: it may be given up, and its timer may end, which sets its event.
GivenUp(old, new) ==
    /\ new \in RequestType
    /\ new.conn = old.conn /\ new.id = old.id /\ new.result = old.result
    /\ new.pc = old.pc \/ (old.pc = "waiting" /\ new.pc = "cancelled")
    /\ new.pc = "waiting" =>
          /\ new.by = old.by
          /\ old.event => new.event
          /\ new.timer = "over" => new.event \/ old.timer = "over"

\* A request that nothing happens to.
LEMMA SameRequest == ASSUME NEW old \in RequestType PROVE GivenUp(old, old)
BY DEF GivenUp

\* Cancelled: the coroutine is gone.
LEMMA CancelledRequest ==
    ASSUME NEW old \in RequestType, NEW new, GivenUp(old, new), old.pc = "waiting"
    PROVE  GivenUp(old, Cancelled(new)) /\ Cancelled(new).pc = "cancelled"
<1>1. new \in RequestType
    BY DEF GivenUp
<1>2. /\ Cancelled(new) \in RequestType
      /\ Cancelled(new).pc = "cancelled" /\ Cancelled(new).conn = new.conn
      /\ Cancelled(new).id = new.id /\ Cancelled(new).result = new.result
    BY <1>1 DEF Cancelled, RequestType, RequestPcs
<1> QED
    BY <1>2 DEF GivenUp

\* cancel_pending_timeouts sets the event of a request that waits, unless its timer has
\* not begun.
LEMMA TimerCancelled ==
    ASSUME NEW r \in Requests, request[r] \in RequestType
    PROVE  GivenUp(request[r], CancelledTimer(r)) /\ CancelledTimer(r).pc = request[r].pc
<1>1. CASE request[r].timer = "sleeping"
    <2> DEFINE set == request[r].pc = "waiting"
    <2>1. set \in BOOLEAN
        OBVIOUS
    <2>2. CancelledTimer(r) = [request[r] EXCEPT !.timer = "over", !.event = set]
        BY <1>1 DEF CancelledTimer
    <2>3. request[r].pc = "waiting" => set
        OBVIOUS
    <2> HIDE DEF set
    <2> QED
        BY <2>1, <2>2, <2>3 DEF GivenUp, RequestType, Timers
<1>2. CASE request[r].timer = "created"
    BY <1>2 DEF CancelledTimer, GivenUp, RequestType, Timers
<1>3. CASE request[r].timer \notin {"sleeping", "created"}
    BY <1>3, SameRequest DEF CancelledTimer
<1> QED
    BY <1>1, <1>2, <1>3

\* The requests, tables and nonces after a step that makes, answers and ends no request.
Quiet ==
    /\ request' \in [Requests -> RequestType]
    /\ \A r \in Requests : GivenUp(request[r], request'[r])
    /\ UNCHANGED tables
    /\ \A c \in Conns : conn'[c].nonce = conn[c].nonce

\* A handler that waits goes on waiting unless its request is given up.
LEMMA RequestersKept ==
    ASSUME RequestShape, RequestersWait, Quiet,
           \A r \in Requests :
              request'[r].pc = "waiting" /\ request'[r].by # 0
                 => task'[request'[r].by].pc = task[request'[r].by].pc
    PROVE  RequestersWait'
<1>1. \A r \in Requests : request'[r].pc = "waiting" =>
         request[r].pc = "waiting" /\ request'[r].by = request[r].by
    BY DEF Quiet, GivenUp
<1> QED
    BY <1>1 DEF RequestersWait

\* The shape of requests, tables and nonces after a quiet step.
LEMMA QuietShape ==
    ASSUME RequestShape, TableShape, NonceInHalf, Quiet
    PROVE  RequestShape' /\ TableShape' /\ NonceInHalf'
<1>1. RequestShape'
    BY DEF RequestShape, Quiet, GivenUp
<1>2. TableShape'
    BY DEF TableShape, Quiet, tables
<1>3. NonceInHalf'
    BY DEF NonceInHalf, Quiet, OwnHalf
<1> QED
    BY <1>1, <1>2, <1>3

-----------------------------------------------------------------------------
(* close() *)

\* What the end of a connection leaves of the node's state.
Closed ==
    RegistryShape' /\ ConnShape' /\ Quiet /\ TaskShape' /\ TasksTracked' /\ ExecuteTasksKnown'
    /\ RequestersWait'

\* The end of close() keeps everything in shape: the requests of the tasks that end are
\* given up, and no other task is touched.
LEMMA CloseFinishesKeeps ==
    ASSUME TasksInv, NEW c \in Conns, NEW ban \in BOOLEAN, NEW cancels \in BOOLEAN,
           NEW ends \in SUBSET Tasks, CloseFinishes(c, ban, cancels, ends)
    PROVE  Closed
<1> DEFINE ended == CancelledTasks(PeerId[c]) \cup ends \cup {t \in Tasks : CloserOf(t, c)}
           after(r) == IF cancels /\ request[r].conn = c THEN CancelledTimer(r) ELSE request[r]
<1> USE DEF TasksInv, Shape
<1>1. PeerId[c] \in Peers /\ 0 \notin Tasks
    BY Constants
<1>2. ended \in SUBSET Tasks
    BY <1>1 DEF CancelledTasks, TaskShape
<1>3. /\ conn' = [d \in Conns |->
            IF d = c THEN [conn[c] EXCEPT !.close = "closed", !.ban = FALSE, !.ws = FALSE,
                                          !.raised = ~cancels /\ \E e \in Conns : conn[e].old = c]
            ELSE IF \E t \in ended : CloserOf(t, d) THEN [conn[d] EXCEPT !.close = "lost"]
            ELSE conn[d]]
      /\ request' = [r \in Requests |->
            IF Abandoned(r, ended) THEN Cancelled(after(r)) ELSE after(r)]
      /\ TasksEnd(ended)
      /\ all_connections' = [all_connections EXCEPT ![PeerId[c]] = NONE]
      /\ connection_by_type' = IF conn[c].at = "handshake" THEN connection_by_type
                               ELSE [connection_by_type EXCEPT ![PeerId[c]] = NONE]
      /\ banned_peers' = IF ban THEN banned_peers \cup {PeerId[c]} ELSE banned_peers
      /\ UNCHANGED tables
    BY DEF CloseFinishes
<1> HIDE DEF ended
<1>4. RegistryShape'
    BY <1>1, <1>3 DEF RegistryShape
<1>5. ConnShape' /\ \A d \in Conns : conn'[d].nonce = conn[d].nonce
    <2> DEFINE raised == ~cancels /\ \E e \in Conns : conn[e].old = c
               lost(d) == \E t \in ended : CloserOf(t, d)
    <2>1. raised \in BOOLEAN
        OBVIOUS
    <2>2. conn' = [d \in Conns |->
            IF d = c THEN [conn[c] EXCEPT !.close = "closed", !.ban = FALSE, !.ws = FALSE,
                                          !.raised = raised]
            ELSE IF lost(d) THEN [conn[d] EXCEPT !.close = "lost"] ELSE conn[d]]
        BY <1>3
    <2> HIDE DEF raised, lost
    <2>3. ASSUME NEW d \in Conns PROVE conn'[d] \in ConnType /\ conn'[d].nonce = conn[d].nonce
        <3>1. conn[d] \in ConnType /\ conn[c] \in ConnType
            BY DEF ConnShape
        <3> QED
            BY <2>1, <2>2, <3>1 DEF ConnType, Closes
    <2> QED
        BY <2>2, <2>3 DEF ConnShape
<1>6. \A r \in Requests : request[r] \in RequestType
    BY DEF RequestShape
<1>7. ASSUME NEW r \in Requests PROVE GivenUp(request[r], after(r)) /\ after(r).pc = request[r].pc
    BY <1>6, SameRequest, TimerCancelled
<1> HIDE DEF after
<1>8. ASSUME NEW r \in Requests
      PROVE  /\ GivenUp(request[r], request'[r])
             /\ request'[r].pc = "waiting" => ~Abandoned(r, ended)
    <2>1. CASE Abandoned(r, ended)
        <3>1. request'[r] = Cancelled(after(r))
            BY <1>3, <2>1
        <3>2. request[r].pc = "waiting"
            BY <2>1 DEF Abandoned
        <3> QED
            BY <1>6, <1>7, <3>1, <3>2, CancelledRequest
    <2>2. CASE ~Abandoned(r, ended)
        BY <1>3, <1>7, <2>2
    <2> QED
        BY <2>1, <2>2
<1>9. Quiet
    <2>1. request' \in [Requests -> RequestType]
        <3>1. \A r \in Requests : request'[r] \in RequestType
            BY <1>8 DEF GivenUp
        <3> QED
            BY <1>3, <3>1
    <2> QED
        BY <1>3, <1>5, <1>8, <2>1 DEF Quiet
<1>10. /\ TaskShape' /\ TasksTracked' /\ ExecuteTasksKnown'
       /\ \A t \in Tasks \ ended : task'[t] = task[t]
    BY <1>2, <1>3, TasksEndKeeps
<1>11. RequestersWait'
    <2>1. ASSUME NEW r \in Requests, request'[r].pc = "waiting", request'[r].by # 0
          PROVE  task'[request'[r].by].pc = task[request'[r].by].pc
        <3>1. request[r].pc = "waiting" /\ request'[r].by = request[r].by
            BY <1>8, <2>1 DEF GivenUp
        <3>2. request[r].by \notin ended
            BY <1>8, <2>1, <3>1 DEF Abandoned
        <3>3. request[r].by \in Tasks
            BY <1>6, <2>1, <3>1 DEF RequestType
        <3> QED
            BY <1>10, <3>1, <3>2, <3>3
    <2> QED
        BY <1>9, <2>1, RequestersKept
<1> QED
    BY <1>4, <1>5, <1>9, <1>10, <1>11 DEF Closed

\* The requests of tasks that are gone are given up.
LEMMA AbandonKeeps ==
    ASSUME RequestShape, NEW ended \in SUBSET Tasks,
           request' = [r \in Requests |->
              IF Abandoned(r, ended) THEN Cancelled(request[r]) ELSE request[r]]
    PROVE  /\ request' \in [Requests -> RequestType]
           /\ \A r \in Requests :
                 /\ GivenUp(request[r], request'[r])
                 /\ request'[r].pc = "waiting" => ~Abandoned(r, ended)
<1>1. ASSUME NEW r \in Requests
      PROVE  /\ GivenUp(request[r], request'[r])
             /\ request'[r].pc = "waiting" => ~Abandoned(r, ended)
    <2>1. request[r] \in RequestType /\ GivenUp(request[r], request[r])
        BY SameRequest DEF RequestShape
    <2>2. CASE Abandoned(r, ended)
        <3>1. request'[r] = Cancelled(request[r]) /\ request[r].pc = "waiting"
            BY <2>2 DEF Abandoned
        <3> QED
            BY <2>1, <3>1, CancelledRequest
    <2>3. CASE ~Abandoned(r, ended)
        BY <2>1, <2>3
    <2> QED
        BY <2>2, <2>3
<1>2. \A r \in Requests : request'[r] \in RequestType
    BY <1>1 DEF GivenUp
<1> QED
    BY <1>1, <1>2

\* close(), by a handler that has failed or by another coroutine of the node.
LEMMA CloseKeeps ==
    ASSUME TasksInv, NEW c \in Conns, NEW ban \in BOOLEAN, NEW by \in SUBSET Tasks,
           \A t \in by : task[t].pc \in {"running", "waiting"},
           Close(c, ban, by)
    PROVE  Closed
<1> USE DEF TasksInv, Shape
<1>1. CASE CloseFinishes(c, ban, TRUE, by)
    BY <1>1, CloseFinishesKeeps
<1>2. CASE /\ conn' = [conn EXCEPT ![c].close = "closing", ![c].ban = ban]
           /\ request' = [r \in Requests |->
                 IF Abandoned(r, by) THEN Cancelled(request[r]) ELSE request[r]]
           /\ task' = [t \in Tasks |->
                 IF t \in by THEN [task[t] EXCEPT !.pc = "closing"] ELSE task[t]]
           /\ UNCHANGED <<registry, tables, api_tasks, tasks_from_peer, execute_tasks>>
    <2>1. RegistryShape'
        BY <1>2 DEF RegistryShape, registry
    <2>2. ConnShape' /\ \A d \in Conns : conn'[d].nonce = conn[d].nonce
        <3>1. conn[c] \in ConnType
            BY DEF ConnShape
        <3>2. [conn[c] EXCEPT !.close = "closing", !.ban = ban] \in ConnType
            BY <3>1 DEF ConnType, Closes
        <3>3. conn' = [conn EXCEPT ![c] = [conn[c] EXCEPT !.close = "closing", !.ban = ban]]
            BY <1>2 DEF ConnShape
        <3> QED
            BY <3>1, <3>2, <3>3 DEF ConnShape, ConnType
    <2>3. /\ request' \in [Requests -> RequestType]
          /\ \A r \in Requests : GivenUp(request[r], request'[r])
          /\ \A r \in Requests : request'[r].pc = "waiting" => ~Abandoned(r, by)
        BY <1>2, AbandonKeeps
    <2>4. Quiet
        BY <1>2, <2>2, <2>3 DEF Quiet
    <2>5. \A t \in Tasks :
             /\ t \in by => /\ task'[t].pc = "closing" /\ task'[t].conn = task[t].conn
                            /\ task'[t].execute = task[t].execute
             /\ t \notin by => task'[t] = task[t]
        BY <1>2 DEF TaskShape, TaskType
    <2>6. task' \in [Tasks -> TaskType]
        BY <1>2 DEF TaskShape, TaskType, TaskPcs
    <2>7. UNCHANGED <<api_tasks, tasks_from_peer, execute_tasks>>
        BY <1>2
    <2>8. TaskShape'
        BY <2>5, <2>6, <2>7 DEF TaskShape, Active
    <2>9. TasksTracked'
        BY <2>5, <2>7 DEF TasksTracked, TaskShape
    <2>10. ExecuteTasksKnown'
        BY <2>5, <2>7 DEF ExecuteTasksKnown
    <2>11. RequestersWait'
        <3>1. ASSUME NEW r \in Requests, request'[r].pc = "waiting", request'[r].by # 0
              PROVE  task'[request'[r].by].pc = task[request'[r].by].pc
            <4>1. request[r].pc = "waiting" /\ request'[r].by = request[r].by
                BY <2>3, <3>1 DEF GivenUp
            <4>2. request[r].by \notin by
                BY <2>3, <3>1, <4>1 DEF Abandoned
            <4>3. request[r].by \in Tasks
                BY <3>1, <4>1 DEF RequestShape, RequestType
            <4> QED
                BY <2>5, <4>1, <4>2, <4>3
        <3> QED
            BY <2>4, <3>1, RequestersKept
    <2> QED
        BY <2>1, <2>2, <2>4, <2>8, <2>9, <2>10, <2>11 DEF Closed
<1> QED
    BY <1>1, <1>2 DEF Close

-----------------------------------------------------------------------------
(* Every step keeps the tasks tracked *)

\* A step that touches neither requests nor tasks: setting up and breaking connections.
LEMMA OnlyConnections ==
    ASSUME TasksInv, RegistryShape', ConnShape', UNCHANGED <<request, tables, calls>>,
           \A c \in Conns : conn'[c].nonce = conn[c].nonce
    PROVE  TasksInv' /\ Quiet
<1> USE DEF TasksInv, Shape, calls
<1>1. Quiet
    BY SameRequest DEF Quiet, RequestShape
<1>2. RequestShape' /\ TableShape' /\ NonceInHalf'
    BY <1>1, QuietShape
<1>3. TaskShape'
    BY DEF TaskShape
<1>4. TasksTracked' /\ ExecuteTasksKnown' /\ RequestersWait'
    BY DEF TasksTracked, ExecuteTasksKnown, RequestersWait
<1> QED
    BY <1>1, <1>2, <1>3, <1>4

\* Two changes of a connection, and one to another connection as well.
LEMMA ConnChanges ==
    ASSUME ConnShape, NEW c \in Conns, NEW at \in Ats, NEW ws \in BOOLEAN,
           NEW old \in Conns \cup {NONE}
    PROVE  /\ [conn[c] EXCEPT !.at = at] \in ConnType
           /\ [conn[c] EXCEPT !.ws = ws] \in ConnType
           /\ [conn[c] EXCEPT !.at = at, !.old = old] \in ConnType
           /\ [conn[c] EXCEPT !.close = "closing"] \in ConnType
           /\ [conn[c] EXCEPT !.at = at].nonce = conn[c].nonce
           /\ [conn[c] EXCEPT !.ws = ws].nonce = conn[c].nonce
           /\ [conn[c] EXCEPT !.at = at, !.old = old].nonce = conn[c].nonce
           /\ [conn[c] EXCEPT !.close = "closing"].nonce = conn[c].nonce
<1>1. conn[c] \in ConnType
    BY DEF ConnShape
<1> QED
    BY <1>1 DEF ConnType, Closes

\* Replacing the record of one connection by one with the same nonce.
LEMMA OneConnChanges ==
    ASSUME NEW f \in [Conns -> ConnType], NEW c \in Conns, NEW e \in ConnType,
           e.nonce = f[c].nonce
    PROVE  /\ [f EXCEPT ![c] = e] \in [Conns -> ConnType]
           /\ \A d \in Conns : [f EXCEPT ![c] = e][d].nonce = f[d].nonce
OBVIOUS

\* Connections that are set up, from the handshake to connection_added.
LEMMA SetupKeeps ==
    ASSUME TasksInv, NEW c \in Conns, Setup(c)
    PROVE  TasksInv' /\ Quiet
<1> USE DEF TasksInv, Shape
<1>0. PeerId[c] \in Peers /\ NONE \notin Conns
    BY Constants
<1>1. ASSUME NEW at \in Ats, conn' = [conn EXCEPT ![c].at = at]
      PROVE  ConnShape' /\ \A d \in Conns : conn'[d].nonce = conn[d].nonce
    <2>1. conn' = [conn EXCEPT ![c] = [conn[c] EXCEPT !.at = at]]
        BY <1>1 DEF ConnShape
    <2> QED
        BY <2>1, ConnChanges DEF ConnShape
<1>2. CASE Connect(c) \/ HandshakeDone(c)
    <2>1. /\ UNCHANGED <<registry, request, tables, calls>>
          /\ \E at \in Ats : conn' = [conn EXCEPT ![c].at = at]
        BY <1>2 DEF Connect, HandshakeDone, Ats
    <2>2. RegistryShape'
        BY <2>1 DEF RegistryShape, registry
    <2> QED
        BY <1>1, <2>1, <2>2, OnlyConnections
<1>3. CASE AddConnection(c)
    <2>1. /\ UNCHANGED <<banned_peers, request, tables, calls>> /\ Listed(c)
          /\ \E at \in Ats : conn' = [conn EXCEPT ![c].at = at]
        BY <1>3 DEF AddConnection, Ats
    <2>2. RegistryShape'
        BY <1>0, <2>1 DEF RegistryShape, Listed
    <2> QED
        BY <1>1, <2>1, <2>2, OnlyConnections
<1>4. CASE AddReplacement(c)
    <2>1. /\ UNCHANGED <<banned_peers, request, tables, calls>> /\ Listed(c)
          /\ conn' = [conn EXCEPT ![c].at = "added", ![c].old = NONE]
        BY <1>4 DEF AddReplacement
    <2>2. conn' = [conn EXCEPT ![c] = [conn[c] EXCEPT !.at = "added", !.old = NONE]]
        BY <2>1 DEF ConnShape
    <2>3. LET e == [conn[c] EXCEPT !.at = "added", !.old = NONE]
          IN  e \in ConnType /\ e.nonce = conn[c].nonce
        BY ConnChanges DEF Ats
    <2>4. ConnShape' /\ \A d \in Conns : conn'[d].nonce = conn[d].nonce
        BY <2>2, <2>3, OneConnChanges DEF ConnShape
    <2>5. RegistryShape'
        BY <1>0, <2>1 DEF RegistryShape, Listed
    <2> QED
        BY <2>1, <2>4, <2>5, OnlyConnections
<1>5. CASE ReplaceConnection(c)
    <2> DEFINE old == all_connections[PeerId[c]]
               mid == [conn EXCEPT ![c] = [conn[c] EXCEPT !.at = "adding", !.old = old]]
    <2>1. /\ UNCHANGED <<registry, request, tables, calls>> /\ old # NONE
          /\ conn' = [conn EXCEPT ![c].at = "adding", ![c].old = old, ![old].close = "closing"]
        BY <1>5 DEF ReplaceConnection
    <2>2. old \in Conns
        BY <1>0, <2>1 DEF RegistryShape
    <2>3. conn' = [mid EXCEPT ![old] = [mid[old] EXCEPT !.close = "closing"]]
        BY <2>1, <2>2 DEF ConnShape
    <2>4. /\ mid \in [Conns -> ConnType]
          /\ \A d \in Conns : mid[d].nonce = conn[d].nonce
        <3>1. LET e == [conn[c] EXCEPT !.at = "adding", !.old = old]
              IN  e \in ConnType /\ e.nonce = conn[c].nonce
            BY <2>2, ConnChanges DEF Ats
        <3> QED
            BY <3>1, OneConnChanges DEF ConnShape
    <2>5. mid[old] \in ConnType
        BY <2>2, <2>4
    <2>6. /\ [mid[old] EXCEPT !.close = "closing"] \in ConnType
          /\ [mid[old] EXCEPT !.close = "closing"].nonce = mid[old].nonce
        BY <2>5 DEF ConnType, Closes
    <2> HIDE DEF mid, old
    <2>7. ConnShape' /\ \A d \in Conns : conn'[d].nonce = conn[d].nonce
        BY <2>2, <2>3, <2>4, <2>6 DEF ConnShape
    <2>8. RegistryShape'
        BY <2>1 DEF RegistryShape, registry
    <2> QED
        BY <2>1, <2>7, <2>8, OnlyConnections
<1>6. CASE HandshakeFails(c) \/ RefuseInbound(c) \/ ReplacementFails(c)
    <2>1. \E ban \in BOOLEAN : Close(c, ban, {})
        BY <1>6 DEF HandshakeFails, RefuseInbound, ReplacementFails
    <2>2. Closed
        BY <2>1, CloseKeeps
    <2> QED
        BY <2>2, QuietShape DEF Closed
<1> QED
    BY <1>2, <1>3, <1>4, <1>5, <1>6 DEF Setup

\* Sockets that break, connections that end, bans that run out.
LEMMA EndingsKeep ==
    ASSUME TasksInv,
           \/ \E c \in Conns : SocketBreaks(c) \/ ConnectionCloses(c) \/ CloseEnds(c)
           \/ \E p \in Peers : BanExpires(p)
    PROVE  TasksInv' /\ Quiet
<1> USE DEF TasksInv, Shape
<1>1. ASSUME NEW c \in Conns, SocketBreaks(c) PROVE TasksInv' /\ Quiet
    <2>1. UNCHANGED <<registry, request, tables, calls>> /\ conn' = [conn EXCEPT ![c].ws = FALSE]
        BY <1>1 DEF SocketBreaks
    <2>2. conn' = [conn EXCEPT ![c] = [conn[c] EXCEPT !.ws = FALSE]]
        BY <2>1 DEF ConnShape
    <2>3. LET e == [conn[c] EXCEPT !.ws = FALSE]
          IN  e \in ConnType /\ e.nonce = conn[c].nonce
        BY DEF ConnShape, ConnType
    <2>4. ConnShape' /\ \A d \in Conns : conn'[d].nonce = conn[d].nonce
        BY <2>2, <2>3, OneConnChanges DEF ConnShape
    <2>5. RegistryShape'
        BY <2>1 DEF RegistryShape, registry
    <2> QED
        BY <2>1, <2>4, <2>5, OnlyConnections
<1>2. ASSUME NEW c \in Conns, ConnectionCloses(c) \/ CloseEnds(c) PROVE TasksInv' /\ Quiet
    <2>1. conn[c].ban \in BOOLEAN
        BY DEF ConnShape, ConnType
    <2>2. Closed
        BY <1>2, <2>1, CloseKeeps, CloseFinishesKeeps DEF ConnectionCloses, CloseEnds
    <2> QED
        BY <2>2, QuietShape DEF Closed
<1>3. ASSUME NEW p \in Peers, BanExpires(p) PROVE TasksInv' /\ Quiet
    <2>1. /\ banned_peers' = banned_peers \ {p}
          /\ UNCHANGED <<all_connections, connection_by_type, conn, request, tables, calls>>
        BY <1>3 DEF BanExpires
    <2>2. RegistryShape' /\ ConnShape' /\ \A d \in Conns : conn'[d].nonce = conn[d].nonce
        BY <2>1 DEF RegistryShape, ConnShape
    <2> QED
        BY <2>1, <2>2, OnlyConnections
<1> QED
    BY <1>1, <1>2, <1>3

\* A step that changes neither the caller nor the state of a request, and lets the
\* handlers that wait go on waiting.
LEMMA CallersKept ==
    ASSUME RequestShape, RequestersWait, request' \in [Requests -> RequestType],
           \A r \in Requests : /\ request'[r].pc = request[r].pc
                               /\ request'[r].conn = request[r].conn
                               /\ request'[r].by = request[r].by,
           \A t \in Tasks : task[t].pc = "waiting" => task'[t].pc = "waiting"
    PROVE  RequestShape' /\ RequestersWait'
<1>1. RequestShape'
    BY DEF RequestShape
<1>2. \A r \in Requests : request[r].by # 0 => request[r].by \in Tasks
    BY DEF RequestShape, RequestType
<1>3. RequestersWait'
    BY <1>2 DEF RequestersWait
<1> QED
    BY <1>1, <1>3

\* The timer task of a request begins.
LEMMA TimerStartsKeeps ==
    ASSUME TasksInv, NEW r \in Requests, TimerStarts(r)
    PROVE  TasksInv' /\ Quiet
<1> USE DEF TasksInv, Shape
<1>1. /\ request' = [request EXCEPT ![r].timer = "sleeping"]
      /\ UNCHANGED <<registry, conn, tables, calls>>
    BY DEF TimerStarts
<1>2. request[r] \in RequestType /\ request \in [Requests -> RequestType]
    BY DEF RequestShape
<1>3. /\ [request[r] EXCEPT !.timer = "sleeping"] \in RequestType
      /\ GivenUp(request[r], [request[r] EXCEPT !.timer = "sleeping"])
    BY <1>2 DEF GivenUp, RequestType, Timers
<1>4. request' = [request EXCEPT ![r] = [request[r] EXCEPT !.timer = "sleeping"]]
    BY <1>1, <1>2
<1>5. ASSUME NEW s \in Requests PROVE GivenUp(request[s], request'[s])
    BY <1>2, <1>3, <1>4, SameRequest
<1>6. Quiet
    BY <1>1, <1>2, <1>3, <1>4, <1>5 DEF Quiet
<1>7. RequestShape' /\ TableShape' /\ NonceInHalf'
    BY <1>6, QuietShape
<1>8. RequestersWait'
    BY <1>1, <1>6, RequestersKept DEF calls
<1>9. RegistryShape' /\ ConnShape' /\ TaskShape'
    BY <1>1 DEF RegistryShape, ConnShape, TaskShape, registry, calls
<1>10. TasksTracked' /\ ExecuteTasksKnown'
    BY <1>1 DEF TasksTracked, ExecuteTasksKnown, calls
<1> QED
    BY <1>6, <1>7, <1>8, <1>9, <1>10

\* What time_out does to the requests.
LEMMA TimerEndsDoes ==
    ASSUME RequestShape, NEW r \in Requests, TimerEnds(r)
    PROVE  LET q == pending_requests[request[r].conn][request[r].id] IN
           /\ request' \in [Requests -> RequestType]
           /\ \A s \in Requests :
                 /\ request'[s].pc = request[s].pc /\ request'[s].conn = request[s].conn
                 /\ request'[s].id = request[s].id /\ request'[s].by = request[s].by
                 /\ request'[s].result = request[s].result
                 /\ request'[s].timer = IF s = r THEN "over" ELSE request[s].timer
                 /\ request[s].event => request'[s].event
                 /\ s = q /\ request[s].pc = "waiting" => request'[s].event
<1> DEFINE q == pending_requests[request[r].conn][request[r].id]
           ev(s) == request[s].event \/ Woken(s, q)
           tm(s) == IF s = r THEN "over" ELSE request[s].timer
<1>1. request' = [s \in Requests |-> [request[s] EXCEPT !.timer = tm(s), !.event = ev(s)]]
    BY DEF TimerEnds
<1>2. ASSUME NEW s \in Requests
      PROVE  ev(s) \in BOOLEAN /\ tm(s) \in Timers /\ request[s] \in RequestType
    BY DEF RequestShape, RequestType, Timers, Woken
<1>3. ASSUME NEW s \in Requests
      PROVE  /\ request[s].event => ev(s)
             /\ s = q /\ request[s].pc = "waiting" => ev(s)
             /\ tm(s) = IF s = r THEN "over" ELSE request[s].timer
    BY DEF Woken
<1> HIDE DEF q, ev, tm
<1>4. ASSUME NEW s \in Requests
      PROVE  /\ request'[s] \in RequestType
             /\ request'[s].pc = request[s].pc /\ request'[s].conn = request[s].conn
             /\ request'[s].id = request[s].id /\ request'[s].by = request[s].by
             /\ request'[s].result = request[s].result
             /\ request'[s].timer = tm(s) /\ request'[s].event = ev(s)
    <2>1. request'[s] = [request[s] EXCEPT !.timer = tm(s), !.event = ev(s)]
        BY <1>1
    <2> QED
        BY <1>2, <2>1 DEF RequestType
<1>5. request' \in [Requests -> RequestType]
    BY <1>1, <1>4
<1>6. ASSUME NEW s \in Requests
      PROVE  /\ request'[s].timer = IF s = r THEN "over" ELSE request[s].timer
             /\ request[s].event => request'[s].event
             /\ s = q /\ request[s].pc = "waiting" => request'[s].event
    BY <1>3, <1>4
<1> QED
    BY <1>4, <1>5, <1>6 DEF q

\* The timeout of a request.
LEMMA TimerEndsKeeps ==
    ASSUME TasksInv, NEW r \in Requests, TimerEnds(r)
    PROVE  TasksInv'
<1> USE DEF TasksInv, Shape
<1>1. UNCHANGED <<registry, conn, tables, calls>>
    BY DEF TimerEnds
<1>2. RequestShape' /\ RequestersWait'
    BY <1>1, TimerEndsDoes, CallersKept DEF calls
<1>3. RegistryShape' /\ ConnShape' /\ NonceInHalf' /\ TableShape' /\ TaskShape'
    BY <1>1 DEF RegistryShape, ConnShape, NonceInHalf, TableShape, TaskShape, OwnHalf,
                registry, tables, calls
<1>4. TasksTracked' /\ ExecuteTasksKnown'
    BY <1>1 DEF TasksTracked, ExecuteTasksKnown, calls
<1> QED
    BY <1>2, <1>3, <1>4

\* What inbound_handler does with a message: it is the answer to the request that is
\* pending under its id, or it becomes a new task.
Answered(c, id, what) ==
    /\ pending_requests[c][id] # 0
    /\ request_results' = [request_results EXCEPT ![c][id] = what]
    /\ \A s \in Requests :
          s = pending_requests[c][id] /\ request[s].pc = "waiting" => request'[s].event
    /\ UNCHANGED task

Queued(c, id) == pending_requests[c][id] = 0 /\ NewTask(c) /\ UNCHANGED request_results

\* A message answers the request that waits under its id, or gets a task of its own.
LEMMA ReadMessageDoes ==
    ASSUME RequestShape, NEW c \in Conns, NEW id \in Nonces, NEW what \in Answers,
           ReadMessage(c, id, what)
    PROVE  /\ request' \in [Requests -> RequestType]
           /\ \A s \in Requests :
                 /\ request'[s].pc = request[s].pc /\ request'[s].conn = request[s].conn
                 /\ request'[s].id = request[s].id /\ request'[s].by = request[s].by
                 /\ request'[s].result = request[s].result
                 /\ request'[s].timer = request[s].timer
                 /\ request[s].event => request'[s].event
           /\ Answered(c, id, what) \/ Queued(c, id)
           /\ UNCHANGED <<registry, conn, pending_requests, api_tasks, tasks_from_peer, execute_tasks>>
<1> DEFINE q == pending_requests[c][id]
           an(s) == request[s].answered \/ s = what
           ev(s) == request[s].event \/ Woken(s, q)
<1>1. ASSUME NEW s \in Requests
      PROVE  /\ an(s) \in BOOLEAN /\ ev(s) \in BOOLEAN /\ request[s] \in RequestType
             /\ request[s].event => ev(s)
             /\ s = q /\ request[s].pc = "waiting" => ev(s)
    BY DEF RequestShape, RequestType, Woken
<1>2. UNCHANGED <<registry, conn, pending_requests, api_tasks, tasks_from_peer, execute_tasks>>
    BY DEF ReadMessage
<1>3. \/ /\ q # 0
         /\ request_results' = [request_results EXCEPT ![c][id] = what]
         /\ request' = [s \in Requests |->
                [request[s] EXCEPT !.event = ev(s), !.answered = an(s)]]
         /\ UNCHANGED task
      \/ /\ Queued(c, id)
         /\ request' = [s \in Requests |-> [request[s] EXCEPT !.answered = an(s)]]
    BY DEF ReadMessage, Queued
<1> HIDE DEF an, ev
<1>4. CASE /\ q # 0
           /\ request_results' = [request_results EXCEPT ![c][id] = what]
           /\ request' = [s \in Requests |->
                  [request[s] EXCEPT !.event = ev(s), !.answered = an(s)]]
           /\ UNCHANGED task
    <2>1. ASSUME NEW s \in Requests
          PROVE  /\ request'[s] \in RequestType
                 /\ request'[s].pc = request[s].pc /\ request'[s].conn = request[s].conn
                 /\ request'[s].id = request[s].id /\ request'[s].by = request[s].by
                 /\ request'[s].result = request[s].result
                 /\ request'[s].timer = request[s].timer
                 /\ request'[s].event = ev(s)
        <3>1. request'[s] = [request[s] EXCEPT !.event = ev(s), !.answered = an(s)]
            BY <1>4
        <3> QED
            BY <1>1, <3>1 DEF RequestType
    <2>2. Answered(c, id, what)
        BY <1>1, <1>4, <2>1 DEF Answered
    <2>3. request' \in [Requests -> RequestType]
        BY <1>4, <2>1
    <2> QED
        BY <1>1, <1>2, <2>1, <2>2, <2>3
<1>5. CASE /\ Queued(c, id)
           /\ request' = [s \in Requests |-> [request[s] EXCEPT !.answered = an(s)]]
    <2>1. ASSUME NEW s \in Requests
          PROVE  /\ request'[s] \in RequestType
                 /\ request'[s].pc = request[s].pc /\ request'[s].conn = request[s].conn
                 /\ request'[s].id = request[s].id /\ request'[s].by = request[s].by
                 /\ request'[s].result = request[s].result
                 /\ request'[s].timer = request[s].timer
                 /\ request'[s].event = request[s].event
        <3>1. request'[s] = [request[s] EXCEPT !.answered = an(s)]
            BY <1>5
        <3> QED
            BY <1>1, <3>1 DEF RequestType
    <2>2. request' \in [Requests -> RequestType]
        BY <1>5, <2>1
    <2> QED
        BY <1>2, <1>5, <2>1, <2>2
<1> QED
    BY <1>3, <1>4, <1>5

\* A message that waits in the queue of the server is no task yet.
LEMMA NewTaskKeeps ==
    ASSUME TaskShape, TasksTracked, ExecuteTasksKnown, NEW c \in Conns, NewTask(c),
           UNCHANGED <<api_tasks, tasks_from_peer, execute_tasks>>
    PROVE  /\ TaskShape' /\ TasksTracked' /\ ExecuteTasksKnown'
           /\ \A t \in Tasks : task[t].pc # "none" => task'[t] = task[t]
<1>1. PICK t \in Tasks, execute \in BOOLEAN :
         /\ task[t].pc = "none"
         /\ task' = [task EXCEPT ![t] = [pc |-> "queued", conn |-> c, execute |-> execute]]
    BY DEF NewTask
<1>2. /\ task'[t] = [pc |-> "queued", conn |-> c, execute |-> execute]
      /\ \A u \in Tasks : u # t => task'[u] = task[u]
    BY <1>1 DEF TaskShape
<1>3. [pc |-> "queued", conn |-> c, execute |-> execute] \in TaskType
    BY DEF TaskType, TaskPcs
<1>4. TaskShape'
    BY <1>1, <1>2, <1>3 DEF TaskShape
<1>5. TasksTracked'
    BY <1>1, <1>2 DEF TasksTracked, TaskShape
<1>6. ExecuteTasksKnown'
    BY <1>2 DEF ExecuteTasksKnown
<1> QED
    BY <1>1, <1>2, <1>4, <1>5, <1>6

\* A message is read.
LEMMA ReadMessageKeeps ==
    ASSUME TasksInv, NEW c \in Conns, NEW id \in Nonces, NEW what \in Answers,
           ReadMessage(c, id, what)
    PROVE  TasksInv'
<1> USE DEF TasksInv, Shape
<1>1. UNCHANGED <<registry, conn, pending_requests, api_tasks, tasks_from_peer, execute_tasks>>
    BY ReadMessageDoes
<1>2. /\ TaskShape' /\ TasksTracked' /\ ExecuteTasksKnown' /\ TableShape'
      /\ \A t \in Tasks : task[t].pc = "waiting" => task'[t].pc = "waiting"
    <2>1. CASE Answered(c, id, what)
        <3>1. TaskShape' /\ TasksTracked' /\ ExecuteTasksKnown'
            BY <1>1, <2>1 DEF Answered, TaskShape, TasksTracked, ExecuteTasksKnown
        <3>2. TableShape'
            BY <1>1, <2>1 DEF Answered, TableShape
        <3> QED
            BY <2>1, <3>1, <3>2 DEF Answered
    <2>2. CASE Queued(c, id)
        BY <1>1, <2>2, NewTaskKeeps DEF Queued, TableShape
    <2> QED
        BY <2>1, <2>2, ReadMessageDoes
<1>3. RequestShape' /\ RequestersWait'
    BY <1>2, ReadMessageDoes, CallersKept
<1>4. RegistryShape' /\ ConnShape' /\ NonceInHalf'
    BY <1>1 DEF RegistryShape, ConnShape, NonceInHalf, OwnHalf, registry
<1> QED
    BY <1>2, <1>3, <1>4

\* The nonces of the two sides.
OtherHalf(c) == FirstNonce(c \notin Outbound)..LastNonce(c \notin Outbound)

\* The two sides of a connection never draw the same nonce.
LEMMA Halves ==
    ASSUME NEW c \in Conns
    PROVE  /\ OwnHalf(c) \subseteq Nonces
           /\ OtherHalf(c) \subseteq Nonces
           /\ OwnHalf(c) \cap OtherHalf(c) = {}
<1>1. HALF \in Nat
    BY Constants
<1>2. CASE c \in Outbound
    <2>1. OwnHalf(c) = 0..HALF - 1
        BY <1>2 DEF OwnHalf, FirstNonce, LastNonce
    <2>2. OtherHalf(c) = HALF..2 * HALF - 1
        BY <1>2 DEF OtherHalf, FirstNonce, LastNonce
    <2> QED
        BY <1>1, <2>1, <2>2 DEF Nonces
<1>3. CASE c \notin Outbound
    <2>1. OwnHalf(c) = HALF..2 * HALF - 1
        BY <1>3 DEF OwnHalf, FirstNonce, LastNonce
    <2>2. OtherHalf(c) = 0..HALF - 1
        BY <1>3 DEF OtherHalf, FirstNonce, LastNonce
    <2> QED
        BY <1>1, <2>1, <2>2 DEF Nonces
<1> QED
    BY <1>2, <1>3

\* Answers and requests of the peer.
LEMMA MessagesKeep ==
    ASSUME TasksInv,
           (\E r \in Requests : PeerAnswers(r)) \/ (\E c \in Conns : PeerRequests(c))
    PROVE  TasksInv'
<1> USE DEF TasksInv, Shape
<1>1. ASSUME NEW r \in Requests, PeerAnswers(r) PROVE TasksInv'
    <2>1. request[r].conn \in Conns /\ request[r].id \in Nonces /\ r \in Answers
        BY <1>1 DEF PeerAnswers, RequestShape, RequestType, Answers
    <2> QED
        BY <1>1, <2>1, ReadMessageKeeps DEF PeerAnswers
<1>2. ASSUME NEW c \in Conns, PeerRequests(c) PROVE TasksInv'
    <2>1. PICK id \in OtherHalf(c) :
             ReadMessage(c, id, PeerRequest)
        BY <1>2 DEF PeerRequests, OtherHalf
    <2>2. id \in Nonces /\ PeerRequest \in Answers
        BY <2>1, Halves DEF Answers
    <2> QED
        BY <2>1, <2>2, ReadMessageKeeps
<1> QED
    BY <1>1, <1>2

\* What create_request does up to event.wait().
Makes(r, c, t) ==
    /\ request[r].pc = "none" /\ \A q \in 1..r - 1 : request[q].pc # "none"
    /\ request' \in [Requests -> RequestType]
    /\ request'[r] = [pc |-> "waiting", conn |-> c, id |-> conn[c].nonce, event |-> FALSE,
                      timer |-> "created", answered |-> FALSE, result |-> NoAnswer, by |-> t]
    /\ \A s \in Requests : s # r => request'[s] = request[s]
    /\ pending_requests' = [pending_requests EXCEPT ![c][conn[c].nonce] = r]
    /\ conn' \in [Conns -> ConnType]
    /\ conn'[c].nonce = NextNonce(c \in Outbound, conn[c].nonce)
    /\ \A d \in Conns : d # c => conn'[d] = conn[d]
    /\ UNCHANGED <<registry, request_results, api_tasks, tasks_from_peer, execute_tasks>>

\* The next nonce is one of the same side.
LEMMA NextNonceInHalf ==
    ASSUME NEW c \in Conns, NEW n \in OwnHalf(c)
    PROVE  NextNonce(c \in Outbound, n) \in OwnHalf(c)
<1>1. HALF \in Nat /\ HALF > 0
    BY Constants
<1>2. CASE c \in Outbound
    <2>1. OwnHalf(c) = 0..HALF - 1
        BY <1>2 DEF OwnHalf, FirstNonce, LastNonce
    <2>2. NextNonce(c \in Outbound, n) = IF n # HALF - 1 THEN n + 1 ELSE 0
        BY <1>2 DEF NextNonce, FirstNonce, LastNonce
    <2> QED
        BY <1>1, <2>1, <2>2
<1>3. CASE c \notin Outbound
    <2>1. OwnHalf(c) = HALF..2 * HALF - 1
        BY <1>3 DEF OwnHalf, FirstNonce, LastNonce
    <2>2. NextNonce(c \in Outbound, n) = IF n # 2 * HALF - 1 THEN n + 1 ELSE HALF
        BY <1>3 DEF NextNonce, FirstNonce, LastNonce
    <2> QED
        BY <1>1, <2>1, <2>2
<1> QED
    BY <1>2, <1>3

\* create_request makes one request, with the nonce that is next.
LEMMA CreateRequestDoes ==
    ASSUME Shape, NEW c \in Conns, NEW t \in {0} \cup Tasks, CreateRequest(c, t)
    PROVE  \E r \in Requests : Makes(r, c, t)
<1> USE DEF Shape
<1>1. PICK r \in Requests :
        /\ request[r].pc = "none" /\ \A q \in 1..r - 1 : request[q].pc # "none"
        /\ request' = [request EXCEPT ![r] =
              [NoRequest EXCEPT !.pc = "waiting", !.conn = c, !.id = conn[c].nonce,
                                !.timer = "created", !.by = t]]
        /\ pending_requests' = [pending_requests EXCEPT ![c][conn[c].nonce] = r]
        /\ conn' = [conn EXCEPT ![c].nonce = NextNonce(c \in Outbound, @)]
        /\ UNCHANGED <<registry, request_results, api_tasks, tasks_from_peer, execute_tasks>>
    BY DEF CreateRequest
<1> DEFINE new == [pc |-> "waiting", conn |-> c, id |-> conn[c].nonce, event |-> FALSE,
                   timer |-> "created", answered |-> FALSE, result |-> NoAnswer, by |-> t]
           next == NextNonce(c \in Outbound, conn[c].nonce)
<1>2. ASSUME NEW e, e = [NoRequest EXCEPT !.pc = "waiting", !.conn = c, !.id = conn[c].nonce,
                                          !.timer = "created", !.by = t]
      PROVE  e = new
    BY <1>2 DEF NoRequest
<1>3. conn[c] \in ConnType /\ conn[c].nonce \in Nonces
    BY DEF ConnShape, ConnType
<1>4. new \in RequestType
    BY <1>3 DEF RequestType, RequestPcs, Timers, Answers
<1>5. request' = [request EXCEPT ![r] = new]
    BY <1>1, <1>2
<1> HIDE DEF new
<1>6. /\ request' \in [Requests -> RequestType] /\ request'[r] = new
      /\ \A s \in Requests : s # r => request'[s] = request[s]
    BY <1>4, <1>5 DEF RequestShape
<1>7. next \in Nonces
    BY NextNonceInHalf, Halves DEF NonceInHalf
<1> HIDE DEF next
<1>8. conn' = [conn EXCEPT ![c] = [conn[c] EXCEPT !.nonce = next]]
    BY <1>1 DEF ConnShape, next
<1>9. [conn[c] EXCEPT !.nonce = next] \in ConnType /\ [conn[c] EXCEPT !.nonce = next].nonce = next
    BY <1>3, <1>7 DEF ConnType
<1>10. /\ conn' \in [Conns -> ConnType] /\ conn'[c].nonce = next
       /\ \A d \in Conns : d # c => conn'[d] = conn[d]
    BY <1>8, <1>9 DEF ConnShape
<1>11. Makes(r, c, t)
    BY <1>1, <1>6, <1>10 DEF Makes, new, next
<1> QED
    BY <1>11

\* A request is made, by a handler or by another coroutine of the node.
LEMMA MakesKeeps ==
    ASSUME TasksInv, NEW r \in Requests, NEW c \in Conns, NEW t \in {0} \cup Tasks,
           Makes(r, c, t),
           \/ t = 0 /\ UNCHANGED task
           \/ t # 0 /\ task[t].pc = "running" /\ task' = [task EXCEPT ![t].pc = "waiting"]
    PROVE  TasksInv'
<1> USE DEF TasksInv, Shape
<1>1. RegistryShape' /\ ConnShape'
    BY DEF Makes, RegistryShape, ConnShape, registry
<1>2. NonceInHalf'
    <2>1. ASSUME NEW d \in Conns PROVE conn'[d].nonce \in OwnHalf(d)
        BY NextNonceInHalf DEF Makes, NonceInHalf
    <2> QED
        BY <2>1 DEF NonceInHalf, OwnHalf
<1>3. RequestShape'
    BY DEF Makes, RequestShape
<1>4. TableShape'
    <2>1. conn[c].nonce \in Nonces
        BY DEF ConnShape, ConnType
    <2> QED
        BY <2>1 DEF Makes, TableShape
<1>5. /\ task' \in [Tasks -> TaskType]
      /\ \A u \in Tasks : /\ u # t => task'[u] = task[u]
                          /\ task'[u].conn = task[u].conn /\ task'[u].execute = task[u].execute
                          /\ u = t => task[u].pc = "running" /\ task'[u].pc = "waiting"
    <2>1. CASE t = 0 /\ UNCHANGED task
        BY <2>1, Constants DEF TaskShape
    <2>2. CASE t # 0 /\ task[t].pc = "running" /\ task' = [task EXCEPT ![t].pc = "waiting"]
        <3>1. t \in Tasks /\ task[t] \in TaskType /\ task \in [Tasks -> TaskType]
            BY <2>2 DEF TaskShape
        <3>2. task' = [task EXCEPT ![t] = [task[t] EXCEPT !.pc = "waiting"]]
            BY <2>2, <3>1
        <3>3. LET e == [task[t] EXCEPT !.pc = "waiting"]
              IN  e \in TaskType /\ e.pc = "waiting" /\ e.conn = task[t].conn /\ e.execute = task[t].execute
            BY <3>1 DEF TaskType, TaskPcs
        <3> QED
            BY <2>2, <3>1, <3>2, <3>3
    <2> QED
        BY <2>1, <2>2
<1>6. UNCHANGED <<api_tasks, tasks_from_peer, execute_tasks>>
    BY DEF Makes
<1>7. TaskShape'
    BY <1>5, <1>6 DEF TaskShape, Active
<1>8. TasksTracked'
    BY <1>5, <1>6 DEF TasksTracked, TaskShape
<1>9. ExecuteTasksKnown'
    BY <1>5, <1>6 DEF ExecuteTasksKnown
<1>10. RequestersWait'
    <2>1. /\ request'[r].by = t
          /\ \A s \in Requests : s # r => request'[s] = request[s]
        BY DEF Makes
    <2>2. ASSUME NEW s \in Requests, s # r, request'[s].pc = "waiting", request'[s].by # 0
          PROVE  request'[s].by # t /\ task'[request'[s].by].pc = "waiting"
        <3>1. request[s].by \in Tasks /\ task[request[s].by].pc = "waiting" /\ request'[s] = request[s]
            BY <2>1, <2>2 DEF RequestersWait, RequestShape, RequestType
        <3> QED
            BY <1>5, <3>1
    <2>3. t # 0 => task'[t].pc = "waiting"
        BY <1>5
    <2> QED
        BY <2>1, <2>2, <2>3 DEF RequestersWait
<1> QED
    BY <1>1, <1>2, <1>3, <1>4, <1>7, <1>8, <1>9, <1>10

\* What create_request does after event.wait().
LEMMA RequestReturnsDoes ==
    ASSUME Shape, NEW r \in Requests, RequestReturns(r)
    PROVE  /\ request' \in [Requests -> RequestType]
           /\ request'[r].pc = "done" /\ request'[r].conn = request[r].conn
           /\ request'[r].id = request[r].id
           /\ request'[r].result = request_results[request[r].conn][request[r].id]
           /\ \A s \in Requests : s # r => request'[s] = request[s]
<1> USE DEF Shape
<1> DEFINE res == request_results[request[r].conn][request[r].id]
<1>1. request[r].pc = "waiting"
    BY DEF RequestReturns
<1>2. request[r].conn \in Conns /\ request[r].id \in Nonces /\ request[r] \in RequestType
    BY <1>1 DEF RequestShape, RequestType
<1>3. res \in Answers
    BY <1>2 DEF TableShape
<1>4. request' = [request EXCEPT ![r].pc = "done", ![r].result = res, ![r].event = FALSE, ![r].by = 0]
    BY DEF RequestReturns
<1> HIDE DEF res
<1> DEFINE new == [request[r] EXCEPT !.pc = "done", !.result = res, !.event = FALSE, !.by = 0]
<1>5. request' = [request EXCEPT ![r] = new]
    BY <1>4 DEF RequestShape
<1>6. /\ new \in RequestType /\ new.pc = "done" /\ new.conn = request[r].conn
      /\ new.id = request[r].id /\ new.result = res
    BY <1>2, <1>3 DEF RequestType, RequestPcs
<1> HIDE DEF new
<1> QED
    BY <1>5, <1>6 DEF RequestShape, res

\* create_request returns, and the handler that made it goes on.
LEMMA RequestReturnsKeeps ==
    ASSUME TasksInv, NEW r \in Requests, RequestReturns(r)
    PROVE  TasksInv'
<1> USE DEF TasksInv, Shape
<1> DEFINE c == request[r].conn
           id == request[r].id
<1>1. /\ request[r].pc = "waiting"
      /\ pending_requests' = [pending_requests EXCEPT ![c][id] = 0]
      /\ request_results' = [request_results EXCEPT ![c][id] = NoAnswer]
      /\ task' = [t \in Tasks |->
            IF t = request[r].by THEN [task[t] EXCEPT !.pc = "running"] ELSE task[t]]
      /\ UNCHANGED <<registry, conn, api_tasks, tasks_from_peer, execute_tasks>>
    BY DEF RequestReturns
<1>2. c \in Conns /\ id \in Nonces
    BY <1>1 DEF RequestShape, RequestType
<1> HIDE DEF c, id
<1>3. RegistryShape' /\ ConnShape' /\ NonceInHalf'
    BY <1>1 DEF RegistryShape, ConnShape, NonceInHalf, OwnHalf, registry
<1>4. TableShape'
    BY <1>1, <1>2 DEF TableShape, Answers
<1>5. RequestShape'
    BY <1>2, RequestReturnsDoes DEF RequestShape, c
<1>6. \A t \in Tasks : /\ task'[t] \in TaskType
                       /\ task'[t].conn = task[t].conn /\ task'[t].execute = task[t].execute
                       /\ t # request[r].by => task'[t] = task[t]
                       /\ t = request[r].by => task'[t].pc = "running"
    BY <1>1 DEF TaskShape, TaskType, TaskPcs
<1>7. \A t \in Tasks : t = request[r].by => task[t].pc = "waiting"
    BY <1>1, Constants DEF RequestersWait
<1>8. task' \in [Tasks -> TaskType]
    BY <1>1, <1>6
<1>9. TaskShape'
    BY <1>1, <1>6, <1>7, <1>8 DEF TaskShape, Active
<1>10. TasksTracked'
    BY <1>1, <1>6, <1>7 DEF TasksTracked, TaskShape
<1>11. ExecuteTasksKnown'
    BY <1>1, <1>6, <1>7 DEF ExecuteTasksKnown
<1>12. RequestersWait'
    <2>1. ASSUME NEW s \in Requests, request'[s].pc = "waiting", request'[s].by # 0
          PROVE  /\ s # r /\ request'[s] = request[s]
                 /\ task'[request[s].by].pc = "waiting"
        <3>1. s # r /\ request'[s] = request[s]
            BY <2>1, RequestReturnsDoes
        <3>2. request[s].by \in Tasks /\ task[request[s].by].pc = "waiting"
            BY <2>1, <3>1 DEF RequestersWait, RequestShape, RequestType
        <3>3. request[s].by # request[r].by
            BY <1>1, <2>1, <3>1 DEF RequestersWait
        <3> QED
            BY <1>6, <3>1, <3>2, <3>3
    <2> QED
        BY <2>1 DEF RequestersWait
<1> QED
    BY <1>3, <1>4, <1>5, <1>9, <1>10, <1>11, <1>12

\* incoming_api_task and the first step of api_call.
LEMMA DispatchKeeps ==
    ASSUME TasksInv, NEW t \in Tasks, Dispatch(t) \/ HandlerStarts(t)
    PROVE  TasksInv' /\ Quiet
<1> USE DEF TasksInv, Shape
<1>1. UNCHANGED <<registry, conn, request, tables>>
    BY DEF Dispatch, HandlerStarts
<1>2. Quiet
    BY <1>1, SameRequest DEF Quiet, RequestShape
<1>3. RequestShape' /\ TableShape' /\ NonceInHalf' /\ RegistryShape' /\ ConnShape'
    BY <1>1, <1>2, QuietShape DEF RegistryShape, ConnShape, registry
<1>4. PICK pc \in {"created", "running"} :
         /\ task' = [task EXCEPT ![t].pc = pc]
         /\ task[t].pc = IF pc = "created" THEN "queued" ELSE "created"
         /\ pc = "created" => Dispatch(t)
         /\ pc = "running" => HandlerStarts(t)
    BY DEF Dispatch, HandlerStarts
<1>5. /\ task' \in [Tasks -> TaskType]
      /\ task'[t].pc = pc /\ task'[t].conn = task[t].conn /\ task'[t].execute = task[t].execute
      /\ \A u \in Tasks : u # t => task'[u] = task[u]
    <2>1. task[t] \in TaskType /\ task \in [Tasks -> TaskType]
        BY DEF TaskShape
    <2>2. task' = [task EXCEPT ![t] = [task[t] EXCEPT !.pc = pc]]
        BY <1>4, <2>1
    <2>3. LET e == [task[t] EXCEPT !.pc = pc]
          IN  e \in TaskType /\ e.pc = pc /\ e.conn = task[t].conn /\ e.execute = task[t].execute
        BY <2>1 DEF TaskType, TaskPcs
    <2> QED
        BY <2>1, <2>2, <2>3
<1>6. task[t].pc \in {"queued", "created"} /\ task[t].conn \in Conns
    BY <1>4 DEF TaskShape, Active
<1>7. PeerId[task[t].conn] \in Peers
    BY <1>6, Constants
<1>8. RequestersWait'
    <2>1. ASSUME NEW r \in Requests, request'[r].pc = "waiting", request'[r].by # 0
          PROVE  task'[request'[r].by].pc = task[request'[r].by].pc
        <3>1. request[r].by \in Tasks /\ task[request[r].by].pc = "waiting" /\ request' = request
            BY <1>1, <2>1 DEF RequestersWait, RequestShape, RequestType
        <3> QED
            BY <1>5, <1>6, <3>1
    <2> QED
        BY <1>2, <2>1, RequestersKept
<1>9. CASE Dispatch(t)
    <2>1. /\ task[t].pc = "queued"
          /\ api_tasks' = api_tasks \cup {t}
          /\ tasks_from_peer' =
                [tasks_from_peer EXCEPT ![PeerId[task[t].conn]] = @ \cup {t}]
          /\ UNCHANGED execute_tasks
        BY <1>9 DEF Dispatch
    <2>2. pc = "created"
        BY <1>4, <2>1
    <2>3. TaskShape'
        BY <1>5, <1>6, <1>7, <2>1 DEF TaskShape
    <2>4. TasksTracked'
        <3>1. \A p \in Peers : tasks_from_peer'[p] \subseteq tasks_from_peer[p] \cup {t}
            BY <2>1 DEF TaskShape
        <3>2. \A p \in Peers : tasks_from_peer'[p] \subseteq api_tasks'
            BY <2>1, <3>1 DEF TasksTracked
        <3>3. t \in api_tasks' /\ t \in tasks_from_peer'[PeerId[task'[t].conn]]
            BY <1>5, <1>7, <2>1 DEF TaskShape
        <3>4. ASSUME NEW u \in Tasks, u # t, task'[u].pc \in Active
              PROVE  u \in api_tasks' \cap tasks_from_peer'[PeerId[task'[u].conn]]
            <4>1. task'[u] = task[u] /\ PeerId[task[u].conn] \in Peers
                BY <1>5, <3>4, Constants DEF TaskShape
            <4>2. u \in api_tasks \cap tasks_from_peer[PeerId[task[u].conn]]
                BY <3>4, <4>1 DEF TasksTracked, Active
            <4> QED
                BY <2>1, <4>1, <4>2 DEF TaskShape
        <3>5. \A u \in execute_tasks' : task'[u].pc \in {"running", "waiting", "closing"}
            BY <1>5, <2>1 DEF TasksTracked, TaskShape
        <3> QED
            BY <3>2, <3>3, <3>4, <3>5 DEF TasksTracked, Active
    <2>5. ExecuteTasksKnown'
        BY <1>5, <2>1, <2>2 DEF ExecuteTasksKnown
    <2> QED
        BY <1>2, <1>3, <1>8, <2>3, <2>4, <2>5
<1>10. CASE HandlerStarts(t)
    <2>1. /\ task[t].pc = "created"
          /\ execute_tasks' = IF task[t].execute THEN execute_tasks \cup {t} ELSE execute_tasks
          /\ UNCHANGED <<api_tasks, tasks_from_peer>>
        BY <1>10 DEF HandlerStarts
    <2>2. pc = "running"
        BY <1>4, <2>1
    <2>3. TaskShape'
        BY <1>5, <1>6, <2>1 DEF TaskShape
    <2>4. TasksTracked'
        BY <1>5, <2>1, <2>2 DEF TasksTracked, TaskShape
    <2>5. ExecuteTasksKnown'
        BY <1>5, <2>1, <2>2 DEF ExecuteTasksKnown
    <2> QED
        BY <1>2, <1>3, <1>8, <2>3, <2>4, <2>5
<1> QED
    BY <1>9, <1>10

\* Handlers that return or fail.
LEMMA HandlerEndsKeeps ==
    ASSUME TasksInv, NEW t \in Tasks, HandlerReturns(t) \/ HandlerFails(t)
    PROVE  TasksInv' /\ Quiet
<1> USE DEF TasksInv, Shape
<1>1. task[t].pc \in {"running", "waiting"} /\ task[t].conn \in Conns
    BY DEF HandlerReturns, HandlerFails, TaskShape, Active
<1>2. CASE IsOpen(task[t].conn) /\ Close(task[t].conn, TRUE, {t})
    <2>1. Closed
        BY <1>1, <1>2, CloseKeeps
    <2> QED
        BY <2>1, QuietShape DEF Closed
<1>3. ASSUME TasksEnd({t}), UNCHANGED <<registry, conn, tables>>,
             request' \in [Requests -> RequestType],
             \A r \in Requests : /\ GivenUp(request[r], request'[r])
                                 /\ request'[r].pc = "waiting" => ~Abandoned(r, {t})
      PROVE  TasksInv' /\ Quiet
    <2>1. Quiet
        BY <1>3 DEF Quiet
    <2>2. RequestShape' /\ TableShape' /\ NonceInHalf' /\ RegistryShape' /\ ConnShape'
        BY <1>3, <2>1, QuietShape DEF RegistryShape, ConnShape, registry
    <2>3. /\ TaskShape' /\ TasksTracked' /\ ExecuteTasksKnown'
          /\ \A u \in Tasks \ {t} : task'[u] = task[u]
        BY <1>3, TasksEndKeeps
    <2>4. RequestersWait'
        <3>1. ASSUME NEW r \in Requests, request'[r].pc = "waiting", request'[r].by # 0
              PROVE  task'[request'[r].by].pc = task[request'[r].by].pc
            <4>1. request[r].pc = "waiting" /\ request'[r].by = request[r].by
                BY <1>3, <3>1 DEF GivenUp
            <4>2. request[r].by \in Tasks \ {t}
                BY <1>3, <3>1, <4>1 DEF Abandoned, RequestShape, RequestType
            <4> QED
                BY <2>3, <4>1, <4>2
        <3> QED
            BY <2>1, <3>1, RequestersKept
    <2> QED
        BY <2>1, <2>2, <2>3, <2>4
<1>4. CASE HandlerReturns(t)
    <2>1. task[t].pc = "running" /\ TasksEnd({t}) /\ UNCHANGED <<registry, conn, request, tables>>
        BY <1>4 DEF HandlerReturns
    <2>2. ASSUME NEW r \in Requests
          PROVE  GivenUp(request[r], request'[r]) /\ ~Abandoned(r, {t})
        BY <2>1, SameRequest, Constants DEF RequestShape, RequestersWait, Abandoned
    <2>3. request' \in [Requests -> RequestType]
        BY <2>1 DEF RequestShape
    <2> QED
        BY <1>3, <2>1, <2>2, <2>3
<1>5. CASE /\ TasksEnd({t}) /\ UNCHANGED <<registry, conn, tables>>
           /\ request' = [r \in Requests |->
                 IF Abandoned(r, {t}) THEN Cancelled(request[r]) ELSE request[r]]
    BY <1>3, <1>5, AbandonKeeps
<1> QED
    BY <1>2, <1>4, <1>5 DEF HandlerFails

-----------------------------------------------------------------------------
(* The invariant of the tasks holds *)

\* A server starts without tasks.
LEMMA TasksInvInit == Init => TasksInv
<1> SUFFICES ASSUME Init PROVE TasksInv
    OBVIOUS
<1> USE DEF Init
<1>1. RegistryShape
    BY DEF RegistryShape
<1>2. ConnShape /\ NonceInHalf
    <2>1. ASSUME NEW c \in Conns
          PROVE  FirstNonce(c \in Outbound) \in Nonces /\ FirstNonce(c \in Outbound) \in OwnHalf(c)
        BY Constants DEF FirstNonce, LastNonce, OwnHalf, Nonces
    <2>2. ASSUME NEW c \in Conns
          PROVE  Unused(c) \in ConnType /\ Unused(c).nonce \in OwnHalf(c)
        BY <2>1 DEF Unused, ConnType, Ats, Closes
    <2> QED
        BY <2>2 DEF ConnShape, NonceInHalf
<1>3. RequestShape
    BY Constants DEF RequestShape, RequestType, NoRequest, RequestPcs, Timers, Answers, Nonces
<1>4. TableShape
    BY DEF TableShape, Answers
<1>5. TaskShape
    BY DEF TaskShape, TaskType, TaskPcs, NoTask, Active
<1>6. TasksTracked /\ RequestersWait /\ ExecuteTasksKnown
    BY DEF TasksTracked, RequestersWait, ExecuteTasksKnown, NoTask, NoRequest
<1> QED
    BY <1>1, <1>2, <1>3, <1>4, <1>5, <1>6 DEF TasksInv, Shape

\* A step that leaves the requests as they are, and the other steps of requests.
LEMMA StepKinds ==
    ASSUME TasksInv, Next
    PROVE  /\ TasksInv'
           /\ \/ Quiet
              \/ \E c \in Conns : PeerRequests(c)
              \/ \E r \in Requests : TimerEnds(r) \/ PeerAnswers(r) \/ RequestReturns(r)
              \/ \E c \in Conns, t \in {0} \cup Tasks, r \in Requests : Makes(r, c, t)
<1>1. ASSUME NEW c \in Conns, NodeRequests(c)
      PROVE  TasksInv' /\ \E t \in {0} \cup Tasks, r \in Requests : Makes(r, c, t)
    <2>1. CreateRequest(c, 0) /\ UNCHANGED task
        BY <1>1 DEF NodeRequests
    <2>2. PICK r \in Requests : Makes(r, c, 0)
        BY <2>1, CreateRequestDoes DEF TasksInv
    <2> QED
        BY <2>1, <2>2, MakesKeeps
<1>2. ASSUME NEW t \in Tasks, HandlerRequests(t)
      PROVE  TasksInv' /\ \E c \in Conns, r \in Requests : Makes(r, c, t)
    <2>1. /\ task[t].pc = "running" /\ CreateRequest(task[t].conn, t)
          /\ task' = [task EXCEPT ![t].pc = "waiting"]
        BY <1>2 DEF HandlerRequests
    <2>2. task[t].conn \in Conns /\ t # 0
        BY <2>1, Constants DEF TasksInv, Shape, TaskShape, Active
    <2>3. PICK r \in Requests : Makes(r, task[t].conn, t)
        BY <2>1, <2>2, CreateRequestDoes DEF TasksInv
    <2> QED
        BY <2>1, <2>2, <2>3, MakesKeeps
<1> QED
    BY <1>1, <1>2, SetupKeeps, EndingsKeep, TimerStartsKeeps, TimerEndsKeeps, MessagesKeep,
       RequestReturnsKeeps, DispatchKeeps, HandlerEndsKeeps
    DEF Next, Network, Requesting, Handling

\* Every step keeps track of the tasks.
LEMMA TasksInvStep == TasksInv /\ [Next]_vars => TasksInv'
<1> SUFFICES ASSUME TasksInv, [Next]_vars PROVE TasksInv'
    OBVIOUS
<1>1. CASE Next
    BY <1>1, StepKinds
<1>2. CASE UNCHANGED vars
    BY <1>2 DEF vars, registry, tables, calls, TasksInv, Shape, RegistryShape, ConnShape, NonceInHalf,
                OwnHalf, RequestShape, TableShape, TaskShape, TasksTracked, RequestersWait,
                ExecuteTasksKnown
<1> QED
    BY <1>1, <1>2

\* The tasks are tracked in every behaviour.
LEMMA TasksInvHolds == Spec => []TasksInv
<1> QED
    BY TasksInvInit, TasksInvStep, PTL DEF Spec

\* The tables of connections, requests and tasks stay well formed, and the nonces of a
\* connection stay in the half of its side.
THEOREM TypeCorrect == Spec => []TypeOK
<1>1. TasksInv => TypeOK
    <2> SUFFICES ASSUME TasksInv PROVE TypeOK
        OBVIOUS
    <2> USE DEF TasksInv, Shape
    <2>1. \A c \in Conns :
            /\ conn[c].at \in {"new", "handshake", "shaken", "adding", "added"}
            /\ conn[c].close \in {"open", "closing", "closed", "lost"}
            /\ conn[c].nonce \in FirstNonce(c \in Outbound)..LastNonce(c \in Outbound)
        BY DEF ConnShape, ConnType, Ats, Closes, NonceInHalf, OwnHalf
    <2>2. request \in [Requests ->
              [pc : {"none", "waiting", "done", "cancelled"}, conn : Conns \cup {NONE},
               id : Nonces, event : BOOLEAN, answered : BOOLEAN,
               timer : {"none", "created", "sleeping", "over", "lost"},
               result : {NoAnswer, PeerRequest} \cup Requests, by : {0} \cup Tasks]]
        BY DEF RequestShape, RequestType, RequestPcs, Timers, Answers
    <2>3. task \in [Tasks ->
              [pc : {"none", "queued", "created", "running", "waiting", "closing", "done"},
               conn : Conns \cup {NONE}, execute : BOOLEAN]]
        BY DEF TaskShape, TaskType, TaskPcs
    <2> QED
        BY <2>1, <2>2, <2>3 DEF TypeOK, RegistryShape, TableShape, TaskShape, Answers
<1> QED
    BY <1>1, TasksInvHolds, PTL

\* cancel_tasks_from_peer finds every task it looks up and every task of the peer
\* (TasksTracked), however connections, handlers and cancellations interleave.
THEOREM TasksAreTracked == Spec => []TasksTracked
<1>1. TasksInv => TasksTracked
    BY DEF TasksInv
<1> QED
    BY <1>1, TasksInvHolds, PTL

-----------------------------------------------------------------------------
(* Handlers that must run fully *)

\* The end of a connection spares every handler that is listed in execute_tasks.
LEMMA CloseFinishesSpares ==
    ASSUME NEW c, NEW ban, NEW cancels, NEW by, CloseFinishes(c, ban, cancels, by),
           NEW t \in Tasks, t \notin by, t \in execute_tasks, task[t].pc = "waiting"
    PROVE  task'[t].pc = "waiting"
<1> DEFINE ended == CancelledTasks(PeerId[c]) \cup by \cup {u \in Tasks : CloserOf(u, c)}
<1>1. TasksEnd(ended)
    BY DEF CloseFinishes
<1>2. t \notin ended
    BY DEF CancelledTasks, CloserOf
<1> QED
    BY <1>1, <1>2 DEF TasksEnd

\* close, too, spares every task that must run fully but the one that calls it.
LEMMA CloseSpares ==
    ASSUME NEW c, NEW ban, NEW by, Close(c, ban, by),
           NEW t \in Tasks, t \notin by, t \in execute_tasks, task[t].pc = "waiting"
    PROVE  task'[t].pc = "waiting"
BY CloseFinishesSpares DEF Close

\* Every step leaves a handler that must run fully and waits for an answer waiting, or
\* wakes it.
LEMMA FullyStep ==
    ASSUME TasksInv, Next, NEW t \in Tasks, task[t].execute, task[t].pc = "waiting"
    PROVE  task'[t].pc \in {"waiting", "running"}
<1>0. t \in execute_tasks
    BY DEF TasksInv, ExecuteTasksKnown
<1>1. ASSUME NEW c \in Conns, Setup(c) PROVE task'[t].pc = "waiting"
    <2>1. CASE HandshakeFails(c) \/ RefuseInbound(c) \/ ReplacementFails(c)
        <3>1. PICK ban \in BOOLEAN : Close(c, ban, {})
            BY <2>1 DEF HandshakeFails, RefuseInbound, ReplacementFails
        <3> QED
            BY <1>0, <3>1, CloseSpares
    <2> QED
        BY <1>1, <2>1
        DEF Setup, Connect, HandshakeDone, AddConnection, ReplaceConnection, AddReplacement, calls
<1>2. ASSUME NEW c \in Conns, NEW id, NEW what, ReadMessage(c, id, what) PROVE task'[t].pc = "waiting"
    BY <1>2 DEF ReadMessage, NewTask, TasksInv, Shape, TaskShape
<1>3. ASSUME NEW c \in Conns, Network(c) PROVE task'[t].pc = "waiting"
    <2>1. CASE SocketBreaks(c) \/ NodeRequests(c)
        BY <2>1 DEF SocketBreaks, NodeRequests, calls
    <2>2. CASE ConnectionCloses(c) \/ CloseEnds(c)
        <3>1. \/ \E ban \in BOOLEAN : Close(c, ban, {})
              \/ \E cancels \in BOOLEAN : CloseFinishes(c, conn[c].ban, cancels, {})
            BY <2>2 DEF ConnectionCloses, CloseEnds
        <3> QED
            BY <1>0, <3>1, CloseSpares, CloseFinishesSpares
    <2>3. CASE PeerRequests(c)
        BY <1>2, <2>3 DEF PeerRequests
    <2> QED
        BY <1>3, <2>1, <2>2, <2>3 DEF Network
<1>4. ASSUME NEW r \in Requests, Requesting(r) PROVE task'[t].pc \in {"waiting", "running"}
    <2>1. CASE TimerStarts(r) \/ TimerEnds(r)
        BY <2>1 DEF TimerStarts, TimerEnds, calls
    <2>2. CASE PeerAnswers(r)
        <3>1. request[r].conn \in Conns
            BY <2>2 DEF PeerAnswers, TasksInv, Shape, RequestShape
        <3> QED
            BY <1>2, <2>2, <3>1 DEF PeerAnswers
    <2>3. CASE RequestReturns(r)
        <3>1. task[t] \in TaskType
            BY DEF TasksInv, Shape, TaskShape
        <3>2. task'[t] = IF t = request[r].by THEN [task[t] EXCEPT !.pc = "running"] ELSE task[t]
            BY <2>3 DEF RequestReturns
        <3> QED
            BY <3>1, <3>2 DEF TaskType
    <2> QED
        BY <1>4, <2>1, <2>2, <2>3 DEF Requesting
<1>5. ASSUME NEW u \in Tasks, Handling(u) PROVE task'[t].pc = "waiting"
    <2>1. CASE Dispatch(u) \/ HandlerStarts(u) \/ HandlerRequests(u)
        <3>1. u # t /\ \E pc : task' = [task EXCEPT ![u].pc = pc]
            BY <2>1 DEF Dispatch, HandlerStarts, HandlerRequests
        <3> QED
            BY <3>1 DEF TasksInv, Shape, TaskShape
    <2>2. CASE HandlerReturns(u)
        BY <2>2 DEF HandlerReturns, TasksEnd
    <2>3. CASE HandlerFails(u)
        <3>1. t # u
            BY <2>3 DEF HandlerFails
        <3>2. CASE Close(task[u].conn, TRUE, {u})
            <4>1. t \notin {u}
                BY <3>1
            <4> QED
                BY <1>0, <3>2, <4>1, CloseSpares
        <3>3. CASE TasksEnd({u})
            BY <3>1, <3>3 DEF TasksEnd
        <3> QED
            BY <2>3, <3>2, <3>3 DEF HandlerFails
    <2> QED
        BY <1>5, <2>1, <2>2, <2>3 DEF Handling
<1>6. ASSUME NEW p \in Peers, BanExpires(p) PROVE task'[t].pc = "waiting"
    BY <1>6 DEF BanExpires, calls
<1> QED
    BY <1>1, <1>3, <1>4, <1>5, <1>6 DEF Next

\* A handler decorated with execute_task is never ended while it waits for an answer
\* (ExecuteTasksRunFully), neither by a timeout nor by connection_closed.
THEOREM ExecuteTasksAreSpared == Spec => ExecuteTasksRunFully
<1> DEFINE Spared ==
        \A t \in Tasks :
           task[t].execute /\ task[t].pc = "waiting" => task'[t].pc \in {"waiting", "running"}
<1>1. TasksInv /\ [Next]_vars => [Spared]_vars
    BY FullyStep
<1>2. Spec => [][Spared]_vars
    BY <1>1, TasksInvHolds, PTL DEF Spec
<1> QED
    BY <1>2 DEF ExecuteTasksRunFully

-----------------------------------------------------------------------------
(* Requests and their nonces *)

IdsInv == IdsDiffer /\ IdsInHalf /\ NextNonceNew

\* What a step leaves of the requests that were made.
SameCalls ==
    \A r \in Requests : /\ request'[r].pc = "none" <=> request[r].pc = "none"
                        /\ request'[r].pc = "waiting" => request[r].pc = "waiting"
                        /\ request'[r].conn = request[r].conn
                        /\ request'[r].id = request[r].id

\* The nonces stay as they are in a step that makes no request.
LEMMA IdsKept ==
    ASSUME RequestShape, IdsInv, SameCalls, \A c \in Conns : conn'[c].nonce = conn[c].nonce
    PROVE  IdsInv'
<1> USE DEF IdsInv, SameCalls, Made
<1>1. IdsDiffer'
    BY DEF IdsDiffer
<1>2. IdsInHalf'
    BY DEF IdsInHalf, OwnHalf
<1>3. NextNonceNew'
    <2>1. \A r \in Requests : request[r].pc # "none" => request[r].conn \in Conns
        BY DEF RequestShape
    <2> QED
        BY <2>1 DEF NextNonceNew
<1> QED
    BY <1>1, <1>2, <1>3

\* The tables match the requests as long as they stay as they are.
LEMMA TablesKept ==
    ASSUME Shape, PendingMatches, ResultsMatch, SameCalls
    PROVE  /\ UNCHANGED pending_requests => PendingMatches'
           /\ UNCHANGED request_results => ResultsMatch'
<1> USE DEF Shape, SameCalls, Made
<1>1. UNCHANGED pending_requests => PendingMatches'
    <2> SUFFICES ASSUME UNCHANGED pending_requests PROVE PendingMatches'
        OBVIOUS
    <2>1. \A r \in Requests : request'[r].pc = "waiting" =>
             pending_requests'[request'[r].conn][request'[r].id] = r
        BY DEF PendingMatches
    <2>2. ASSUME NEW c \in Conns, NEW n \in Nonces, pending_requests'[c][n] # 0
          PROVE  LET q == pending_requests'[c][n]
                 IN  request'[q].pc # "none" /\ request'[q].conn = c /\ request'[q].id = n
        <3>1. pending_requests[c][n] \in Requests
            BY <2>2 DEF TableShape
        <3> QED
            BY <2>2, <3>1 DEF PendingMatches
    <2> QED
        BY <2>1, <2>2 DEF PendingMatches
<1>2. UNCHANGED request_results => ResultsMatch'
    BY DEF ResultsMatch
<1> QED
    BY <1>1, <1>2

\* Steps of connections, of handlers, and timers that begin.
LEMMA QuietKeepsRequests ==
    ASSUME TasksInv, RequestsInv, Quiet
    PROVE  RequestsInv'
<1> USE DEF TasksInv, Shape, RequestsInv
<1>1. SameCalls
    BY DEF SameCalls, Quiet, GivenUp
<1>2. IdsInv'
    BY <1>1, IdsKept DEF IdsInv, Quiet
<1>3. PendingMatches' /\ ResultsMatch'
    BY <1>1, TablesKept DEF Quiet, tables
<1>4. AnswersMatch'
    BY DEF AnswersMatch, Quiet, GivenUp
<1>5. NoWakeupLost'
    BY DEF NoWakeupLost, Quiet, GivenUp, tables
<1> QED
    BY <1>2, <1>3, <1>4, <1>5 DEF IdsInv

\* time_out sets the event of the request that waits under its nonce.
LEMMA TimerEndsKeepsRequests ==
    ASSUME TasksInv, RequestsInv, NEW r \in Requests, TimerEnds(r)
    PROVE  RequestsInv'
<1> USE DEF TasksInv, Shape, RequestsInv
<1>1. UNCHANGED <<conn, pending_requests, request_results>>
    BY DEF TimerEnds, tables
<1>2. SameCalls
    BY TimerEndsDoes DEF SameCalls
<1>3. IdsInv'
    BY <1>1, <1>2, IdsKept DEF IdsInv
<1>4. PendingMatches' /\ ResultsMatch'
    BY <1>1, <1>2, TablesKept
<1>5. AnswersMatch'
    BY TimerEndsDoes DEF AnswersMatch
<1>6. NoWakeupLost'
    <2> SUFFICES ASSUME NEW s \in Requests, request'[s].pc = "waiting"
                 PROVE  /\ request'[s].timer = "over" => request'[s].event
                        /\ request_results'[request'[s].conn][request'[s].id] # NoAnswer
                              => request'[s].event
        BY DEF NoWakeupLost
    <2>1. /\ request[s].pc = "waiting"
          /\ request'[s].conn = request[s].conn /\ request'[s].id = request[s].id
          /\ request[s].event => request'[s].event
        BY TimerEndsDoes
    <2>2. CASE s = r
        <3>1. pending_requests[request[r].conn][request[r].id] = r
            BY <2>1, <2>2 DEF PendingMatches
        <3>2. request'[s].event
            BY <2>1, <2>2, <3>1, TimerEndsDoes
        <3> QED
            BY <3>2
    <2>3. CASE s # r
        <3>1. request'[s].timer = request[s].timer
            BY <2>3, TimerEndsDoes
        <3> QED
            BY <1>1, <2>1, <3>1 DEF NoWakeupLost
    <2> QED
        BY <2>2, <2>3
<1> QED
    BY <1>3, <1>4, <1>5, <1>6 DEF IdsInv

\* A message is read: an answer is stored under the nonce of its request, and a request
\* of the peer never finds a request of this side under its id.
LEMMA MessagesKeepRequests ==
    ASSUME TasksInv, RequestsInv,
           (\E r \in Requests : PeerAnswers(r)) \/ (\E c \in Conns : PeerRequests(c))
    PROVE  RequestsInv'
<1> USE DEF TasksInv, Shape, RequestsInv
<1>1. ASSUME NEW c \in Conns, NEW id \in Nonces, NEW what \in Answers, ReadMessage(c, id, what),
             \/ Queued(c, id)
             \/ /\ what \in Requests /\ Made(what)
                /\ request[what].conn = c /\ request[what].id = id
      PROVE  RequestsInv'
    <2>1. UNCHANGED <<conn, pending_requests>>
        BY <1>1, ReadMessageDoes
    <2>2. SameCalls
        BY <1>1, ReadMessageDoes DEF SameCalls
    <2>3. IdsInv'
        BY <2>1, <2>2, IdsKept DEF IdsInv
    <2>4. PendingMatches'
        BY <2>1, <2>2, TablesKept
    <2>5. AnswersMatch'
        BY <1>1, ReadMessageDoes DEF AnswersMatch
    <2>6. \A s \in Requests : request[s].pc = "waiting" =>
             /\ request[s].conn \in Conns /\ request[s].id \in Nonces
             /\ pending_requests[request[s].conn][request[s].id] = s
        BY DEF PendingMatches, RequestShape, RequestType
    <2>7. \A s \in Requests :
             /\ request'[s].pc = request[s].pc /\ request'[s].conn = request[s].conn
             /\ request'[s].id = request[s].id /\ request'[s].timer = request[s].timer
             /\ request[s].event => request'[s].event
        BY <1>1, ReadMessageDoes
    <2>8. CASE Queued(c, id)
        <3>1. UNCHANGED request_results
            BY <2>8 DEF Queued
        <3>2. ResultsMatch'
            BY <2>2, <3>1, TablesKept
        <3>3. NoWakeupLost'
            BY <2>7, <3>1 DEF NoWakeupLost
        <3> QED
            BY <2>3, <2>4, <2>5, <3>2, <3>3 DEF IdsInv
    <2>9. CASE Answered(c, id, what) /\ ~Queued(c, id)
        <3>1. /\ request_results' = [request_results EXCEPT ![c][id] = what]
              /\ \A s \in Requests :
                    s = pending_requests[c][id] /\ request[s].pc = "waiting" => request'[s].event
              /\ what \in Requests /\ Made(what)
              /\ request[what].conn = c /\ request[what].id = id
            BY <1>1, <2>9 DEF Answered
        <3>2. \A d \in Conns, n \in Nonces :
                 /\ <<d, n>> # <<c, id>> => request_results'[d][n] = request_results[d][n]
                 /\ <<d, n>> = <<c, id>> => request_results'[d][n] = what
            BY <3>1 DEF TableShape
        <3>3. ResultsMatch'
            <4> SUFFICES ASSUME NEW d \in Conns, NEW n \in Nonces, request_results'[d][n] # NoAnswer
                         PROVE  LET a == request_results'[d][n]
                                IN  a \in Requests /\ request'[a].pc # "none"
                                    /\ request'[a].conn = d /\ request'[a].id = n
                BY DEF ResultsMatch, Made
            <4>1. CASE <<d, n>> = <<c, id>>
                BY <2>7, <3>1, <3>2, <4>1 DEF Made
            <4>2. CASE <<d, n>> # <<c, id>>
                BY <2>7, <3>2, <4>2 DEF Made, ResultsMatch
            <4> QED
                BY <4>1, <4>2
        <3>4. NoWakeupLost'
            <4> SUFFICES ASSUME NEW s \in Requests, request'[s].pc = "waiting"
                         PROVE  /\ request'[s].timer = "over" => request'[s].event
                                /\ request_results'[request'[s].conn][request'[s].id] # NoAnswer
                                      => request'[s].event
                BY DEF NoWakeupLost
            <4>1. CASE <<request[s].conn, request[s].id>> = <<c, id>>
                BY <2>6, <2>7, <3>1, <4>1
            <4>2. CASE <<request[s].conn, request[s].id>> # <<c, id>>
                BY <2>6, <2>7, <3>2, <4>2 DEF NoWakeupLost
            <4> QED
                BY <4>1, <4>2
        <3> QED
            BY <2>3, <2>4, <2>5, <3>3, <3>4 DEF IdsInv
    <2> QED
        BY <1>1, <2>8, <2>9, ReadMessageDoes
<1>2. ASSUME NEW r \in Requests, PeerAnswers(r) PROVE RequestsInv'
    <2>1. /\ request[r].conn \in Conns /\ request[r].id \in Nonces /\ r \in Answers
          /\ Made(r) /\ ReadMessage(request[r].conn, request[r].id, r)
        BY <1>2 DEF PeerAnswers, RequestShape, RequestType, Answers, Made
    <2> QED
        BY <1>1, <2>1
<1>3. ASSUME NEW c \in Conns, PeerRequests(c) PROVE RequestsInv'
    <2>1. PICK id \in OtherHalf(c) : ReadMessage(c, id, PeerRequest)
        BY <1>3 DEF PeerRequests, OtherHalf
    <2>2. id \in Nonces /\ PeerRequest \in Answers /\ id \notin OwnHalf(c)
        BY <2>1, Halves DEF Answers
    <2>3. pending_requests[c][id] = 0
        <3> SUFFICES ASSUME pending_requests[c][id] # 0 PROVE FALSE
            OBVIOUS
        <3>1. pending_requests[c][id] \in Requests
            BY <2>2 DEF TableShape
        <3> QED
            BY <2>2, <3>1 DEF PendingMatches, IdsInHalf
    <2>4. Queued(c, id)
        BY <2>1, <2>2, <2>3, ReadMessageDoes DEF Answered
    <2> QED
        BY <1>1, <2>1, <2>2, <2>4
<1> QED
    BY <1>2, <1>3

\* create_request returns the answer that is under its nonce and clears the two tables.
LEMMA RequestReturnsKeepsRequests ==
    ASSUME TasksInv, RequestsInv, NEW r \in Requests, RequestReturns(r)
    PROVE  RequestsInv'
<1> USE DEF TasksInv, Shape, RequestsInv
<1> DEFINE c == request[r].conn
           id == request[r].id
<1>1. /\ request[r].pc = "waiting"
      /\ pending_requests' = [pending_requests EXCEPT ![c][id] = 0]
      /\ request_results' = [request_results EXCEPT ![c][id] = NoAnswer]
      /\ UNCHANGED conn
    BY DEF RequestReturns
<1>2. c \in Conns /\ id \in Nonces
    BY <1>1 DEF RequestShape, RequestType
<1> HIDE DEF c, id
<1>3. SameCalls
    BY <1>1, RequestReturnsDoes DEF SameCalls
<1>4. IdsInv'
    BY <1>1, <1>3, IdsKept DEF IdsInv
<1>5. \A d \in Conns, n \in Nonces :
         /\ <<d, n>> # <<c, id>> => /\ pending_requests'[d][n] = pending_requests[d][n]
                                    /\ request_results'[d][n] = request_results[d][n]
         /\ <<d, n>> = <<c, id>> => pending_requests'[d][n] = 0 /\ request_results'[d][n] = NoAnswer
    BY <1>1, <1>2 DEF TableShape
<1>6. \A s \in Requests : request'[s].pc = "waiting" =>
         /\ request[s].pc = "waiting" /\ request'[s] = request[s]
         /\ request[s].conn \in Conns /\ request[s].id \in Nonces
         /\ <<request[s].conn, request[s].id>> # <<c, id>>
    BY <1>1, RequestReturnsDoes DEF IdsDiffer, Made, RequestShape, RequestType, c, id
<1>7. PendingMatches'
    <2>1. \A s \in Requests : request'[s].pc = "waiting" =>
             pending_requests'[request'[s].conn][request'[s].id] = s
        BY <1>5, <1>6 DEF PendingMatches
    <2>2. ASSUME NEW d \in Conns, NEW n \in Nonces, pending_requests'[d][n] # 0
          PROVE  LET q == pending_requests'[d][n]
                 IN  request'[q].pc # "none" /\ request'[q].conn = d /\ request'[q].id = n
        <3>1. pending_requests'[d][n] = pending_requests[d][n] /\ pending_requests[d][n] \in Requests
            BY <1>5, <2>2 DEF TableShape
        <3> QED
            BY <1>3, <2>2, <3>1 DEF PendingMatches, SameCalls, Made
    <2> QED
        BY <2>1, <2>2 DEF PendingMatches, Made
<1>8. ResultsMatch'
    <2> SUFFICES ASSUME NEW d \in Conns, NEW n \in Nonces, request_results'[d][n] # NoAnswer
                 PROVE  LET a == request_results'[d][n]
                        IN  a \in Requests /\ request'[a].pc # "none"
                            /\ request'[a].conn = d /\ request'[a].id = n
        BY DEF ResultsMatch, Made
    <2>1. request_results'[d][n] = request_results[d][n]
        BY <1>5
    <2> QED
        BY <1>3, <2>1 DEF ResultsMatch, SameCalls, Made
<1>9. AnswersMatch'
    <2>1. request_results[c][id] \in {NoAnswer, r}
        BY <1>1, <1>2 DEF ResultsMatch, IdsDiffer, Made, c, id
    <2> QED
        BY <2>1, RequestReturnsDoes DEF AnswersMatch, c, id
<1>10. NoWakeupLost'
    BY <1>5, <1>6 DEF NoWakeupLost
<1> QED
    BY <1>4, <1>7, <1>8, <1>9, <1>10 DEF IdsInv

\* A request that is made gets a nonce that no other one has had, and finds no answer
\* under it.
LEMMA MakesKeepsRequests ==
    ASSUME TasksInv, RequestsInv, NoncesNotReused, NEW r \in Requests, NEW c \in Conns, NEW t,
           Makes(r, c, t)
    PROVE  RequestsInv'
<1> USE DEF TasksInv, Shape, RequestsInv
<1> DEFINE n == conn[c].nonce
<1>1. /\ request[r].pc = "none" /\ \A q \in 1..r - 1 : request[q].pc # "none"
      /\ request'[r].pc = "waiting" /\ request'[r].conn = c /\ request'[r].id = n
      /\ request'[r].timer = "created" /\ request'[r].result = NoAnswer
      /\ \A s \in Requests : s # r => request'[s] = request[s]
      /\ pending_requests' = [pending_requests EXCEPT ![c][n] = r]
      /\ conn'[c].nonce = NextNonce(c \in Outbound, n)
      /\ \A d \in Conns : d # c => conn'[d] = conn[d]
      /\ UNCHANGED request_results
    BY DEF Makes
<1>2. n \in OwnHalf(c) /\ n \in Nonces
    BY Halves DEF NonceInHalf
<1>3. \A s \in Requests : Made(s) =>
         /\ s # r /\ request[s].conn \in Conns /\ request[s].id \in Nonces
         /\ request[s].id < conn[request[s].conn].nonce
    BY <1>1 DEF Made, NextNonceNew, RequestShape, RequestType
<1>4. \A s \in Requests : Made(s) => <<request[s].conn, request[s].id>> # <<c, n>>
    BY <1>2, <1>3 DEF Nonces
<1>5. \A s \in Requests : request'[s].pc # "none" => s = r \/ (Made(s) /\ request'[s] = request[s])
    BY <1>1 DEF Made
<1>6. IdsDiffer'
    BY <1>1, <1>4, <1>5 DEF IdsDiffer, Made
<1>7. IdsInHalf'
    <2>1. \A s \in Requests : request'[s].pc # "none" => request'[s].id \in OwnHalf(request'[s].conn)
        BY <1>1, <1>2, <1>5 DEF IdsInHalf
    <2> QED
        BY <2>1 DEF IdsInHalf, Made, OwnHalf
<1>8. NextNonceNew'
    <2> SUFFICES ASSUME NEW m \in Requests, request'[m].pc = "none"
                 PROVE  /\ \A d \in Conns : conn'[d].nonce <= FirstNonce(d \in Outbound) + (m - 1)
                        /\ \A s \in Requests : request'[s].pc # "none" =>
                              request'[s].id < conn'[request'[s].conn].nonce
        BY DEF NextNonceNew, Made
    <2>1. m # r /\ ~Made(m) /\ ~Made(r)
        BY <1>1 DEF Made
    <2>2. r < m /\ m <= HALF
        BY <1>1, <2>1, Constants DEF Requests, NoncesNotReused, Made
    <2>3. n <= FirstNonce(c \in Outbound) + (r - 1)
        BY <2>1 DEF NextNonceNew
    <2>4. conn'[c].nonce = n + 1 /\ n \in Nat /\ FirstNonce(c \in Outbound) \in Nat
        <3>1. FirstNonce(c \in Outbound) \in Nat
              /\ LastNonce(c \in Outbound) = FirstNonce(c \in Outbound) + (HALF - 1)
            BY Constants DEF FirstNonce, LastNonce
        <3>2. r \in Nat /\ m \in Nat /\ HALF \in Nat /\ n \in Nat
            BY <1>2, Constants DEF Requests, Nonces
        <3>3. n # LastNonce(c \in Outbound)
            BY <2>2, <2>3, <3>1, <3>2
        <3> QED
            BY <1>1, <3>1, <3>2, <3>3 DEF NextNonce
    <2>5. ASSUME NEW d \in Conns PROVE conn'[d].nonce <= FirstNonce(d \in Outbound) + (m - 1)
        <3>1. CASE d = c
            BY <2>2, <2>3, <2>4, <3>1, Constants DEF Requests
        <3>2. CASE d # c
            BY <1>1, <2>1, <3>2 DEF NextNonceNew
        <3> QED
            BY <3>1, <3>2
    <2>6. ASSUME NEW s \in Requests, request'[s].pc # "none"
          PROVE  request'[s].id < conn'[request'[s].conn].nonce
        <3>1. CASE s = r
            BY <1>1, <2>4, <3>1
        <3>2. CASE s # r /\ request[s].conn = c
            BY <1>1, <1>3, <1>5, <2>4, <2>6, <3>2 DEF Nonces
        <3>3. CASE s # r /\ request[s].conn # c
            BY <1>1, <1>3, <1>5, <2>6, <3>3
        <3> QED
            BY <3>1, <3>2, <3>3
    <2> QED
        BY <2>5, <2>6
<1>9. \A d \in Conns, k \in Nonces :
         /\ <<d, k>> # <<c, n>> => pending_requests'[d][k] = pending_requests[d][k]
         /\ <<d, k>> = <<c, n>> => pending_requests'[d][k] = r
    BY <1>1, <1>2 DEF TableShape
<1>10. PendingMatches'
    <2>1. ASSUME NEW s \in Requests, request'[s].pc = "waiting"
          PROVE  pending_requests'[request'[s].conn][request'[s].id] = s
        <3>1. CASE s = r
            BY <1>1, <1>2, <1>9, <3>1
        <3>2. CASE s # r
            <4>1. Made(s) /\ request'[s] = request[s]
                BY <1>5, <2>1, <3>2
            <4> QED
                BY <1>3, <1>4, <1>9, <2>1, <4>1 DEF PendingMatches
        <3> QED
            BY <3>1, <3>2
    <2>2. ASSUME NEW d \in Conns, NEW k \in Nonces, pending_requests'[d][k] # 0
          PROVE  LET q == pending_requests'[d][k]
                 IN  request'[q].pc # "none" /\ request'[q].conn = d /\ request'[q].id = k
        <3>1. CASE <<d, k>> = <<c, n>>
            BY <1>1, <1>9, <3>1
        <3>2. CASE <<d, k>> # <<c, n>>
            <4>1. /\ pending_requests'[d][k] = pending_requests[d][k]
                  /\ pending_requests[d][k] \in Requests
                BY <1>9, <2>2, <3>2 DEF TableShape
            <4>2. LET q == pending_requests[d][k]
                  IN  Made(q) /\ request[q].conn = d /\ request[q].id = k
                BY <2>2, <4>1 DEF PendingMatches
            <4>3. request'[pending_requests[d][k]] = request[pending_requests[d][k]]
                BY <1>1, <4>1, <4>2 DEF Made
            <4> QED
                BY <4>1, <4>2, <4>3 DEF Made
        <3> QED
            BY <3>1, <3>2
    <2> QED
        BY <2>1, <2>2 DEF PendingMatches, Made
<1>11. ResultsMatch'
    BY <1>1 DEF ResultsMatch, Made
<1>12. AnswersMatch'
    BY <1>1 DEF AnswersMatch
<1>13. request_results[c][n] = NoAnswer
    BY <1>2, <1>4 DEF ResultsMatch
<1>14. NoWakeupLost'
    BY <1>1, <1>13 DEF NoWakeupLost
<1> QED
    BY <1>6, <1>7, <1>8, <1>10, <1>11, <1>12, <1>14

\* A server starts without requests.
LEMMA RequestsInvInit == Init => RequestsInv
<1> SUFFICES ASSUME Init PROVE RequestsInv
    OBVIOUS
<1>1. /\ \A r \in Requests : request[r].pc = "none" /\ request[r].result = NoAnswer
      /\ \A c \in Conns, n \in Nonces : /\ pending_requests[c][n] = 0
                                        /\ request_results[c][n] = NoAnswer
      /\ \A c \in Conns : conn[c].nonce = FirstNonce(c \in Outbound)
    BY DEF Init, NoRequest, Unused
<1>2. IdsDiffer /\ IdsInHalf /\ AnswersMatch /\ NoWakeupLost
    BY <1>1 DEF IdsDiffer, IdsInHalf, AnswersMatch, NoWakeupLost, Made
<1>3. PendingMatches /\ ResultsMatch
    BY <1>1 DEF PendingMatches, ResultsMatch
<1>4. NextNonceNew
    <2>1. \A c \in Conns : FirstNonce(c \in Outbound) \in Nat
        BY Constants DEF FirstNonce
    <2>2. \A m \in Requests : m - 1 \in Nat
        BY Constants DEF Requests
    <2> QED
        BY <1>1, <2>1, <2>2 DEF NextNonceNew, Made
<1> QED
    BY <1>2, <1>3, <1>4 DEF RequestsInv

\* While nonces are not reused, every step keeps requests and answers apart.
LEMMA RequestsInvStep ==
    ASSUME NoncesNotReused
    PROVE  TasksInv /\ RequestsInv /\ [Next]_vars => RequestsInv'
<1> SUFFICES ASSUME TasksInv, RequestsInv, [Next]_vars PROVE RequestsInv'
    OBVIOUS
<1>1. CASE Next
    BY <1>1, StepKinds, QuietKeepsRequests, TimerEndsKeepsRequests, MessagesKeepRequests,
       RequestReturnsKeepsRequests, MakesKeepsRequests
<1>2. CASE UNCHANGED vars
    <2>1. Quiet
        BY <1>2, SameRequest DEF vars, tables, Quiet, TasksInv, Shape, RequestShape
    <2> QED
        BY <2>1, QuietKeepsRequests
<1> QED
    BY <1>1, <1>2

\* Requests and answers are kept apart in every behaviour.
LEMMA RequestsInvHolds ==
    ASSUME NoncesNotReused
    PROVE  Spec => []RequestsInv
<1>1. TasksInv /\ RequestsInv /\ [Next]_vars => RequestsInv'
    BY RequestsInvStep
<1> QED
    BY <1>1, RequestsInvInit, TasksInvHolds, PTL DEF Spec

\* create_request returns nothing or the answer to this very request (AnswersMatch): it
\* takes neither a request of the peer for its answer, nor an answer that comes after the
\* timeout of an earlier request; unless the 2^15 nonces of a side come round.
THEOREM AnswersAreMatched == NoncesNotReused => (Spec => []AnswersMatch)
<1> SUFFICES ASSUME NoncesNotReused PROVE Spec => []AnswersMatch
    OBVIOUS
<1>1. RequestsInv => AnswersMatch
    BY DEF RequestsInv
<1>2. Spec => []RequestsInv
    BY RequestsInvHolds
<1> QED
    BY <1>1, <1>2, PTL

\* An answer that is there and a timer that has run out have set the event of a request
\* that waits (NoWakeupLost), whatever answers and timeouts of others come between.
THEOREM WakeupsAreKept == NoncesNotReused => (Spec => []NoWakeupLost)
<1> SUFFICES ASSUME NoncesNotReused PROVE Spec => []NoWakeupLost
    OBVIOUS
<1>1. RequestsInv => NoWakeupLost
    BY DEF RequestsInv
<1>2. Spec => []RequestsInv
    BY RequestsInvHolds
<1> QED
    BY <1>1, <1>2, PTL
=============================================================================
