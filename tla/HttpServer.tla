------------------------------ MODULE HttpServer ------------------------------
(***************************************************************************)
(* The OpenAI HTTP server of src/serve/server.cpp: the thread that calls   *)
(* start() and stop(), the accept thread, the worker pool, the bounded     *)
(* queue of accepted sockets under queue_mutex_ with its condition         *)
(* variable, and the engine shared under engine_mutex_.                    *)
(*                                                                         *)
(* A request is abstracted to how handle_client leaves it: dropped,        *)
(* answered without the engine (CORS, health, models and every 4xx), or    *)
(* passed to Engine::generate, plain or streaming.  A response is the      *)
(* sequence of its parts.                                                  *)
(***************************************************************************)
EXTENDS Integers, Sequences, FiniteSets

CONSTANTS
  Workers,           \* the worker threads start() launches
  Clients,           \* connections, each used once
  MaxQueued,         \* config_.max_queued_requests
  MaxStarts,         \* bound on calls of start()
  CloseWakesAccept,  \* closing the listening socket ends a blocked accept()
  EngineMayThrow,    \* an exception may leave Engine::generate
  HostMayThrow,      \* handle_client may throw outside its inner try
  SpuriousWakeups,   \* condition-variable waits may return unprovoked
  AcceptMayFail,     \* accept() may fail while the server runs
  Free               \* no thread, no socket

ASSUME ServerAssumption ==
  /\ Workers # {} /\ IsFiniteSet(Workers)
  /\ MaxQueued \in Nat /\ MaxStarts \in Nat
  /\ CloseWakesAccept \in BOOLEAN /\ EngineMayThrow \in BOOLEAN
  /\ HostMayThrow \in BOOLEAN /\ SpuriousWakeups \in BOOLEAN
  /\ AcceptMayFail \in BOOLEAN
  /\ Free \notin Workers \cup Clients

VARIABLES
  running,       \* is_running_
  listening,     \* server_socket_ is open
  mainPc,        \* the thread that calls start() and stop()
  starts,
  acceptPc, acceptFd,        \* accept_loop and its client_fd
  queue,         \* client_queue_
  queueMutex,    \* queue_mutex_: its holder, or Free
  waiting,       \* workers blocked in queue_cv_.wait
  engineMutex,   \* engine_mutex_: its holder, or Free
  workerPc, clientSock,      \* worker_loop and its client_sock
  streaming,     \* req.stream of the request each worker handles
  conn,          \* each connection; "backlog": in the kernel's queue
  response       \* the parts sent on each connection

mainVars == <<running, listening, mainPc, starts>>
acceptVars == <<acceptPc, acceptFd>>
queueVars == <<queue, queueMutex, waiting>>
workerVars == <<workerPc, clientSock, streaming, engineMutex>>
connVars == <<conn, response>>
vars == <<mainVars, acceptVars, queueVars, workerVars, connVars>>

Init ==
  /\ running = FALSE /\ listening = FALSE
  /\ mainPc = "idle" /\ starts = 0
  /\ acceptPc = "off" /\ acceptFd = Free
  /\ queue = << >> /\ queueMutex = Free /\ waiting = {}
  /\ engineMutex = Free
  /\ workerPc = [w \in Workers |-> "off"]
  /\ clientSock = [w \in Workers |-> Free]
  /\ streaming = [w \in Workers |-> FALSE]
  /\ conn = [c \in Clients |-> "new"]
  /\ response = [c \in Clients |-> << >>]

send(c, part) == response' = [response EXCEPT ![c] = Append(@, part)]
CLOSE_SOCKET(c) == conn' = [conn EXCEPT ![c] = "closed"]

-----------------------------------------------------------------------------
(***************************************************************************)
(* start() and stop().                                                     *)
(***************************************************************************)
start ==
  /\ mainPc = "idle" /\ ~running /\ starts < MaxStarts
  /\ running' = TRUE /\ listening' = TRUE
  /\ mainPc' = "up" /\ starts' = starts + 1
  /\ acceptPc' = "check"
  /\ workerPc' = [w \in Workers |-> "check"]
  /\ UNCHANGED <<acceptFd, queueVars, clientSock, streaming, engineMutex, connVars>>

stop ==
  /\ mainPc = "up" /\ running
  /\ running' = FALSE
  /\ mainPc' = "close"
  /\ UNCHANGED <<listening, starts, acceptVars, queueVars, workerVars, connVars>>

\* The kernel refuses its backlog when the listening socket goes away.
\* Where close() does not wake a blocked accept(), that call keeps it alive.
KernelKeepsListener == acceptPc = "blocked" /\ ~CloseWakesAccept
Refused(c) == conn[c] = "backlog"

stop_close_listener ==
  /\ mainPc = "close"
  /\ listening' = FALSE
  /\ mainPc' = "joinAccept"
  /\ conn' = [c \in Clients |-> IF Refused(c) /\ ~KernelKeepsListener
                                 THEN "refused" ELSE conn[c]]
  /\ UNCHANGED <<running, starts, acceptVars, queueVars, workerVars, response>>

stop_join_accept ==
  /\ mainPc = "joinAccept" /\ acceptPc = "exited"
  /\ mainPc' = "notify"
  /\ UNCHANGED <<running, listening, starts, acceptVars, queueVars, workerVars,
                 connVars>>

\* Mutant: notify_all without queue_mutex_.
stop_notify_all_Unlocked ==
  /\ mainPc = "notify"
  /\ waiting' = {}
  /\ workerPc' = [w \in Workers |-> IF w \in waiting THEN "lock" ELSE workerPc[w]]
  /\ mainPc' = "joinWorkers"
  /\ UNCHANGED <<running, listening, starts, acceptVars, queue, queueMutex,
                 clientSock, streaming, engineMutex, connVars>>

\* notify_all with queue_mutex_ held.
stop_notify_all ==
  /\ mainPc = "notify" /\ queueMutex = Free
  /\ waiting' = {}
  /\ workerPc' = [w \in Workers |-> IF w \in waiting THEN "lock" ELSE workerPc[w]]
  /\ mainPc' = "joinWorkers"
  /\ UNCHANGED <<running, listening, starts, acceptVars, queue, queueMutex,
                 clientSock, streaming, engineMutex, connVars>>

stop_join_workers ==
  /\ mainPc = "joinWorkers" /\ \A w \in Workers : workerPc[w] = "exited"
  /\ mainPc' = "drain"
  /\ UNCHANGED <<running, listening, starts, acceptVars, queueVars, workerVars,
                 connVars>>

\* Mutant: the queue is emptied without closing its sockets.
stop_drain_LeavesOpen ==
  /\ mainPc = "drain" /\ queueMutex = Free
  /\ queue' = << >>
  /\ mainPc' = "idle"
  /\ UNCHANGED <<running, listening, starts, acceptVars, queueMutex, waiting,
                 workerVars, connVars>>

\* The sockets still queued are closed unanswered.
stop_drain ==
  /\ mainPc = "drain" /\ queueMutex = Free
  /\ conn' = [c \in Clients |-> IF \E i \in DOMAIN queue : queue[i] = c
                                  THEN "closed" ELSE conn[c]]
  /\ queue' = << >>
  /\ mainPc' = "idle"
  /\ UNCHANGED <<running, listening, starts, acceptVars, queueMutex, waiting,
                 workerVars, response>>

-----------------------------------------------------------------------------
(***************************************************************************)
(* A client connects; the kernel queues it for accept().                   *)
(***************************************************************************)
connect(c) ==
  /\ conn[c] = "new"
  /\ listening \/ KernelKeepsListener
  /\ conn' = [conn EXCEPT ![c] = "backlog"]
  /\ UNCHANGED <<mainVars, acceptVars, queueVars, workerVars, response>>

(***************************************************************************)
(* accept_loop.                                                            *)
(***************************************************************************)
accept_check ==
  /\ acceptPc = "check"
  /\ acceptPc' = IF running THEN "call" ELSE "exited"
  /\ UNCHANGED <<mainVars, acceptFd, queueVars, workerVars, connVars>>

\* Entering accept(): on a closed descriptor it fails at once.
accept_call ==
  /\ acceptPc = "call"
  /\ acceptPc' = IF listening THEN "blocked" ELSE "failed"
  /\ UNCHANGED <<mainVars, acceptFd, queueVars, workerVars, connVars>>

accept_returns(c) ==
  /\ acceptPc = "blocked" /\ conn[c] = "backlog"
  /\ conn' = [d \in Clients |-> IF d = c THEN "open"
                                ELSE IF Refused(d) /\ ~listening THEN "refused"
                                ELSE conn[d]]
  /\ acceptFd' = c
  /\ acceptPc' = "enqueue"
  /\ UNCHANGED <<mainVars, queueVars, workerVars, response>>

accept_woken ==
  /\ acceptPc = "blocked" /\ ~listening /\ CloseWakesAccept
  /\ acceptPc' = "failed"
  /\ UNCHANGED <<mainVars, acceptFd, queueVars, workerVars, connVars>>

\* A transient error: an aborted connection, no descriptors left.
accept_error ==
  /\ AcceptMayFail
  /\ acceptPc = "blocked"
  /\ acceptPc' = "failed"
  /\ UNCHANGED <<mainVars, acceptFd, queueVars, workerVars, connVars>>

\* An invalid socket: leave if the server stopped, else sleep and retry.
accept_failed ==
  /\ acceptPc = "failed"
  /\ acceptPc' = IF running THEN "check" ELSE "exited"
  /\ UNCHANGED <<mainVars, acceptFd, queueVars, workerVars, connVars>>

\* Mutants: the limit is looked at after the push; the descriptor is
\* invalidated before the push.
accept_enqueue_PushFirst ==
  /\ acceptPc = "enqueue" /\ queueMutex = Free
  /\ queue' = Append(queue, acceptFd)
  /\ IF Len(queue) < MaxQueued
       THEN acceptFd' = Free /\ acceptPc' = "notify"
       ELSE acceptPc' = "refuse" /\ UNCHANGED acceptFd
  /\ UNCHANGED <<mainVars, queueMutex, waiting, workerVars, connVars>>
\* Under queue_mutex_: push, or refuse when the backlog is full.
accept_enqueue ==
  /\ acceptPc = "enqueue" /\ queueMutex = Free
  /\ IF Len(queue) < MaxQueued
       THEN /\ queue' = Append(queue, acceptFd)
            /\ acceptFd' = Free
            /\ acceptPc' = "notify"
       ELSE acceptPc' = "refuse" /\ UNCHANGED <<queue, acceptFd>>
  /\ UNCHANGED <<mainVars, queueMutex, waiting, workerVars, connVars>>

\* Mutant: no worker is woken.
accept_notify_one_Silent ==
  /\ acceptPc = "notify"
  /\ acceptPc' = "check"
  /\ UNCHANGED <<mainVars, acceptFd, queueVars, workerVars, connVars>>

\* notify_one, after the mutex was released.
accept_notify_one ==
  /\ acceptPc = "notify"
  /\ IF waiting = {}
       THEN UNCHANGED <<waiting, workerPc>>
       ELSE \E w \in waiting :
              /\ waiting' = waiting \ {w}
              /\ workerPc' = [workerPc EXCEPT ![w] = "lock"]
  /\ acceptPc' = "check"
  /\ UNCHANGED <<mainVars, acceptFd, queue, queueMutex, clientSock, streaming,
                 engineMutex, connVars>>

accept_refuse ==
  /\ acceptPc = "refuse"
  /\ send(acceptFd, "503")
  /\ CLOSE_SOCKET(acceptFd)
  /\ acceptFd' = Free
  /\ acceptPc' = "check"
  /\ UNCHANGED <<mainVars, queueVars, workerVars>>

-----------------------------------------------------------------------------
(***************************************************************************)
(* worker_loop.                                                            *)
(***************************************************************************)
goto(w, label) == workerPc' = [workerPc EXCEPT ![w] = label]

worker_check(w) ==
  /\ workerPc[w] = "check"
  /\ goto(w, IF running THEN "lock" ELSE "exited")
  /\ UNCHANGED <<mainVars, acceptVars, queueVars, clientSock, streaming,
                 engineMutex, connVars>>

worker_lock(w) ==
  /\ workerPc[w] = "lock" /\ queueMutex = Free
  /\ queueMutex' = w
  /\ goto(w, "test")
  /\ UNCHANGED <<mainVars, acceptVars, queue, waiting, clientSock, streaming,
                 engineMutex, connVars>>

\* The wait predicate, evaluated with the mutex held: sleep, leave, or take
\* the oldest socket.
worker_test(w) ==
  /\ workerPc[w] = "test"
  /\ IF running /\ queue = << >>
       THEN /\ goto(w, "sleep")
            /\ UNCHANGED <<queue, queueMutex, clientSock>>
     ELSE IF queue = << >>
       THEN /\ goto(w, "exited")
            /\ queueMutex' = Free
            /\ UNCHANGED <<queue, clientSock>>
     ELSE /\ clientSock' = [clientSock EXCEPT ![w] = Head(queue)]
          /\ queue' = Tail(queue)
          /\ queueMutex' = Free
          /\ goto(w, "handle")
  /\ UNCHANGED <<mainVars, acceptVars, waiting, streaming, engineMutex, connVars>>

\* queue_cv_.wait releases the mutex and joins the waiters in one step.
worker_sleep(w) ==
  /\ workerPc[w] = "sleep"
  /\ waiting' = waiting \cup {w}
  /\ queueMutex' = Free
  /\ goto(w, "waiting")
  /\ UNCHANGED <<mainVars, acceptVars, queue, clientSock, streaming, engineMutex,
                 connVars>>

spurious_wakeup(w) ==
  /\ SpuriousWakeups
  /\ w \in waiting
  /\ waiting' = waiting \ {w}
  /\ goto(w, "lock")
  /\ UNCHANGED <<mainVars, acceptVars, queue, queueMutex, clientSock, streaming,
                 engineMutex, connVars>>

-----------------------------------------------------------------------------
(***************************************************************************)
(* handle_client.                                                          *)
(***************************************************************************)
\* recv fails or times out before the headers are complete.
handle_drop(w) ==
  /\ workerPc[w] = "handle"
  /\ goto(w, "close")
  /\ UNCHANGED <<mainVars, acceptVars, queueVars, clientSock, streaming,
                 engineMutex, connVars>>

\* OPTIONS, GET /health, GET /v1/models, and every request refused before
\* the engine is used (404, 400, 413, 408, 431).
handle_without_engine(w) ==
  /\ workerPc[w] = "handle"
  /\ send(clientSock[w], "answer")
  /\ goto(w, "close")
  /\ UNCHANGED <<mainVars, acceptVars, queueVars, clientSock, streaming,
                 engineMutex, conn>>

\* An exception before the inner try: worker_loop catches it and goes on;
\* nothing closes the socket.
handle_throws(w) ==
  /\ HostMayThrow
  /\ workerPc[w] = "handle"
  /\ clientSock' = [clientSock EXCEPT ![w] = Free]
  /\ goto(w, "check")
  /\ UNCHANGED <<mainVars, acceptVars, queueVars, streaming, engineMutex, connVars>>

handle_chat(w, stream) ==
  /\ workerPc[w] = "handle"
  /\ streaming' = [streaming EXCEPT ![w] = stream]
  /\ goto(w, "lockEngine")
  /\ UNCHANGED <<mainVars, acceptVars, queueVars, clientSock, engineMutex, connVars>>

\* Mutant: the engine is used without engine_mutex_.
lock_engine_Unlocked(w) ==
  /\ workerPc[w] = "lockEngine"
  /\ engineMutex' = w
  /\ IF streaming[w] THEN send(clientSock[w], "sse-200") ELSE UNCHANGED response
  /\ goto(w, "generate")
  /\ UNCHANGED <<mainVars, acceptVars, queueVars, clientSock, streaming, conn>>

\* A streaming response sends its header and role chunk before generating.
lock_engine(w) ==
  /\ workerPc[w] = "lockEngine" /\ engineMutex = Free
  /\ engineMutex' = w
  /\ IF streaming[w] THEN send(clientSock[w], "sse-200") ELSE UNCHANGED response
  /\ goto(w, "generate")
  /\ UNCHANGED <<mainVars, acceptVars, queueVars, clientSock, streaming, conn>>

\* Mutant: a failed stream is given an error body, as a plain response is.
generate_returns_ErrorBody(w, success) ==
  /\ workerPc[w] = "generate"
  /\ send(clientSock[w], IF ~success THEN "error"
                         ELSE IF streaming[w] THEN "finish" ELSE "200")
  /\ engineMutex' = Free
  /\ goto(w, "close")
  /\ UNCHANGED <<mainVars, acceptVars, queueVars, clientSock, streaming, conn>>

\* The result: a streaming response ends in a finish chunk and [DONE] and
\* never looks at result.success; a plain one is 200 or an error status.
generate_returns(w, success) ==
  /\ workerPc[w] = "generate"
  /\ send(clientSock[w], IF streaming[w] THEN "finish"
                         ELSE IF success THEN "200" ELSE "error")
  /\ engineMutex' = Free
  /\ goto(w, "close")
  /\ UNCHANGED <<mainVars, acceptVars, queueVars, clientSock, streaming, conn>>

\* The exception unwinds the lock_guard before the catch clause runs.
generate_throws(w) ==
  /\ EngineMayThrow
  /\ workerPc[w] = "generate"
  /\ engineMutex' = Free
  /\ goto(w, "reset")
  /\ UNCHANGED <<mainVars, acceptVars, queueVars, clientSock, streaming, connVars>>

\* engine_.reset() returns (or throws into catch (...) {}); then the 500.
reset_returns(w) ==
  /\ workerPc[w] = "reset"
  /\ send(clientSock[w], "500")
  /\ goto(w, "close")
  /\ UNCHANGED <<mainVars, acceptVars, queueVars, clientSock, streaming,
                 engineMutex, conn>>

close_socket(w) ==
  /\ workerPc[w] = "close"
  /\ CLOSE_SOCKET(clientSock[w])
  /\ clientSock' = [clientSock EXCEPT ![w] = Free]
  /\ streaming' = [streaming EXCEPT ![w] = FALSE]
  /\ goto(w, "check")
  /\ UNCHANGED <<mainVars, acceptVars, queueVars, engineMutex, response>>

-----------------------------------------------------------------------------
StopStep ==
  \/ stop_close_listener \/ stop_join_accept \/ stop_notify_all
  \/ stop_join_workers \/ stop_drain

AcceptStep ==
  \/ accept_check \/ accept_call \/ (\E c \in Clients : accept_returns(c))
  \/ accept_woken \/ accept_failed \/ accept_enqueue \/ accept_notify_one
  \/ accept_refuse

WorkerStep(w) ==
  \/ worker_check(w) \/ worker_lock(w) \/ worker_test(w) \/ worker_sleep(w)
  \/ handle_drop(w) \/ handle_without_engine(w) \/ handle_throws(w)
  \/ (\E s \in BOOLEAN : handle_chat(w, s))
  \/ lock_engine(w)
  \/ (\E ok \in BOOLEAN : generate_returns(w, ok))
  \/ generate_throws(w) \/ reset_returns(w) \/ close_socket(w)

Next ==
  \/ start \/ stop \/ StopStep
  \/ \E c \in Clients : connect(c)
  \/ AcceptStep \/ accept_error
  \/ \E w \in Workers : WorkerStep(w) \/ spurious_wakeup(w)

Spec == Init /\ [][Next]_vars

\* Every thread that can run is scheduled; recv ends (SO_RCVTIMEO), send
\* ends because the client reads, and so does generate (see Generation).
Fairness ==
  /\ WF_vars(StopStep) /\ WF_vars(AcceptStep)
  /\ \A w \in Workers : WF_vars(WorkerStep(w))

FairSpec == Spec /\ Fairness

-----------------------------------------------------------------------------
MainPcs == {"idle", "up", "close", "joinAccept", "notify", "joinWorkers", "drain"}
AcceptPcs == {"off", "check", "call", "blocked", "failed", "enqueue", "notify",
              "refuse", "exited"}
WorkerPcs == {"off", "check", "lock", "test", "sleep", "waiting", "handle",
              "lockEngine", "generate", "reset", "close", "exited"}
Parts == {"503", "answer", "sse-200", "finish", "200", "error", "500"}

\* Types of the server's state.
TypeOK ==
  /\ running \in BOOLEAN /\ listening \in BOOLEAN
  /\ mainPc \in MainPcs /\ starts \in 0 .. MaxStarts
  /\ acceptPc \in AcceptPcs /\ acceptFd \in Clients \cup {Free}
  /\ queue \in Seq(Clients)
  /\ queueMutex \in Workers \cup {Free}
  /\ waiting \in SUBSET Workers
  /\ engineMutex \in Workers \cup {Free}
  /\ workerPc \in [Workers -> WorkerPcs]
  /\ clientSock \in [Workers -> Clients \cup {Free}]
  /\ streaming \in [Workers -> BOOLEAN]
  /\ conn \in [Clients -> {"new", "backlog", "refused", "open", "closed"}]
  /\ response \in [Clients -> Seq(Parts)]

\* A socket in the queue, and one in a worker's hands.
InQueue(c) == \E i \in DOMAIN queue : queue[i] = c
AtWorker(c) == \E w \in Workers : clientSock[w] = c

\* An accepted socket is in one pair of hands, and only while it is open:
\* no thread can answer or close a descriptor that another one holds or has
\* closed (accept_loop, client_queue_, worker_loop, handle_client, stop).
SocketsHaveOneOwner ==
  /\ \A c \in Clients : acceptFd = c \/ InQueue(c) \/ AtWorker(c)
                          => conn[c] = "open"
  /\ acceptFd # Free => ~InQueue(acceptFd) /\ ~AtWorker(acceptFd)
  /\ \A c \in Clients : InQueue(c) => ~AtWorker(c)
  /\ \A i, j \in DOMAIN queue : queue[i] = queue[j] => i = j
  /\ \A v, w \in Workers : clientSock[v] = clientSock[w] /\ v # w
                             => clientSock[v] = Free

\* Two requests are never inside Engine::generate at once (handle_client,
\* the lock_guard on engine_mutex_).
GenerateExclusive ==
  \A v, w \in Workers : workerPc[v] = "generate" /\ workerPc[w] = "generate"
                           => v = w

\* When stop() has returned, every accepted connection is closed: the one
\* the accept thread held, the queued ones and those being served (stop).
StopLeavesNothingOpen ==
  mainPc = "idle" => \A c \in Clients : conn[c] # "open"

\* A closed connection carries at most one response, and a streaming one
\* ends in [DONE]; nothing follows it (handle_client).
StreamEndsWithDone ==
  \A c \in Clients : conn[c] = "closed" =>
    \/ Len(response[c]) <= 1 /\ response[c] # <<"sse-200">>
    \/ response[c] = <<"sse-200", "finish">>

\* The engine is used by one request at a time, its recovery after an
\* exception included (handle_client, engine_.reset() in the catch clauses).
EngineCallsSerialized ==
  \A v, w \in Workers :
    {workerPc[v], workerPc[w]} \subseteq {"generate", "reset"} => v = w

-----------------------------------------------------------------------------
(***************************************************************************)
(* The inductive invariant behind the safety properties: which program     *)
(* points hold a socket or a lock, and which threads can still run once    *)
(* stop() has joined them.                                                 *)
(***************************************************************************)
Serving == {"handle", "lockEngine", "generate", "reset", "close"}

HoldingPoints ==
  /\ acceptPc \in {"enqueue", "refuse"} <=> acceptFd # Free
  /\ \A w \in Workers : workerPc[w] \in Serving <=> clientSock[w] # Free
  /\ \A w \in Workers : workerPc[w] = "generate" => engineMutex = w
  /\ \A w \in waiting : workerPc[w] = "waiting"

JoinedThreads ==
  /\ mainPc \in {"notify", "joinWorkers", "drain", "idle"}
       => acceptPc \in {"off", "exited"}
  /\ mainPc \in {"drain", "idle"}
       => \A w \in Workers : workerPc[w] \in {"off", "exited"}
  /\ mainPc = "idle" => queue = << >>

NoSocketLost ==
  HostMayThrow \/ \A c \in Clients :
    conn[c] = "open" => acceptFd = c \/ InQueue(c) \/ AtWorker(c)

ServerInv ==
  TypeOK /\ HoldingPoints /\ JoinedThreads /\ SocketsHaveOneOwner /\ NoSocketLost

-----------------------------------------------------------------------------
\* stop() returns: no thread it joins can stay asleep (stop, accept_loop,
\* queue_cv_.wait and notify_all).
StopReturns == mainPc = "close" ~> mainPc = "idle"

\* An accepted connection is eventually closed, served or not: no wakeup is
\* lost between accept_loop and the workers, before or across a stop.
AcceptedIsClosed ==
  \A c \in Clients : conn[c] = "open" ~> conn[c] = "closed"
=============================================================================
