--------------------------- MODULE HttpServer_proofs ---------------------------
(***************************************************************************)
(* Proofs about HttpServer, for any number of workers and clients, any     *)
(* queue limit and any number of restarts.                                 *)
(***************************************************************************)
EXTENDS HttpServer, TLAPS

-----------------------------------------------------------------------------
(***************************************************************************)
(* Type correctness.                                                       *)
(***************************************************************************)
LEMMA TypeInit == Init => TypeOK
  <1> SUFFICES ASSUME Init PROVE TypeOK
    OBVIOUS
  <1>1. starts \in 0 .. MaxStarts
    BY ServerAssumption DEF Init
  <1>2. queue \in Seq(Clients) /\ response \in [Clients -> Seq(Parts)]
    BY DEF Init
  <1> QED
    BY <1>1, <1>2 DEF Init, TypeOK, MainPcs, AcceptPcs, WorkerPcs

LEMMA SendType ==
  ASSUME NEW c \in Clients, NEW part \in Parts,
         response \in [Clients -> Seq(Parts)], send(c, part)
  PROVE  response' \in [Clients -> Seq(Parts)]
  <1>1. Append(response[c], part) \in Seq(Parts)
    OBVIOUS
  <1> QED BY <1>1 DEF send

LEMMA MainType ==
  ASSUME TypeOK, start \/ stop \/ StopStep
  PROVE  TypeOK'
  <1> USE ServerAssumption
  <1>1. CASE start
    BY <1>1 DEF TypeOK, MainPcs, AcceptPcs, WorkerPcs, start, queueVars, connVars
  <1>2. CASE stop
    BY <1>2 DEF TypeOK, MainPcs, stop, acceptVars, queueVars, workerVars, connVars
  <1>3. CASE stop_close_listener
    BY <1>3 DEF TypeOK, MainPcs, stop_close_listener, acceptVars, queueVars, workerVars
  <1>4. CASE stop_join_accept
    BY <1>4 DEF TypeOK, MainPcs, stop_join_accept, acceptVars, queueVars, workerVars,
                connVars
  <1>5. CASE stop_notify_all
    BY <1>5 DEF TypeOK, MainPcs, WorkerPcs, stop_notify_all, acceptVars, connVars
  <1>6. CASE stop_join_workers
    BY <1>6 DEF TypeOK, MainPcs, stop_join_workers, acceptVars, queueVars, workerVars,
                connVars
  <1>7. CASE stop_drain
    BY <1>7 DEF TypeOK, MainPcs, stop_drain, acceptVars, workerVars
  <1> QED BY <1>1, <1>2, <1>3, <1>4, <1>5, <1>6, <1>7 DEF StopStep

LEMMA AcceptType ==
  ASSUME TypeOK,
         AcceptStep \/ accept_error \/ \E c \in Clients : connect(c),
         HoldingPoints
  PROVE  TypeOK'
  <1> USE ServerAssumption
  <1>1. ASSUME NEW c \in Clients, connect(c) PROVE TypeOK'
    BY <1>1 DEF TypeOK, connect, mainVars, acceptVars, queueVars, workerVars
  <1>2. CASE accept_check
    BY <1>2 DEF TypeOK, AcceptPcs, accept_check, mainVars, queueVars, workerVars, connVars
  <1>3. CASE accept_call
    BY <1>3 DEF TypeOK, AcceptPcs, accept_call, mainVars, queueVars, workerVars, connVars
  <1>4. ASSUME NEW c \in Clients, accept_returns(c) PROVE TypeOK'
    BY <1>4 DEF TypeOK, AcceptPcs, accept_returns, mainVars, queueVars, workerVars
  <1>5. CASE accept_woken
    BY <1>5 DEF TypeOK, AcceptPcs, accept_woken, mainVars, queueVars, workerVars, connVars
  <1>6. CASE accept_failed
    BY <1>6 DEF TypeOK, AcceptPcs, accept_failed, mainVars, queueVars, workerVars, connVars
  <1>7. CASE accept_enqueue
    <2>1. acceptFd \in Clients
      BY <1>7 DEF TypeOK, accept_enqueue, HoldingPoints
    <2>2. Append(queue, acceptFd) \in Seq(Clients)
      BY <2>1 DEF TypeOK
    <2> QED
      BY <1>7, <2>2 DEF TypeOK, AcceptPcs, accept_enqueue, mainVars, workerVars, connVars
  <1>8. CASE accept_notify_one
    BY <1>8 DEF TypeOK, AcceptPcs, WorkerPcs, accept_notify_one, mainVars, connVars
  <1>9. CASE accept_refuse
    <2>1. acceptFd \in Clients
      BY <1>9 DEF TypeOK, accept_refuse, HoldingPoints
    <2>2. response' \in [Clients -> Seq(Parts)]
      BY <1>9, <2>1, SendType DEF TypeOK, accept_refuse, Parts
    <2> QED
      BY <1>9, <2>2 DEF TypeOK, AcceptPcs, accept_refuse, CLOSE_SOCKET, mainVars,
                        queueVars, workerVars
  <1>10. CASE accept_error
    BY <1>10 DEF TypeOK, AcceptPcs, accept_error, mainVars, queueVars, workerVars, connVars
  <1> QED
    BY <1>1, <1>2, <1>3, <1>4, <1>5, <1>6, <1>7, <1>8, <1>9, <1>10 DEF AcceptStep
LEMMA WorkerType ==
  ASSUME TypeOK, HoldingPoints, NEW w \in Workers,
         WorkerStep(w) \/ spurious_wakeup(w)
  PROVE  TypeOK'
  <1> USE ServerAssumption
  <1>0. workerPc[w] \in Serving => clientSock[w] \in Clients
    BY DEF TypeOK, HoldingPoints
  <1>1. CASE worker_check(w)
    BY <1>1 DEF TypeOK, WorkerPcs, worker_check, goto, mainVars, acceptVars, queueVars,
                connVars
  <1>2. CASE worker_lock(w)
    BY <1>2 DEF TypeOK, WorkerPcs, worker_lock, goto, mainVars, acceptVars, connVars
  <1>3. CASE worker_test(w)
    <2>1. queue # << >> => Head(queue) \in Clients /\ Tail(queue) \in Seq(Clients)
      BY DEF TypeOK
    <2> USE DEF worker_test, goto, mainVars, acceptVars, connVars
    <2>2. CASE running /\ queue = << >>
      BY <1>3, <2>2 DEF TypeOK, WorkerPcs
    <2>3. CASE ~running /\ queue = << >>
      BY <1>3, <2>3 DEF TypeOK, WorkerPcs
    <2>4. CASE queue # << >>
      <3>1. /\ clientSock' = [clientSock EXCEPT ![w] = Head(queue)]
            /\ queue' = Tail(queue) /\ queueMutex' = Free
            /\ workerPc' = [workerPc EXCEPT ![w] = "handle"]
            /\ UNCHANGED <<mainVars, acceptVars, waiting, streaming, engineMutex, connVars>>
        BY <1>3, <2>4
      <3>2. clientSock' \in [Workers -> Clients \cup {Free}]
        BY <2>1, <2>4, <3>1 DEF TypeOK
      <3>3. queue' \in Seq(Clients)
        BY <2>1, <2>4, <3>1
      <3>4. workerPc' \in [Workers -> WorkerPcs]
        BY <3>1 DEF TypeOK, WorkerPcs
      <3> QED BY <3>1, <3>2, <3>3, <3>4 DEF TypeOK
    <2> QED
      BY <2>2, <2>3, <2>4 DEF TypeOK
  <1>4. CASE worker_sleep(w)
    BY <1>4 DEF TypeOK, WorkerPcs, worker_sleep, goto, mainVars, acceptVars, connVars
  <1>5. CASE spurious_wakeup(w)
    BY <1>5 DEF TypeOK, WorkerPcs, spurious_wakeup, goto, mainVars, acceptVars, connVars
  <1>6. CASE handle_drop(w)
    BY <1>6 DEF TypeOK, WorkerPcs, handle_drop, goto, mainVars, acceptVars, queueVars,
                connVars
  <1>7. CASE handle_without_engine(w)
    <2>1. response' \in [Clients -> Seq(Parts)]
      BY <1>0, <1>7, SendType DEF TypeOK, handle_without_engine, Parts, Serving
    <2> QED
      BY <1>7, <2>1 DEF TypeOK, WorkerPcs, handle_without_engine, goto, mainVars,
                        acceptVars, queueVars
  <1>8. CASE handle_throws(w)
    BY <1>8 DEF TypeOK, WorkerPcs, handle_throws, goto, mainVars, acceptVars, queueVars,
                connVars
  <1>9. ASSUME NEW s \in BOOLEAN, handle_chat(w, s) PROVE TypeOK'
    BY <1>9 DEF TypeOK, WorkerPcs, handle_chat, goto, mainVars, acceptVars, queueVars,
                connVars
  <1>10. CASE lock_engine(w)
    <2>1. response' \in [Clients -> Seq(Parts)]
      BY <1>0, <1>10, SendType DEF TypeOK, lock_engine, Parts, Serving
    <2> QED
      BY <1>10, <2>1 DEF TypeOK, WorkerPcs, lock_engine, goto, mainVars, acceptVars,
                         queueVars
  <1>11. ASSUME NEW ok \in BOOLEAN, generate_returns(w, ok) PROVE TypeOK'
    <2>1. response' \in [Clients -> Seq(Parts)]
      BY <1>0, <1>11, SendType DEF TypeOK, generate_returns, Parts, Serving
    <2> QED
      BY <1>11, <2>1 DEF TypeOK, WorkerPcs, generate_returns, goto, mainVars, acceptVars,
                         queueVars
  <1>12. CASE generate_throws(w)
    BY <1>12 DEF TypeOK, WorkerPcs, generate_throws, goto, mainVars, acceptVars,
                 queueVars, connVars
  <1>13. CASE reset_returns(w)
    <2>1. response' \in [Clients -> Seq(Parts)]
      BY <1>0, <1>13, SendType DEF TypeOK, reset_returns, Parts, Serving
    <2> QED
      BY <1>13, <2>1 DEF TypeOK, WorkerPcs, reset_returns, goto, mainVars, acceptVars,
                         queueVars
  <1>14. CASE close_socket(w)
    BY <1>14 DEF TypeOK, WorkerPcs, close_socket, CLOSE_SOCKET, goto, mainVars,
                 acceptVars, queueVars
  <1> QED
    BY <1>1, <1>2, <1>3, <1>4, <1>5, <1>6, <1>7, <1>8, <1>9, <1>10, <1>11, <1>12,
       <1>13, <1>14 DEF WorkerStep

-----------------------------------------------------------------------------
(***************************************************************************)
(* Program points that hold a socket or a lock, and threads already joined.*)
(***************************************************************************)
LEMMA MainControl ==
  ASSUME TypeOK, HoldingPoints, JoinedThreads, start \/ stop \/ StopStep
  PROVE  HoldingPoints' /\ JoinedThreads'
  <1> USE ServerAssumption DEF TypeOK, HoldingPoints, JoinedThreads, Serving
  <1>1. CASE start
    BY <1>1 DEF start, queueVars, connVars
  <1>2. CASE stop
    BY <1>2 DEF stop, acceptVars, queueVars, workerVars, connVars
  <1>3. CASE stop_close_listener
    BY <1>3 DEF stop_close_listener, acceptVars, queueVars, workerVars
  <1>4. CASE stop_join_accept
    BY <1>4 DEF stop_join_accept, acceptVars, queueVars, workerVars
  <1>5. CASE stop_notify_all
    BY <1>5 DEF stop_notify_all, acceptVars
  <1>6. CASE stop_join_workers
    BY <1>6 DEF stop_join_workers, acceptVars, queueVars, workerVars
  <1>7. CASE stop_drain
    BY <1>7 DEF stop_drain, acceptVars, workerVars
  <1> QED BY <1>1, <1>2, <1>3, <1>4, <1>5, <1>6, <1>7 DEF StopStep

LEMMA AcceptControl ==
  ASSUME TypeOK, HoldingPoints, JoinedThreads,
         AcceptStep \/ accept_error \/ \E c \in Clients : connect(c)
  PROVE  HoldingPoints' /\ JoinedThreads'
  <1> USE ServerAssumption DEF TypeOK, HoldingPoints, JoinedThreads, Serving
  <1>1. ASSUME NEW c \in Clients, connect(c) PROVE HoldingPoints' /\ JoinedThreads'
    BY <1>1 DEF connect, mainVars, acceptVars, queueVars, workerVars
  <1>2. CASE accept_check
    BY <1>2 DEF accept_check, mainVars, queueVars, workerVars
  <1>3. CASE accept_call
    BY <1>3 DEF accept_call, mainVars, queueVars, workerVars
  <1>4. ASSUME NEW c \in Clients, accept_returns(c)
        PROVE  HoldingPoints' /\ JoinedThreads'
    BY <1>4 DEF accept_returns, mainVars, queueVars, workerVars
  <1>5. CASE accept_woken
    BY <1>5 DEF accept_woken, mainVars, queueVars, workerVars
  <1>6. CASE accept_failed
    BY <1>6 DEF accept_failed, mainVars, queueVars, workerVars
  <1>7. CASE accept_enqueue
    BY <1>7 DEF accept_enqueue, mainVars, workerVars
  <1>8. CASE accept_notify_one
    BY <1>8 DEF accept_notify_one, mainVars
  <1>9. CASE accept_refuse
    BY <1>9 DEF accept_refuse, mainVars, queueVars, workerVars
  <1>10. CASE accept_error
    BY <1>10 DEF accept_error, mainVars, queueVars, workerVars
  <1> QED
    BY <1>1, <1>2, <1>3, <1>4, <1>5, <1>6, <1>7, <1>8, <1>9, <1>10 DEF AcceptStep

LEMMA WorkerControl ==
  ASSUME TypeOK, HoldingPoints, JoinedThreads, NEW w \in Workers,
         WorkerStep(w) \/ spurious_wakeup(w)
  PROVE  HoldingPoints' /\ JoinedThreads'
  <1> USE ServerAssumption DEF TypeOK, HoldingPoints, JoinedThreads, Serving, goto
  <1>1. CASE worker_check(w)
    BY <1>1 DEF worker_check, mainVars, acceptVars, queueVars
  <1>2. CASE worker_lock(w)
    BY <1>2 DEF worker_lock, mainVars, acceptVars
  <1>3. CASE worker_test(w)
    <2>1. queue # << >> => Head(queue) \in Clients /\ Head(queue) # Free
      OBVIOUS
    <2> USE DEF worker_test, mainVars, acceptVars
    <2>2. CASE running /\ queue = << >>
      <3>1. /\ workerPc' = [workerPc EXCEPT ![w] = "sleep"]
            /\ UNCHANGED <<mainPc, acceptPc, acceptFd, waiting, engineMutex, queue,
                           queueMutex, clientSock>>
            /\ workerPc[w] = "test"
        BY <1>3, <2>2
      <3>2. HoldingPoints'
        BY <3>1
      <3>3. JoinedThreads'
        BY <3>1
      <3> QED BY <3>2, <3>3
    <2>3. CASE ~running /\ queue = << >>
      <3>1. /\ workerPc' = [workerPc EXCEPT ![w] = "exited"]
            /\ UNCHANGED <<mainPc, acceptPc, acceptFd, waiting, engineMutex, queue,
                           clientSock>>
            /\ workerPc[w] = "test"
        BY <1>3, <2>3
      <3>2. HoldingPoints'
        BY <3>1
      <3>3. JoinedThreads'
        BY <3>1
      <3> QED BY <3>2, <3>3
    <2>4. CASE queue # << >>
      <3>1. /\ clientSock' = [clientSock EXCEPT ![w] = Head(queue)]
            /\ queue' = Tail(queue) /\ queueMutex' = Free
            /\ workerPc' = [workerPc EXCEPT ![w] = "handle"]
            /\ UNCHANGED <<mainPc, acceptPc, acceptFd, waiting, engineMutex>>
        BY <1>3, <2>4
      <3>2. HoldingPoints'
        BY <1>3, <2>1, <2>4, <3>1
      <3>3. JoinedThreads'
        BY <1>3, <2>4, <3>1
      <3> QED BY <3>2, <3>3
    <2> QED
      BY <2>2, <2>3, <2>4
  <1>4. CASE worker_sleep(w)
    BY <1>4 DEF worker_sleep, mainVars, acceptVars
  <1>5. CASE spurious_wakeup(w)
    BY <1>5 DEF spurious_wakeup, mainVars, acceptVars
  <1>6. CASE handle_drop(w)
    BY <1>6 DEF handle_drop, mainVars, acceptVars, queueVars
  <1>7. CASE handle_without_engine(w)
    BY <1>7 DEF handle_without_engine, mainVars, acceptVars, queueVars
  <1>8. CASE handle_throws(w)
    BY <1>8 DEF handle_throws, mainVars, acceptVars, queueVars
  <1>9. ASSUME NEW s \in BOOLEAN, handle_chat(w, s)
        PROVE  HoldingPoints' /\ JoinedThreads'
    BY <1>9 DEF handle_chat, mainVars, acceptVars, queueVars
  <1>10. CASE lock_engine(w)
    BY <1>10 DEF lock_engine, mainVars, acceptVars, queueVars
  <1>11. ASSUME NEW ok \in BOOLEAN, generate_returns(w, ok)
         PROVE  HoldingPoints' /\ JoinedThreads'
    BY <1>11 DEF generate_returns, mainVars, acceptVars, queueVars
  <1>12. CASE generate_throws(w)
    BY <1>12 DEF generate_throws, mainVars, acceptVars, queueVars
  <1>13. CASE reset_returns(w)
    BY <1>13 DEF reset_returns, mainVars, acceptVars, queueVars
  <1>14. CASE close_socket(w)
    BY <1>14 DEF close_socket, mainVars, acceptVars, queueVars
  <1> QED
    BY <1>1, <1>2, <1>3, <1>4, <1>5, <1>6, <1>7, <1>8, <1>9, <1>10, <1>11, <1>12,
       <1>13, <1>14 DEF WorkerStep

-----------------------------------------------------------------------------
(***************************************************************************)
(* Ownership of sockets.                                                   *)
(***************************************************************************)
Owned == SocketsHaveOneOwner /\ NoSocketLost

\* Steps that move no socket.
LEMMA OwnerFrame ==
  ASSUME Owned, UNCHANGED <<acceptFd, queue, clientSock, conn>>
  PROVE  Owned'
  BY DEF Owned, SocketsHaveOneOwner, NoSocketLost, InQueue, AtWorker

\* Steps of the kernel on connections that were not accepted yet.
LEMMA OwnerKernel ==
  ASSUME TypeOK, Owned, UNCHANGED <<acceptFd, queue, clientSock>>,
         \A c \in Clients : conn[c] = "open" <=> conn'[c] = "open"
  PROVE  Owned'
  BY DEF TypeOK, Owned, SocketsHaveOneOwner, NoSocketLost, InQueue, AtWorker

\* What Append and Tail do to the members of the queue.
LEMMA AppendMembers ==
  ASSUME NEW q \in Seq(Clients), NEW x \in Clients, NEW c
  PROVE  (\E i \in DOMAIN Append(q, x) : Append(q, x)[i] = c)
           <=> c = x \/ \E i \in DOMAIN q : q[i] = c
  <1>1. DOMAIN Append(q, x) = 1 .. Len(q) + 1 /\ DOMAIN q = 1 .. Len(q)
    OBVIOUS
  <1>2. Append(q, x)[Len(q) + 1] = x
    OBVIOUS
  <1>3. \A i \in 1 .. Len(q) : Append(q, x)[i] = q[i]
    OBVIOUS
  <1> QED BY <1>1, <1>2, <1>3

LEMMA TailMembers ==
  ASSUME NEW q \in Seq(Clients), q # << >>, NEW c,
         \A i, j \in DOMAIN q : q[i] = q[j] => i = j
  PROVE  (\E i \in DOMAIN Tail(q) : Tail(q)[i] = c)
           <=> c # Head(q) /\ \E i \in DOMAIN q : q[i] = c
  <1>1. /\ DOMAIN Tail(q) = 1 .. Len(q) - 1 /\ DOMAIN q = 1 .. Len(q)
        /\ Len(q) > 0 /\ Len(q) \in Nat
    OBVIOUS
  <1>2. \A i \in 1 .. Len(q) - 1 : Tail(q)[i] = q[i + 1]
    OBVIOUS
  <1>3. Head(q) = q[1]
    OBVIOUS
  <1>4. ASSUME NEW i \in DOMAIN Tail(q), Tail(q)[i] = c
        PROVE  c # Head(q) /\ \E j \in DOMAIN q : q[j] = c
    <2>1. i + 1 \in DOMAIN q /\ 1 \in DOMAIN q /\ i + 1 # 1 /\ q[i + 1] = c
      BY <1>1, <1>2, <1>4
    <2> QED BY <2>1, <1>3
  <1>5. ASSUME c # Head(q), NEW j \in DOMAIN q, q[j] = c
        PROVE  \E i \in DOMAIN Tail(q) : Tail(q)[i] = c
    <2>1. j # 1
      BY <1>3, <1>5
    <2>2. j - 1 \in DOMAIN Tail(q) /\ Tail(q)[j - 1] = c
      BY <2>1, <1>1, <1>2, <1>5
    <2> QED BY <2>2
  <1> QED BY <1>4, <1>5

LEMMA MainOwner ==
  ASSUME TypeOK, HoldingPoints, JoinedThreads, Owned, start \/ stop \/ StopStep
  PROVE  Owned'
  <1> USE ServerAssumption
  <1>1. CASE start
    BY <1>1, OwnerFrame DEF start, queueVars, connVars
  <1>2. CASE stop
    BY <1>2, OwnerFrame DEF stop, acceptVars, queueVars, workerVars, connVars
  <1>3. CASE stop_close_listener
    BY <1>3, OwnerKernel
       DEF stop_close_listener, acceptVars, queueVars, workerVars, TypeOK, Refused
  <1>4. CASE stop_join_accept
    BY <1>4, OwnerFrame DEF stop_join_accept, acceptVars, queueVars, workerVars, connVars
  <1>5. CASE stop_notify_all
    BY <1>5, OwnerFrame DEF stop_notify_all, acceptVars, connVars
  <1>6. CASE stop_join_workers
    BY <1>6, OwnerFrame DEF stop_join_workers, acceptVars, queueVars, workerVars, connVars
  <1>7. CASE stop_drain
    <2>1. acceptFd = Free /\ \A w \in Workers : clientSock[w] = Free
      BY <1>7 DEF stop_drain, HoldingPoints, JoinedThreads, Serving, TypeOK
    <2>2. /\ queue' = << >> /\ acceptFd' = acceptFd /\ clientSock' = clientSock
          /\ \A c \in Clients : conn'[c] = IF InQueue(c) THEN "closed" ELSE conn[c]
      BY <1>7 DEF stop_drain, acceptVars, workerVars, InQueue
    <2>3. \A c \in Clients : conn[c] = "open" => HostMayThrow \/ InQueue(c)
      BY <2>1 DEF Owned, NoSocketLost, AtWorker
    <2>4. NoSocketLost'
      BY <2>2, <2>3 DEF NoSocketLost
    <2>5. SocketsHaveOneOwner'
      BY <2>1, <2>2 DEF SocketsHaveOneOwner, InQueue, AtWorker
    <2> QED BY <2>4, <2>5 DEF Owned
  <1> QED BY <1>1, <1>2, <1>3, <1>4, <1>5, <1>6, <1>7 DEF StopStep

LEMMA AcceptOwner ==
  ASSUME TypeOK, HoldingPoints, Owned,
         AcceptStep \/ accept_error \/ \E c \in Clients : connect(c)
  PROVE  Owned'
  <1> USE ServerAssumption
  <1>1. ASSUME NEW c \in Clients, connect(c) PROVE Owned'
    BY <1>1, OwnerKernel DEF connect, acceptVars, queueVars, workerVars, TypeOK
  <1>2. CASE accept_check
    BY <1>2, OwnerFrame DEF accept_check, queueVars, workerVars, connVars
  <1>3. CASE accept_call
    BY <1>3, OwnerFrame DEF accept_call, queueVars, workerVars, connVars
  <1>4. ASSUME NEW c \in Clients, accept_returns(c) PROVE Owned'
    <2>1. /\ acceptFd = Free /\ acceptFd' = c
          /\ queue' = queue /\ clientSock' = clientSock /\ conn[c] = "backlog"
      BY <1>4 DEF accept_returns, HoldingPoints, queueVars, workerVars
    <2>2. \A d \in Clients : conn'[d] = "open" <=> d = c \/ conn[d] = "open"
      BY <1>4 DEF accept_returns, Refused
    <2>3. ~InQueue(c) /\ ~AtWorker(c)
      BY <2>1 DEF Owned, SocketsHaveOneOwner
    <2>4. c # Free
      OBVIOUS
    <2>5. SocketsHaveOneOwner'
      BY <2>1, <2>2, <2>3, <2>4 DEF Owned, SocketsHaveOneOwner, InQueue, AtWorker
    <2>6. NoSocketLost'
      BY <2>1, <2>2, <2>4 DEF Owned, NoSocketLost, InQueue, AtWorker
    <2> QED BY <2>5, <2>6 DEF Owned
  <1>5. CASE accept_woken
    BY <1>5, OwnerFrame DEF accept_woken, queueVars, workerVars, connVars
  <1>6. CASE accept_failed
    BY <1>6, OwnerFrame DEF accept_failed, queueVars, workerVars, connVars
  <1>7. CASE accept_enqueue
    <2>1. CASE Len(queue) < MaxQueued
      <3>1. /\ queue' = Append(queue, acceptFd) /\ acceptFd' = Free
            /\ clientSock' = clientSock /\ conn' = conn
            /\ acceptFd \in Clients /\ queue \in Seq(Clients)
        BY <1>7, <2>1 DEF accept_enqueue, workerVars, connVars, HoldingPoints, TypeOK
      <3>2. \A c : InQueue(c)' <=> c = acceptFd \/ InQueue(c)
        BY <3>1, AppendMembers DEF InQueue
      <3>3. \A c : AtWorker(c)' <=> AtWorker(c)
        BY <3>1 DEF AtWorker
      <3>4. \A i, j \in DOMAIN queue' : queue'[i] = queue'[j] => i = j
        <4>1. DOMAIN queue' = 1 .. Len(queue) + 1 /\ DOMAIN queue = 1 .. Len(queue)
          BY <3>1
        <4>2. /\ queue'[Len(queue) + 1] = acceptFd
              /\ \A i \in 1 .. Len(queue) : queue'[i] = queue[i] /\ queue[i] # acceptFd
          BY <3>1 DEF Owned, SocketsHaveOneOwner, InQueue
        <4> QED BY <4>1, <4>2 DEF Owned, SocketsHaveOneOwner
      <3>5. SocketsHaveOneOwner'
        BY <3>1, <3>2, <3>3, <3>4 DEF Owned, SocketsHaveOneOwner
      <3>6. NoSocketLost'
        BY <3>1, <3>2, <3>3 DEF Owned, NoSocketLost
      <3> QED BY <3>5, <3>6 DEF Owned
    <2>2. CASE ~(Len(queue) < MaxQueued)
      BY <1>7, <2>2, OwnerFrame DEF accept_enqueue, workerVars, connVars
    <2> QED BY <2>1, <2>2
  <1>8. CASE accept_notify_one
    BY <1>8, OwnerFrame DEF accept_notify_one, connVars
  <1>9. CASE accept_refuse
    <2>1. /\ acceptFd \in Clients /\ acceptFd' = Free
          /\ queue' = queue /\ clientSock' = clientSock
          /\ conn' = [conn EXCEPT ![acceptFd] = "closed"]
      BY <1>9 DEF accept_refuse, CLOSE_SOCKET, HoldingPoints, TypeOK, queueVars, workerVars
    <2>2. SocketsHaveOneOwner'
      BY <2>1 DEF Owned, SocketsHaveOneOwner, InQueue, AtWorker, TypeOK
    <2>3. NoSocketLost'
      BY <2>1 DEF Owned, NoSocketLost, InQueue, AtWorker, TypeOK
    <2> QED BY <2>2, <2>3 DEF Owned
  <1>10. CASE accept_error
    BY <1>10, OwnerFrame DEF accept_error, queueVars, workerVars, connVars
  <1> QED
    BY <1>1, <1>2, <1>3, <1>4, <1>5, <1>6, <1>7, <1>8, <1>9, <1>10 DEF AcceptStep

LEMMA WorkerOwner ==
  ASSUME TypeOK, HoldingPoints, Owned, NEW w \in Workers,
         WorkerStep(w) \/ spurious_wakeup(w)
  PROVE  Owned'
  <1> USE ServerAssumption
  <1>1. CASE worker_check(w)
    BY <1>1, OwnerFrame DEF worker_check, acceptVars, queueVars, connVars
  <1>2. CASE worker_lock(w)
    BY <1>2, OwnerFrame DEF worker_lock, acceptVars, connVars
  <1>3. CASE worker_test(w)
    <2>1. CASE queue = << >>
      BY <1>3, <2>1, OwnerFrame DEF worker_test, acceptVars, connVars
    <2>2. CASE queue # << >>
      <3> DEFINE h == Head(queue)
      <3>0. /\ clientSock[w] = Free /\ clientSock \in [Workers -> Clients \cup {Free}]
            /\ queue \in Seq(Clients) /\ h \in Clients
        <4>1. queue \in Seq(Clients) /\ clientSock \in [Workers -> Clients \cup {Free}]
          BY DEF TypeOK
        <4>2. h \in Clients
          BY <2>2, <4>1
        <4>3. clientSock[w] = Free
          BY <1>3 DEF worker_test, HoldingPoints, Serving
        <4> QED BY <4>1, <4>2, <4>3
      <3>1. /\ queue' = Tail(queue) /\ clientSock' = [clientSock EXCEPT ![w] = h]
            /\ acceptFd' = acceptFd /\ conn' = conn
            /\ clientSock[w] = Free /\ clientSock \in [Workers -> Clients \cup {Free}]
            /\ queue \in Seq(Clients) /\ h \in Clients
        BY <1>3, <2>2, <3>0 DEF worker_test, acceptVars, connVars
      <3>2. InQueue(h)
        BY <2>2, <3>1 DEF InQueue
      <3>3. \A c : InQueue(c)' <=> c # h /\ InQueue(c)
        <4>1. \A i, j \in DOMAIN queue : queue[i] = queue[j] => i = j
          BY DEF Owned, SocketsHaveOneOwner
        <4> TAKE c
        <4>2. (\E i \in DOMAIN Tail(queue) : Tail(queue)[i] = c)
                <=> c # Head(queue) /\ \E i \in DOMAIN queue : queue[i] = c
          BY <2>2, <3>0, <4>1, TailMembers, Zenon
        <4>3. queue' = Tail(queue)
          BY <3>1
        <4> QED BY <4>2, <4>3, Zenon DEF InQueue
      <3>4. \A c \in Clients : AtWorker(c)' <=> c = h \/ AtWorker(c)
        BY <3>1 DEF AtWorker
      <3>5. ~AtWorker(h) /\ acceptFd # h /\ conn[h] = "open"
        BY <3>1, <3>2 DEF Owned, SocketsHaveOneOwner
      <3>6. \A i, j \in DOMAIN queue' : queue'[i] = queue'[j] => i = j
        <4>1. /\ DOMAIN queue' = 1 .. Len(queue) - 1 /\ DOMAIN queue = 1 .. Len(queue)
              /\ Len(queue) \in Nat
          BY <2>2, <3>1
        <4>2. \A i \in 1 .. Len(queue) - 1 : queue'[i] = queue[i + 1]
          BY <2>2, <3>1
        <4> QED BY <4>1, <4>2 DEF Owned, SocketsHaveOneOwner
      <3>7. \A v, u \in Workers : clientSock'[v] = clientSock'[u] /\ v # u
                                    => clientSock'[v] = Free
        BY <3>1, <3>5 DEF Owned, SocketsHaveOneOwner, AtWorker
      <3>8. acceptFd \in Clients \cup {Free}
        BY DEF TypeOK
      <3>9. SocketsHaveOneOwner'
        BY <3>1, <3>3, <3>4, <3>5, <3>6, <3>7, <3>8 DEF Owned, SocketsHaveOneOwner
      <3>10. NoSocketLost'
        BY <3>1, <3>3, <3>4 DEF Owned, NoSocketLost
      <3> QED BY <3>9, <3>10 DEF Owned
    <2> QED BY <2>1, <2>2
  <1>4. CASE worker_sleep(w)
    BY <1>4, OwnerFrame DEF worker_sleep, acceptVars, connVars
  <1>5. CASE spurious_wakeup(w)
    BY <1>5, OwnerFrame DEF spurious_wakeup, acceptVars, connVars
  <1>6. CASE handle_drop(w)
    BY <1>6, OwnerFrame DEF handle_drop, acceptVars, queueVars, connVars
  <1>7. CASE handle_without_engine(w)
    BY <1>7, OwnerFrame DEF handle_without_engine, acceptVars, queueVars
  <1>8. CASE handle_throws(w)
    <2>1. /\ clientSock' = [clientSock EXCEPT ![w] = Free] /\ queue' = queue
          /\ acceptFd' = acceptFd /\ conn' = conn /\ HostMayThrow
      BY <1>8 DEF handle_throws, acceptVars, queueVars, connVars
    <2>2. \A c \in Clients : AtWorker(c)' => AtWorker(c)
      BY <2>1 DEF AtWorker, TypeOK
    <2>3. SocketsHaveOneOwner'
      BY <2>1, <2>2 DEF Owned, SocketsHaveOneOwner, InQueue, TypeOK
    <2> QED BY <2>1, <2>3 DEF Owned, NoSocketLost
  <1>9. ASSUME NEW s \in BOOLEAN, handle_chat(w, s) PROVE Owned'
    BY <1>9, OwnerFrame DEF handle_chat, acceptVars, queueVars, connVars
  <1>10. CASE lock_engine(w)
    BY <1>10, OwnerFrame DEF lock_engine, acceptVars, queueVars
  <1>11. ASSUME NEW ok \in BOOLEAN, generate_returns(w, ok) PROVE Owned'
    BY <1>11, OwnerFrame DEF generate_returns, acceptVars, queueVars
  <1>12. CASE generate_throws(w)
    BY <1>12, OwnerFrame DEF generate_throws, acceptVars, queueVars, connVars
  <1>13. CASE reset_returns(w)
    BY <1>13, OwnerFrame DEF reset_returns, acceptVars, queueVars
  <1>14. CASE close_socket(w)
    <2> DEFINE s == clientSock[w]
    <2>1. /\ clientSock' = [clientSock EXCEPT ![w] = Free] /\ queue' = queue
          /\ acceptFd' = acceptFd /\ conn' = [conn EXCEPT ![s] = "closed"]
          /\ s \in Clients
      BY <1>14 DEF close_socket, CLOSE_SOCKET, acceptVars, queueVars, HoldingPoints,
                   Serving, TypeOK
    <2>2. AtWorker(s) /\ ~InQueue(s) /\ acceptFd # s
      BY <2>1 DEF Owned, SocketsHaveOneOwner, AtWorker
    <2>3. \A c \in Clients : AtWorker(c)' <=> c # s /\ AtWorker(c)
      BY <2>1 DEF AtWorker, TypeOK, Owned, SocketsHaveOneOwner
    <2>4. SocketsHaveOneOwner'
      BY <2>1, <2>2, <2>3 DEF Owned, SocketsHaveOneOwner, InQueue, TypeOK
    <2>5. NoSocketLost'
      BY <2>1, <2>2, <2>3 DEF Owned, NoSocketLost, InQueue, TypeOK
    <2> QED BY <2>4, <2>5 DEF Owned
  <1> QED
    BY <1>1, <1>2, <1>3, <1>4, <1>5, <1>6, <1>7, <1>8, <1>9, <1>10, <1>11, <1>12,
       <1>13, <1>14 DEF WorkerStep

-----------------------------------------------------------------------------
(***************************************************************************)
(* The inductive invariant and what follows from it.                       *)
(***************************************************************************)
LEMMA ServerInit == Init => ServerInv
  <1> SUFFICES ASSUME Init PROVE ServerInv
    OBVIOUS
  <1> USE ServerAssumption
  <1>1. TypeOK
    BY TypeInit
  <1>2. HoldingPoints /\ JoinedThreads
    BY DEF Init, HoldingPoints, JoinedThreads, Serving
  <1>3. SocketsHaveOneOwner /\ NoSocketLost
    BY DEF Init, SocketsHaveOneOwner, NoSocketLost, InQueue, AtWorker
  <1> QED BY <1>1, <1>2, <1>3 DEF ServerInv

LEMMA ServerNext == ServerInv /\ [Next]_vars => ServerInv'
  <1> SUFFICES ASSUME ServerInv, [Next]_vars PROVE ServerInv'
    OBVIOUS
  <1>0. TypeOK /\ HoldingPoints /\ JoinedThreads /\ Owned
    BY DEF ServerInv, Owned
  <1>1. CASE start \/ stop \/ StopStep
    BY <1>0, <1>1, MainType, MainControl, MainOwner DEF ServerInv, Owned
  <1>2. CASE AcceptStep \/ accept_error \/ \E c \in Clients : connect(c)
    BY <1>0, <1>2, AcceptType, AcceptControl, AcceptOwner DEF ServerInv, Owned
  <1>3. ASSUME NEW w \in Workers, WorkerStep(w) \/ spurious_wakeup(w) PROVE ServerInv'
    BY <1>0, <1>3, WorkerType, WorkerControl, WorkerOwner DEF ServerInv, Owned
  <1>4. CASE UNCHANGED vars
    <2>1. TypeOK'
      BY <1>0, <1>4 DEF vars, mainVars, acceptVars, queueVars, workerVars, connVars, TypeOK
    <2>2. HoldingPoints' /\ JoinedThreads'
      BY <1>0, <1>4 DEF vars, mainVars, acceptVars, queueVars, workerVars, connVars,
                        HoldingPoints, JoinedThreads
    <2>3. Owned'
      BY <1>0, <1>4, OwnerFrame DEF vars, acceptVars, queueVars, workerVars, connVars
    <2> QED BY <2>1, <2>2, <2>3 DEF ServerInv, Owned
  <1> QED BY <1>1, <1>2, <1>3, <1>4 DEF Next

\* ServerInv (types, lock holding points, joined threads, socket ownership) is
\* an invariant of the server.
THEOREM ServerInvariant == Spec => []ServerInv
  BY ServerInit, ServerNext, PTL DEF Spec

\* The server's state always has its type.
THEOREM ServerTypeCorrect == Spec => []TypeOK
  <1>1. ServerInv => TypeOK
    BY DEF ServerInv
  <1> QED BY <1>1, ServerInvariant, PTL

\* An accepted socket never has two owners and is never used once closed,
\* however start, stop, accept_loop and worker_loop interleave.
THEOREM OneOwner == Spec => []SocketsHaveOneOwner
  <1>1. ServerInv => SocketsHaveOneOwner
    BY DEF ServerInv
  <1> QED BY <1>1, ServerInvariant, PTL

\* engine_mutex_ keeps Engine::generate exclusive.
THEOREM OneGenerate == Spec => []GenerateExclusive
  <1>1. ServerInv => GenerateExclusive
    BY DEF ServerInv, HoldingPoints, GenerateExclusive
  <1> QED BY <1>1, ServerInvariant, PTL

\* If handle_client throws nothing outside its inner try, stop() leaves no
\* accepted connection open.
THEOREM CleanStop == ~HostMayThrow => (Spec => []StopLeavesNothingOpen)
  <1> SUFFICES ASSUME ~HostMayThrow PROVE Spec => []StopLeavesNothingOpen
    OBVIOUS
  <1>1. ServerInv => StopLeavesNothingOpen
    <2> SUFFICES ASSUME ServerInv, mainPc = "idle", NEW c \in Clients, conn[c] = "open"
                 PROVE  FALSE
      BY DEF StopLeavesNothingOpen
    <2>1. acceptFd = Free /\ queue = << >> /\ \A w \in Workers : clientSock[w] = Free
      BY DEF ServerInv, HoldingPoints, JoinedThreads, Serving, TypeOK
    <2>2. ~InQueue(c) /\ ~AtWorker(c) /\ acceptFd # c
      BY <2>1, ServerAssumption DEF InQueue, AtWorker
    <2> QED BY <2>2 DEF ServerInv, NoSocketLost
  <1> QED BY <1>1, ServerInvariant, PTL

-----------------------------------------------------------------------------
(***************************************************************************)
(* Responses.                                                              *)
(***************************************************************************)
Whole(r) == (Len(r) <= 1 /\ r # <<"sse-200">>) \/ r = <<"sse-200", "finish">>

\* A connection no worker has had yet.
Unserved(c) == conn[c] \in {"new", "backlog"} \/ acceptFd = c \/ InQueue(c)

\* What a worker has sent by the program point it is at.
Reply(w) ==
  /\ workerPc[w] # "reset"
  /\ workerPc[w] \in {"handle", "lockEngine"} => response[clientSock[w]] = << >>
  /\ workerPc[w] = "generate"
       => response[clientSock[w]] = IF streaming[w] THEN <<"sse-200">> ELSE << >>
  /\ workerPc[w] = "close" => Whole(response[clientSock[w]])

Replies ==
  /\ \A c \in Clients : Unserved(c) => response[c] = << >>
  /\ \A w \in Workers : Reply(w)
  /\ \A c \in Clients : conn[c] = "closed" => Whole(response[c])

LEMMA WholeResponses ==
  /\ Whole(<< >>)
  /\ \A p \in Parts \ {"sse-200"} : Whole(Append(<< >>, p))
  /\ Whole(Append(<<"sse-200">>, "finish")) /\ Append(<< >>, "sse-200") = <<"sse-200">>
  <1>1. Whole(<< >>)
    BY DEF Whole
  <1>2. ASSUME NEW p \in Parts \ {"sse-200"} PROVE Whole(Append(<< >>, p))
    <2>1. Append(<< >>, p) = <<p>> /\ Len(<<p>>) = 1 /\ <<p>> # <<"sse-200">>
      OBVIOUS
    <2> QED BY <2>1 DEF Whole
  <1>3. Append(<<"sse-200">>, "finish") = <<"sse-200", "finish">>
    <2>1. ASSUME NEW a, NEW b PROVE Append(<<a>>, b) = <<a, b>>
      <3>1. <<a>> \in Seq({a, b}) /\ Len(<<a>>) = 1
        OBVIOUS
      <3>2. Append(<<a>>, b) \in Seq({a, b}) /\ Len(Append(<<a>>, b)) = 2
        BY <3>1
      <3>3. Append(<<a>>, b)[1] = a /\ Append(<<a>>, b)[2] = b
        BY <3>1
      <3>4. ASSUME NEW S, NEW s \in Seq(S), NEW t \in Seq(S), Len(s) = Len(t),
                   \A i \in 1 .. Len(s) : s[i] = t[i]
            PROVE  s = t
        BY <3>4
      <3>5. <<a, b>> \in Seq({a, b}) /\ Len(<<a, b>>) = 2
        OBVIOUS
      <3>6. \A i \in 1 .. 2 : Append(<<a>>, b)[i] = <<a, b>>[i]
        BY <3>3
      <3> QED BY <3>2, <3>4, <3>5, <3>6
    <2> QED BY <2>1
  <1>4. Append(<< >>, "sse-200") = <<"sse-200">>
    OBVIOUS
  <1> QED BY <1>1, <1>2, <1>3, <1>4 DEF Whole

\* Steps that send nothing.
LEMMA ReplyFrame ==
  ASSUME Replies, response' = response,
         \A c \in Clients : Unserved(c)' => Unserved(c),
         \A c \in Clients : conn'[c] = "closed" => conn[c] = "closed" \/ Unserved(c),
         \A w \in Workers : \/ workerPc'[w] \notin Serving
                            \/ /\ workerPc'[w] = workerPc[w] /\ clientSock'[w] = clientSock[w]
                               /\ streaming'[w] = streaming[w]
  PROVE  Replies'
  <1>1. \A w \in Workers : Reply(w)'
    BY DEF Replies, Reply, Serving
  <1>2. \A c \in Clients : Unserved(c)' => response'[c] = << >>
    BY DEF Replies
  <1>3. \A c \in Clients : conn'[c] = "closed" => Whole(response'[c])
    BY WholeResponses DEF Replies
  <1> QED BY <1>1, <1>2, <1>3 DEF Replies

\* Steps of a worker with the connection it serves.
LEMMA ReplyWorker ==
  ASSUME TypeOK, HoldingPoints, Owned, Replies, NEW w \in Workers, workerPc[w] \in Serving,
         UNCHANGED <<conn, acceptFd, queue, clientSock>>,
         \A v \in Workers \ {w} : workerPc'[v] = workerPc[v] /\ streaming'[v] = streaming[v],
         \A c \in Clients \ {clientSock[w]} : response'[c] = response[c],
         Reply(w)'
  PROVE  Replies'
  <1> DEFINE s == clientSock[w]
  <1>1. s \in Clients /\ AtWorker(s)
    BY DEF TypeOK, HoldingPoints, AtWorker
  <1>2. conn[s] = "open" /\ acceptFd # s /\ ~ InQueue(s)
    BY <1>1, ServerAssumption DEF Owned, SocketsHaveOneOwner
  <1>3. \A c \in Clients : Unserved(c)' = Unserved(c)
    BY DEF Unserved, InQueue
  <1>4. ~ Unserved(s)
    BY <1>2 DEF Unserved
  <1>5. ASSUME NEW v \in Workers \ {w} PROVE Reply(v)'
    <2>1. CASE workerPc[v] \in Serving
      <3>1. clientSock[v] \in Clients \ {s}
        BY <1>1, <2>1, ServerAssumption DEF TypeOK, HoldingPoints, Owned, SocketsHaveOneOwner
      <3>2. response'[clientSock[v]] = response[clientSock[v]]
        BY <3>1
      <3> QED BY <3>2 DEF Replies, Reply
    <2>2. CASE workerPc[v] \notin Serving
      BY <2>2 DEF Reply, Serving
    <2> QED BY <2>1, <2>2
  <1>6. \A c \in Clients : Unserved(c)' => response'[c] = << >>
    BY <1>3, <1>4 DEF Replies
  <1>7. \A c \in Clients : conn'[c] = "closed" => Whole(response'[c])
    BY <1>2 DEF Replies
  <1> QED BY <1>5, <1>6, <1>7 DEF Replies

LEMMA MainReplies ==
  ASSUME TypeOK, HoldingPoints, JoinedThreads, Owned, Replies, start \/ stop \/ StopStep
  PROVE  Replies'
  <1> USE DEF Unserved, InQueue
  <1>1. CASE start
    BY <1>1, ReplyFrame DEF start, queueVars, connVars, Serving
  <1>2. CASE stop
    BY <1>2, ReplyFrame DEF stop, acceptVars, queueVars, workerVars, connVars
  <1>3. CASE stop_close_listener
    BY <1>3, ReplyFrame DEF stop_close_listener, acceptVars, queueVars, workerVars
  <1>4. CASE stop_join_accept
    BY <1>4, ReplyFrame DEF stop_join_accept, acceptVars, queueVars, workerVars, connVars
  <1>5. CASE stop_notify_all
    BY <1>5, ReplyFrame DEF stop_notify_all, acceptVars, connVars, Serving
  <1>6. CASE stop_join_workers
    BY <1>6, ReplyFrame DEF stop_join_workers, acceptVars, queueVars, workerVars, connVars
  <1>7. CASE stop_drain
    BY <1>7, ReplyFrame DEF stop_drain, acceptVars, workerVars
  <1> QED BY <1>1, <1>2, <1>3, <1>4, <1>5, <1>6, <1>7 DEF StopStep

LEMMA AcceptReplies ==
  ASSUME TypeOK, HoldingPoints, Owned, Replies,
         AcceptStep \/ accept_error \/ \E c \in Clients : connect(c)
  PROVE  Replies'
  <1> USE ServerAssumption
  <1>1. ASSUME NEW c \in Clients, connect(c) PROVE Replies'
    <2>1. /\ UNCHANGED <<response, acceptFd, queue, workerPc, clientSock, streaming>>
          /\ conn[c] = "new" /\ conn' = [conn EXCEPT ![c] = "backlog"]
      BY <1>1 DEF connect, acceptVars, queueVars, workerVars
    <2>2. \A d \in Clients : Unserved(d)' => Unserved(d)
      BY <2>1 DEF TypeOK, Unserved, InQueue
    <2>3. \A d \in Clients : conn'[d] = "closed" => conn[d] = "closed"
      BY <2>1 DEF TypeOK
    <2> QED BY <2>1, <2>2, <2>3, ReplyFrame
  <1>2. CASE accept_check \/ accept_call \/ accept_woken \/ accept_failed \/ accept_error
    <2>1. UNCHANGED <<response, conn, acceptFd, queue, workerPc, clientSock, streaming>>
      BY <1>2 DEF accept_check, accept_call, accept_woken, accept_failed, accept_error,
                  acceptVars, queueVars, workerVars, connVars
    <2> QED BY <2>1, ReplyFrame DEF Unserved, InQueue
  <1>3. ASSUME NEW c \in Clients, accept_returns(c) PROVE Replies'
    <2>1. /\ UNCHANGED <<response, queue, workerPc, clientSock, streaming>> /\ acceptFd' = c
          /\ conn[c] = "backlog"
          /\ \A d \in Clients : conn'[d] = conn[d] \/ conn'[d] \in {"open", "refused"}
      BY <1>3 DEF accept_returns, queueVars, workerVars
    <2>2. \A d \in Clients : Unserved(d)' => Unserved(d)
      BY <2>1 DEF Unserved, InQueue
    <2> QED BY <2>1, <2>2, ReplyFrame
  <1>4. CASE accept_enqueue
    <2>1. UNCHANGED <<response, conn, workerPc, clientSock, streaming>>
      BY <1>4 DEF accept_enqueue, workerVars, connVars
    <2>2. \A d \in Clients : Unserved(d)' => Unserved(d)
      <3>1. CASE Len(queue) < MaxQueued
        <4>1. /\ queue' = Append(queue, acceptFd) /\ acceptFd' = Free
              /\ acceptFd \in Clients /\ queue \in Seq(Clients)
          BY <1>4, <3>1 DEF accept_enqueue, HoldingPoints, TypeOK
        <4>2. \A d : InQueue(d)' <=> d = acceptFd \/ InQueue(d)
          BY <4>1, AppendMembers DEF InQueue
        <4> QED BY <2>1, <4>1, <4>2 DEF Unserved
      <3>2. CASE ~ (Len(queue) < MaxQueued)
        BY <1>4, <2>1, <3>2 DEF accept_enqueue, Unserved, InQueue
      <3> QED BY <3>1, <3>2
    <2> QED BY <2>1, <2>2, ReplyFrame
  <1>5. CASE accept_notify_one
    <2>1. UNCHANGED <<response, conn, acceptFd, queue, clientSock, streaming>>
          /\ \A w \in Workers : workerPc'[w] = workerPc[w] \/ workerPc'[w] = "lock"
      BY <1>5 DEF accept_notify_one, connVars, TypeOK
    <2> QED BY <2>1, ReplyFrame DEF Unserved, InQueue, Serving
  <1>6. CASE accept_refuse
    <2> DEFINE s == acceptFd
    <2>1. /\ s \in Clients /\ acceptFd' = Free
          /\ UNCHANGED <<queue, workerPc, clientSock, streaming>>
          /\ conn' = [conn EXCEPT ![s] = "closed"]
          /\ response' = [response EXCEPT ![s] = Append(response[s], "503")]
      BY <1>6 DEF accept_refuse, send, CLOSE_SOCKET, queueVars, workerVars, HoldingPoints, TypeOK
    <2>2. response[s] = << >> /\ conn[s] = "open" /\ ~ InQueue(s) /\ ~ AtWorker(s)
      BY <2>1 DEF Replies, Unserved, Owned, SocketsHaveOneOwner
    <2>3. /\ \A c \in Clients \ {s} : response'[c] = response[c] /\ conn'[c] = conn[c]
          /\ conn'[s] = "closed" /\ Whole(response'[s])
      BY <2>1, <2>2, WholeResponses DEF TypeOK, Parts
    <2>4. \A c \in Clients : Unserved(c)' => c # s /\ Unserved(c)
      BY <2>1, <2>2, <2>3 DEF Unserved, InQueue
    <2>5. ASSUME NEW w \in Workers PROVE Reply(w)'
      <3>1. CASE workerPc[w] \in Serving
        <4>1. clientSock[w] \in Clients \ {s}
          BY <2>2, <3>1 DEF TypeOK, HoldingPoints, AtWorker
        <4> QED BY <2>1, <2>3, <4>1 DEF Replies, Reply
      <3>2. CASE workerPc[w] \notin Serving
        BY <2>1, <3>2 DEF Reply, Serving
      <3> QED BY <3>1, <3>2
    <2>6. \A c \in Clients : Unserved(c)' => response'[c] = << >>
      BY <2>3, <2>4 DEF Replies
    <2>7. \A c \in Clients : conn'[c] = "closed" => Whole(response'[c])
      BY <2>3 DEF Replies
    <2> QED BY <2>5, <2>6, <2>7 DEF Replies
  <1> QED BY <1>1, <1>2, <1>3, <1>4, <1>5, <1>6 DEF AcceptStep

LEMMA WorkerReplies ==
  ASSUME ~ EngineMayThrow, TypeOK, HoldingPoints, Owned, Replies, NEW w \in Workers,
         WorkerStep(w) \/ spurious_wakeup(w)
  PROVE  Replies'
  <1> USE ServerAssumption
  <1> DEFINE s == clientSock[w]
  <1>0. /\ workerPc[w] \in Serving => s \in Clients
        /\ response \in [Clients -> Seq(Parts)] /\ workerPc \in [Workers -> WorkerPcs]
        /\ streaming \in [Workers -> BOOLEAN] /\ clientSock \in [Workers -> Clients \cup {Free}]
    BY DEF TypeOK, HoldingPoints
  <1>1. CASE worker_check(w) \/ worker_lock(w) \/ worker_sleep(w) \/ spurious_wakeup(w)
    <2>1. /\ UNCHANGED <<response, conn, acceptFd, queue, clientSock, streaming>>
          /\ \E label \in {"lock", "exited", "test", "waiting"} : goto(w, label)
      BY <1>1 DEF worker_check, worker_lock, worker_sleep, spurious_wakeup, acceptVars, queueVars, connVars
    <2>2. \A v \in Workers : workerPc'[v] = workerPc[v] \/ workerPc'[v] \notin Serving
      BY <1>0, <2>1 DEF goto, Serving
    <2> QED BY <2>1, <2>2, ReplyFrame DEF Unserved, InQueue
  <1>2. CASE worker_test(w)
    <2>1. CASE queue = << >>
      <3>1. /\ UNCHANGED <<response, conn, acceptFd, queue, clientSock, streaming>>
            /\ \E label \in {"sleep", "exited"} : goto(w, label)
        BY <1>2, <2>1 DEF worker_test, acceptVars, connVars
      <3>2. \A v \in Workers : workerPc'[v] = workerPc[v] \/ workerPc'[v] \notin Serving
        BY <1>0, <3>1 DEF goto, Serving
      <3> QED BY <3>1, <3>2, ReplyFrame DEF Unserved, InQueue
    <2>2. CASE queue # << >>
      <3> DEFINE h == Head(queue)
      <3>1. /\ queue' = Tail(queue) /\ clientSock' = [clientSock EXCEPT ![w] = h]
            /\ UNCHANGED <<acceptFd, conn, response, streaming>>
            /\ workerPc' = [workerPc EXCEPT ![w] = "handle"]
        BY <1>2, <2>2 DEF worker_test, acceptVars, connVars, goto
      <3>2. queue \in Seq(Clients) /\ h \in Clients /\ InQueue(h)
        BY <2>2 DEF TypeOK, InQueue
      <3>3. \A c : InQueue(c)' => InQueue(c)
        <4>1. \A i, j \in DOMAIN queue : queue[i] = queue[j] => i = j
          BY DEF Owned, SocketsHaveOneOwner
        <4> TAKE c
        <4>2. (\E i \in DOMAIN Tail(queue) : Tail(queue)[i] = c)
                <=> c # Head(queue) /\ \E i \in DOMAIN queue : queue[i] = c
          BY <2>2, <3>2, <4>1, TailMembers, Zenon
        <4>3. queue' = Tail(queue)
          BY <3>1
        <4> QED BY <4>2, <4>3, Zenon DEF InQueue
      <3>4. \A c \in Clients : Unserved(c)' => Unserved(c)
        BY <3>1, <3>3 DEF Unserved
      <3>5. response[h] = << >>
        BY <3>2 DEF Replies, Unserved
      <3>6. ASSUME NEW v \in Workers PROVE Reply(v)'
        <4>1. CASE v = w
          BY <1>0, <3>1, <3>5, <4>1 DEF Reply
        <4>2. CASE v # w
          <5>1. workerPc'[v] = workerPc[v] /\ clientSock'[v] = clientSock[v] /\ streaming' = streaming
                /\ response' = response
            BY <3>1, <4>2
          <5> QED BY <5>1 DEF Replies, Reply
        <4> QED BY <4>1, <4>2
      <3> QED BY <3>1, <3>4, <3>6 DEF Replies
    <2> QED BY <2>1, <2>2
  <1>3. CASE handle_drop(w)
    <2>1. /\ workerPc[w] = "handle" /\ workerPc' = [workerPc EXCEPT ![w] = "close"]
          /\ UNCHANGED <<conn, acceptFd, queue, clientSock, streaming, response>>
      BY <1>3 DEF handle_drop, goto, acceptVars, queueVars, connVars
    <2>2. Reply(w)'
      BY <1>0, <2>1, WholeResponses DEF Reply, Replies
    <2> QED BY <1>0, <2>1, <2>2, ReplyWorker DEF Serving
  <1>4. CASE handle_without_engine(w)
    <2>1. /\ workerPc[w] = "handle" /\ workerPc' = [workerPc EXCEPT ![w] = "close"]
          /\ UNCHANGED <<conn, acceptFd, queue, clientSock, streaming>>
          /\ response' = [response EXCEPT ![s] = Append(response[s], "answer")]
      BY <1>4 DEF handle_without_engine, send, goto, acceptVars, queueVars
    <2>2. s \in Clients /\ response[s] = << >>
      BY <1>0, <2>1 DEF Reply, Replies, Serving
    <2>3. Whole(response'[s])
      BY <1>0, <2>1, <2>2, WholeResponses DEF Parts
    <2>4. Reply(w)'
      BY <1>0, <2>1, <2>3 DEF Reply
    <2> QED BY <1>0, <2>1, <2>4, ReplyWorker DEF Serving
  <1>5. CASE handle_throws(w)
    <2>1. /\ UNCHANGED <<response, conn, acceptFd, queue, streaming>>
          /\ clientSock' = [clientSock EXCEPT ![w] = Free] /\ workerPc' = [workerPc EXCEPT ![w] = "check"]
      BY <1>5 DEF handle_throws, goto, acceptVars, queueVars, connVars
    <2>2. \A v \in Workers : \/ workerPc'[v] \notin Serving
                             \/ workerPc'[v] = workerPc[v] /\ clientSock'[v] = clientSock[v]
      BY <1>0, <2>1 DEF Serving
    <2> QED BY <2>1, <2>2, ReplyFrame DEF Unserved, InQueue
  <1>6. ASSUME NEW b \in BOOLEAN, handle_chat(w, b) PROVE Replies'
    <2>1. /\ workerPc[w] = "handle" /\ workerPc' = [workerPc EXCEPT ![w] = "lockEngine"]
          /\ streaming' = [streaming EXCEPT ![w] = b]
          /\ UNCHANGED <<conn, acceptFd, queue, clientSock, response>>
      BY <1>6 DEF handle_chat, goto, acceptVars, queueVars, connVars
    <2>2. Reply(w)'
      BY <1>0, <2>1 DEF Reply, Replies
    <2> QED BY <1>0, <2>1, <2>2, ReplyWorker DEF Serving
  <1>7. CASE lock_engine(w)
    <2>1. /\ workerPc[w] = "lockEngine" /\ workerPc' = [workerPc EXCEPT ![w] = "generate"]
          /\ UNCHANGED <<conn, acceptFd, queue, clientSock, streaming>>
          /\ response' = IF streaming[w] THEN [response EXCEPT ![s] = Append(response[s], "sse-200")]
                         ELSE response
      BY <1>7 DEF lock_engine, send, goto, acceptVars, queueVars
    <2>2. s \in Clients /\ response[s] = << >>
      BY <1>0, <2>1 DEF Reply, Replies, Serving
    <2>3. response'[s] = IF streaming[w] THEN <<"sse-200">> ELSE << >>
      BY <1>0, <2>1, <2>2, WholeResponses
    <2>4. Reply(w)'
      BY <1>0, <2>1, <2>3 DEF Reply
    <2>5. \A c \in Clients \ {s} : response'[c] = response[c]
      BY <1>0, <2>1
    <2> QED BY <1>0, <2>1, <2>4, <2>5, ReplyWorker DEF Serving
  <1>8. ASSUME NEW ok \in BOOLEAN, generate_returns(w, ok) PROVE Replies'
    <2> DEFINE part == IF streaming[w] THEN "finish" ELSE IF ok THEN "200" ELSE "error"
    <2>1. /\ workerPc[w] = "generate" /\ workerPc' = [workerPc EXCEPT ![w] = "close"]
          /\ UNCHANGED <<conn, acceptFd, queue, clientSock, streaming>>
          /\ response' = [response EXCEPT ![s] = Append(response[s], part)]
      BY <1>8 DEF generate_returns, send, goto, acceptVars, queueVars
    <2>2. s \in Clients /\ response[s] = IF streaming[w] THEN <<"sse-200">> ELSE << >>
      BY <1>0, <2>1 DEF Reply, Replies, Serving
    <2>3. Whole(Append(response[s], part))
      <3>1. CASE streaming[w]
        BY <2>2, <3>1, WholeResponses
      <3>2. CASE ~ streaming[w]
        BY <2>2, <3>2, WholeResponses DEF Parts
      <3> QED BY <3>1, <3>2
    <2>4. Reply(w)'
      BY <1>0, <2>1, <2>2, <2>3 DEF Reply
    <2> QED BY <1>0, <2>1, <2>4, ReplyWorker DEF Serving
  <1>9. ~ generate_throws(w) /\ ~ reset_returns(w)
    BY DEF generate_throws, reset_returns, Replies, Reply
  <1>10. CASE close_socket(w)
    <2>1. /\ workerPc[w] = "close" /\ workerPc' = [workerPc EXCEPT ![w] = "check"]
          /\ UNCHANGED <<acceptFd, queue, response>>
          /\ clientSock' = [clientSock EXCEPT ![w] = Free] /\ streaming' = [streaming EXCEPT ![w] = FALSE]
          /\ conn' = [conn EXCEPT ![s] = "closed"]
      BY <1>10 DEF close_socket, CLOSE_SOCKET, goto, acceptVars, queueVars
    <2>2. s \in Clients /\ Whole(response[s])
      BY <1>0, <2>1 DEF Reply, Replies, Serving
    <2>3. \A c \in Clients : Unserved(c)' => Unserved(c)
      BY <2>1 DEF Unserved, InQueue, TypeOK
    <2>4. ASSUME NEW v \in Workers PROVE Reply(v)'
      <3>1. CASE v = w
        BY <1>0, <2>1, <3>1 DEF Reply
      <3>2. CASE v # w
        <4>1. workerPc'[v] = workerPc[v] /\ clientSock'[v] = clientSock[v] /\ streaming'[v] = streaming[v]
              /\ response' = response
          BY <1>0, <2>1, <3>2
        <4> QED BY <4>1 DEF Replies, Reply
      <3> QED BY <3>1, <3>2
    <2>5. \A c \in Clients : conn'[c] = "closed" => Whole(response'[c])
      BY <2>1, <2>2 DEF Replies, TypeOK
    <2>6. \A c \in Clients : Unserved(c)' => response'[c] = << >>
      BY <2>1, <2>3 DEF Replies
    <2> QED BY <2>4, <2>5, <2>6 DEF Replies
  <1> QED BY <1>1, <1>2, <1>3, <1>4, <1>5, <1>6, <1>7, <1>8, <1>9, <1>10 DEF WorkerStep

\* If no exception leaves Engine::generate, a connection is closed only after one whole
\* response or none, and a stream only after its [DONE], however the threads interleave.
THEOREM StreamsEnd == ~EngineMayThrow => (Spec => []StreamEndsWithDone)
  <1> SUFFICES ASSUME ~EngineMayThrow PROVE Spec => []StreamEndsWithDone
    OBVIOUS
  <1>1. Init => Replies
    BY WholeResponses DEF Init, Replies, Reply
  <1>2. ServerInv /\ Replies /\ [Next]_vars => Replies'
    <2> SUFFICES ASSUME ServerInv, Replies, [Next]_vars PROVE Replies'
      OBVIOUS
    <2>1. TypeOK /\ HoldingPoints /\ JoinedThreads /\ Owned
      BY DEF ServerInv, Owned
    <2>2. CASE UNCHANGED vars
      BY <2>2, ReplyFrame DEF vars, acceptVars, queueVars, workerVars, connVars, Unserved, InQueue
    <2> QED BY <2>1, <2>2, MainReplies, AcceptReplies, WorkerReplies DEF Next
  <1>3. Replies => StreamEndsWithDone
    BY DEF Replies, StreamEndsWithDone, Whole
  <1> QED BY <1>1, <1>2, <1>3, ServerInvariant, PTL DEF Spec
=============================================================================
