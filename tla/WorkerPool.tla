----------------------------- MODULE WorkerPool -----------------------------
(***************************************************************************)
(* The threads of one server context: the thread that calls mg_start2, the *)
(* master thread that accepts connections, the worker threads that serve   *)
(* them, and the thread that calls mg_stop.  They share the socket queue,  *)
(* two condition variables, the worker counters and stop_flag.             *)
(*                                                                         *)
(* Everything a thread does while it holds ctx->thread_mutex is one        *)
(* action; stop_flag is written without the mutex, so every read of it     *)
(* outside the mutex is an action of its own.                              *)
(***************************************************************************)
EXTENDS SocketQueue, FiniteSets

CONSTANTS cfg_max_worker_threads,  \* option num_threads
          prespawnthreadcount,     \* option prespawn_threads
          CreateMayFail,           \* mg_start_thread_with_id may fail
          InitMayFail,             \* a worker may fail to get its buffer or mutex
          PortsMayFail             \* all ports are optional, and none may be bound

\* The ranges mg_start2 enforces before it starts a thread.
ASSUME PoolAssumption ==
    /\ cfg_max_worker_threads \in Nat \ {0}
    /\ prespawnthreadcount \in 0..cfg_max_worker_threads
    /\ CreateMayFail \in BOOLEAN
    /\ InitMayFail \in BOOLEAN
    /\ PortsMayFail \in BOOLEAN

\* Index of a worker in ctx->worker_connections.
Worker == 0..(cfg_max_worker_threads - 1)

VARIABLES
    stop_flag,                 \* 0 running, 1 mg_stop called, 2 master done
    idle_worker_thread_count,
    spawned_worker_threads,
    sq_blocked,                \* status information: the master waits
    starter,                   \* progress of mg_start2
    master,                    \* program counter of master_thread_run
    worker,                    \* program counters of worker_thread_run
    stopper,                   \* progress of mg_stop
    backlog,                   \* connections the kernel has not handed over
    so,                        \* the socket accept_new_connection holds
    client,                    \* conn->client of every worker
    closed                     \* sockets closesocket was called for

threadVars == <<starter, master, worker, stopper>>
countVars  == <<idle_worker_thread_count, spawned_worker_threads>>
sockVars   == <<backlog, so, client, closed>>
vars == <<queueVars, stop_flag, countVars, sq_blocked, threadVars, sockVars>>

StarterPC == {"prespawn", "reserved", "launch", "started", "failed"}
MasterPC  == {"none", "poll", "produce", "wait", "woken", "spawn", "reserved",
              "broadcast", "join", "exit", "done", "left"}
WorkerPC  == {"none", "init", "consume_first", "consume", "wait", "woken",
              "return", "serve", "exit", "done", "failed"}
StopperPC == {"idle", "stopping", "joining", "freed", "returned"}

TypeOK ==
    /\ QueueTypeOK
    /\ stop_flag \in 0..2
    /\ idle_worker_thread_count \in Int
    /\ spawned_worker_threads \in 0..cfg_max_worker_threads
    /\ sq_blocked \in {0, 1}
    /\ starter \in StarterPC
    /\ master \in MasterPC
    /\ worker \in [Worker -> WorkerPC]
    /\ stopper \in StopperPC
    /\ backlog \subseteq Socket
    /\ so \in Socket \cup {NoSocket}
    /\ client \in [Worker -> Socket \cup {NoSocket}]
    /\ closed \subseteq Socket

Init ==
    /\ QueueInit
    /\ stop_flag = 0
    /\ idle_worker_thread_count = 0
    /\ spawned_worker_threads = 0
    /\ sq_blocked = 0
    /\ starter = "prespawn"
    /\ master = "none"
    /\ worker = [w \in Worker |-> "none"]
    /\ stopper = "idle"
    /\ backlog = Socket
    /\ so = NoSocket
    /\ client = [w \in Worker |-> NoSocket]
    /\ closed = {}

------------------------------------------------------------------------------
(* Condition variables: pthread_cond_signal wakes one waiter if there is   *)
(* one.  A woken thread re-evaluates its loop when it gets the mutex back. *)

Waiting == {w \in Worker : worker[w] = "wait"}
Woken   == {w \in Worker : worker[w] = "woken"}

\* Mutant: the producer forgets to signal.
SignalFullMissing == UNCHANGED worker

\* pthread_cond_signal(&ctx->sq_full), by the master
SignalFull == \/ /\ Waiting = {}
                 /\ UNCHANGED worker
              \/ \E w \in Waiting : worker' = [worker EXCEPT ![w] = "woken"]

\* pthread_cond_signal(&ctx->sq_empty), by a worker; only the master waits
\* for it
SignalEmpty == master' = IF master = "wait" THEN "woken" ELSE master

------------------------------------------------------------------------------
(* mg_start_worker_thread(ctx, only_if_no_idle_threads), called by the     *)
(* starter and, once it runs, by the master.                               *)

\* Mutant: off by one, a thread more than worker_connections has room for.
WorkerLimitOffByOne == spawned_worker_threads > cfg_max_worker_threads

WorkerLimitHit == spawned_worker_threads >= cfg_max_worker_threads

\* Mutant: the idle workers are not weighed against the sockets that wait.
AnyIdle == idle_worker_thread_count > 0

EnoughIdle == idle_worker_thread_count > queue_filled

\* The part under thread_mutex: count the new worker as idle in advance.
ReserveWorker ==
    /\ idle_worker_thread_count' = idle_worker_thread_count + 1
    /\ UNCHANGED spawned_worker_threads

\* The thread is created and takes the next slot ...
CreateWorker ==
    /\ worker' = [worker EXCEPT ![spawned_worker_threads] = "init"]
    /\ spawned_worker_threads' = spawned_worker_threads + 1
    /\ UNCHANGED idle_worker_thread_count

\* ... or creation fails and the reservation is rolled back.
CreateWorkerFails ==
    /\ CreateMayFail
    /\ idle_worker_thread_count' = idle_worker_thread_count - 1
    /\ UNCHANGED <<worker, spawned_worker_threads>>

------------------------------------------------------------------------------
(* mg_start2: the prespawn loop and the start of the master.               *)

StartPrespawn ==
    /\ starter = "prespawn"
    /\ IF spawned_worker_threads < prespawnthreadcount
         THEN starter' = "reserved" /\ ReserveWorker
         ELSE starter' = "launch" /\ UNCHANGED countVars
    /\ UNCHANGED <<queueVars, stop_flag, sq_blocked, master, worker, stopper, sockVars>>

StartCreate ==
    /\ starter = "reserved"
    /\ CreateWorker
    /\ starter' = "prespawn"
    /\ UNCHANGED <<queueVars, stop_flag, sq_blocked, master, stopper, sockVars>>

\* Without a first worker the context is freed; later failures are a warning.
StartCreateFails ==
    /\ starter = "reserved"
    /\ CreateWorkerFails
    /\ starter' = IF spawned_worker_threads > 0 THEN "launch" ELSE "failed"
    /\ UNCHANGED <<queueVars, stop_flag, sq_blocked, master, stopper, sockVars>>

\* The master enters its loop; without a listening socket (listening_socket_fds
\* is NULL) it returns at once instead, and will never write stop_flag.
MasterBegins ==
    \/ master' = "poll"
    \/ PortsMayFail /\ master' = "left"

\* The result of starting the master thread is not looked at: when it fails,
\* masterthreadid stays 0 and mg_start2 still returns the context.
StartMaster ==
    /\ starter = "launch"
    /\ starter' = "started"
    /\ \/ MasterBegins
       \/ CreateMayFail /\ master' = "none"
    /\ UNCHANGED <<queueVars, stop_flag, countVars, sq_blocked, worker, stopper, sockVars>>

------------------------------------------------------------------------------
(* master_thread_run, accept_new_connection, produce_socket                *)

\* accept() succeeded; the address passes check_acl or is refused by it.
Accept(s) ==
    /\ master = "poll"
    /\ stop_flag = 0
    /\ s \in backlog
    /\ backlog' = backlog \ {s}
    /\ \/ /\ so' = s
          /\ master' = "produce"
          /\ UNCHANGED closed
       \/ /\ closed' = closed \cup {s}
          /\ UNCHANGED <<so, master>>
    /\ UNCHANGED <<queueVars, stop_flag, countVars, sq_blocked, starter, worker,
                   stopper, client>>

\* The loop condition of produce_socket: wait while the queue is full.
ProduceWait ==
    /\ master \in {"produce", "woken"}
    /\ stop_flag = 0
    /\ queue_filled >= sq_size
    /\ sq_blocked' = 1
    /\ master' = "wait"
    /\ UNCHANGED <<queueVars, stop_flag, countVars, starter, worker, stopper, sockVars>>

\* Mutant: a full queue drops the socket even while the server runs.
ProduceWithoutWaiting ==
    /\ master \in {"produce", "woken"}
    /\ IF queue_filled < sq_size THEN Enqueue(so) ELSE UNCHANGED queueVars
    /\ SignalFull
    /\ sq_blocked' = 0
    /\ so' = NoSocket
    /\ master' = "spawn"
    /\ UNCHANGED <<stop_flag, countVars, starter, stopper, backlog, client, closed>>

\* The rest of produce_socket under the mutex.  A server that is stopping
\* leaves the loop with the queue still full, and then drops the socket.
ProduceSocket ==
    /\ master \in {"produce", "woken"}
    /\ stop_flag # 0 \/ queue_filled < sq_size
    /\ IF queue_filled < sq_size THEN Enqueue(so) ELSE UNCHANGED queueVars
    /\ SignalFull
    /\ sq_blocked' = 0
    /\ so' = NoSocket
    /\ master' = "spawn"
    /\ UNCHANGED <<stop_flag, countVars, starter, stopper, backlog, client, closed>>

\* produce_socket ends with mg_start_worker_thread(ctx, 1).
MasterSpawn ==
    /\ master = "spawn"
    /\ IF WorkerLimitHit \/ EnoughIdle
         THEN master' = "poll" /\ UNCHANGED countVars
         ELSE master' = "reserved" /\ ReserveWorker
    /\ UNCHANGED <<queueVars, stop_flag, sq_blocked, starter, worker, stopper, sockVars>>

MasterCreate ==
    /\ master = "reserved"
    /\ CreateWorker \/ CreateWorkerFails
    /\ master' = "poll"
    /\ UNCHANGED <<queueVars, stop_flag, sq_blocked, starter, stopper, sockVars>>

\* The accept loop ends; the listening sockets are closed.
MasterSeesStop ==
    /\ master = "poll"
    /\ stop_flag # 0
    /\ master' = "broadcast"
    /\ UNCHANGED <<queueVars, stop_flag, countVars, sq_blocked, starter, worker,
                   stopper, sockVars>>

\* Mutant: one signal instead of a broadcast.
MasterSignalsOne ==
    /\ master = "broadcast"
    /\ SignalFull
    /\ master' = "join"
    /\ UNCHANGED <<queueVars, stop_flag, countVars, sq_blocked, starter, stopper, sockVars>>

\* pthread_cond_broadcast(&ctx->sq_full) under the mutex
MasterBroadcast ==
    /\ master = "broadcast"
    /\ worker' = [w \in Worker |-> IF w \in Waiting THEN "woken" ELSE worker[w]]
    /\ master' = "join"
    /\ UNCHANGED <<queueVars, stop_flag, countVars, sq_blocked, starter, stopper, sockVars>>

\* Mutant: only the prespawned workers are joined.
MasterJoinsPrespawned ==
    /\ master = "join"
    /\ \A w \in Worker : w < prespawnthreadcount => worker[w] \in {"done", "failed"}
    /\ master' = "exit"
    /\ UNCHANGED <<queueVars, stop_flag, countVars, sq_blocked, starter, worker,
                   stopper, sockVars>>

\* Join the workers 0 .. spawned_worker_threads - 1 one after the other.
MasterJoin ==
    /\ master = "join"
    /\ \A w \in Worker : w < spawned_worker_threads => worker[w] \in {"done", "failed"}
    /\ master' = "exit"
    /\ UNCHANGED <<queueVars, stop_flag, countVars, sq_blocked, starter, worker,
                   stopper, sockVars>>

MasterExit ==
    /\ master = "exit"
    /\ stop_flag' = 2
    /\ master' = "done"
    /\ UNCHANGED <<queueVars, countVars, sq_blocked, starter, worker, stopper, sockVars>>

------------------------------------------------------------------------------
(* worker_thread_run and consume_socket                                    *)

WorkerInit(w) ==
    /\ worker[w] = "init"
    /\ \/ worker' = [worker EXCEPT ![w] = "consume_first"]
       \/ InitMayFail /\ worker' = [worker EXCEPT ![w] = "failed"]
    /\ UNCHANGED <<queueVars, stop_flag, countVars, sq_blocked, starter, master,
                   stopper, sockVars>>

\* Mutant: the first call counts the worker a second time.
IdleOnEveryEntry(w) == IF worker[w] = "woken" THEN 0 ELSE 1

\* Entering consume_socket: only a first call was counted as idle before.
IdleOnEntry(w) == IF worker[w] = "consume" THEN 1 ELSE 0

ConsumeWait(w) ==
    /\ worker[w] \in {"consume_first", "consume", "woken"}
    /\ sq_head = sq_tail
    /\ stop_flag = 0
    /\ idle_worker_thread_count' = idle_worker_thread_count + IdleOnEntry(w)
    /\ worker' = [worker EXCEPT ![w] = "wait"]
    /\ UNCHANGED <<queueVars, stop_flag, spawned_worker_threads, sq_blocked, starter,
                   master, stopper, sockVars>>

\* The rest of consume_socket under the mutex.
ConsumeSocket(w) ==
    /\ worker[w] \in {"consume_first", "consume", "woken"}
    /\ sq_head # sq_tail \/ stop_flag # 0
    /\ IF sq_head > sq_tail
         THEN Dequeue /\ client' = [client EXCEPT ![w] = FrontSocket]
         ELSE UNCHANGED <<queueVars, client>>
    /\ SignalEmpty
    /\ idle_worker_thread_count' = idle_worker_thread_count + IdleOnEntry(w) - 1
    /\ worker' = [worker EXCEPT ![w] = "return"]
    /\ UNCHANGED <<stop_flag, spawned_worker_threads, sq_blocked, starter, stopper,
                   backlog, so, closed>>

\* consume_socket reads stop_flag again after it has released the mutex.
ConsumeReturn(w) ==
    /\ worker[w] = "return"
    /\ worker' = [worker EXCEPT ![w] = IF stop_flag = 0 THEN "serve" ELSE "exit"]
    /\ UNCHANGED <<queueVars, stop_flag, countVars, sq_blocked, starter, master,
                   stopper, sockVars>>

\* The connection is processed, and closed in the end by close_connection.
ServeConnection(w) ==
    /\ worker[w] = "serve"
    /\ closed' = closed \cup {client[w]}
    /\ worker' = [worker EXCEPT ![w] = "consume"]
    /\ UNCHANGED <<queueVars, stop_flag, countVars, sq_blocked, starter, master,
                   stopper, backlog, so, client>>

WorkerExit(w) ==
    /\ worker[w] = "exit"
    /\ worker' = [worker EXCEPT ![w] = "done"]
    /\ UNCHANGED <<queueVars, stop_flag, countVars, sq_blocked, starter, master,
                   stopper, sockVars>>

\* POSIX lets pthread_cond_wait return without a signal.
SpuriousWakeup ==
    /\ \/ /\ master = "wait"
          /\ master' = "woken"
          /\ UNCHANGED worker
       \/ /\ \E w \in Waiting : worker' = [worker EXCEPT ![w] = "woken"]
          /\ UNCHANGED master
    /\ UNCHANGED <<queueVars, stop_flag, countVars, sq_blocked, starter, stopper, sockVars>>

------------------------------------------------------------------------------
(* mg_stop                                                                 *)

\* masterthreadid is 0 if the master thread was not created; it is set for a
\* master thread that has left.
StopRequest ==
    /\ starter = "started"
    /\ stopper = "idle"
    /\ IF master = "none"
         THEN stopper' = "returned" /\ UNCHANGED stop_flag
         ELSE stopper' = "stopping" /\ stop_flag' = 1
    /\ UNCHANGED <<queueVars, countVars, sq_blocked, starter, master, worker, sockVars>>

StopWait ==
    /\ stopper = "stopping"
    /\ stop_flag = 2
    /\ stopper' = "joining"
    /\ UNCHANGED <<queueVars, stop_flag, countVars, sq_blocked, starter, master,
                   worker, sockVars>>

\* mg_join_thread(mt), then free_context
StopFree ==
    /\ stopper = "joining"
    /\ master = "done"
    /\ stopper' = "freed"
    /\ UNCHANGED <<queueVars, stop_flag, countVars, sq_blocked, starter, master,
                   worker, sockVars>>

\* Nothing is left to do once mg_stop has freed the context, once mg_start2
\* has failed, while a server without a master thread sits idle, or while mg_stop
\* waits for a master thread that has left.
Terminated ==
    /\ \/ stopper = "freed"
       \/ starter = "failed"
       \/ stopper = "returned"
       \/ stopper = "stopping" /\ master = "left"
    /\ UNCHANGED vars

------------------------------------------------------------------------------
StarterStep == StartPrespawn \/ StartCreate \/ StartCreateFails \/ StartMaster

MasterRuns == \/ ProduceWait \/ ProduceSocket
              \/ MasterSpawn \/ MasterCreate
              \/ MasterSeesStop \/ MasterBroadcast \/ MasterJoin \/ MasterExit

MasterStep == MasterRuns \/ \E s \in Socket : Accept(s)

WorkerStep(w) == \/ WorkerInit(w)
                 \/ ConsumeWait(w) \/ ConsumeSocket(w) \/ ConsumeReturn(w)
                 \/ ServeConnection(w) \/ WorkerExit(w)

Next == \/ StarterStep
        \/ MasterStep
        \/ \E w \in Worker : WorkerStep(w)
        \/ SpuriousWakeup
        \/ StopRequest \/ StopWait \/ StopFree
        \/ Terminated

Spec == Init /\ [][Next]_vars

\* Every thread that can run is scheduled.  Connections arrive, mg_stop is
\* called and condition variables wake up spuriously without any guarantee.
\* That serving a connection ends is what the timeouts and the stop_flag
\* checks of the connection code provide.
Fairness == /\ WF_vars(StarterStep)
            /\ WF_vars(MasterRuns)
            /\ \A w \in Worker : WF_vars(WorkerStep(w))
            /\ WF_vars(StopWait \/ StopFree)

FairSpec == Spec /\ Fairness

------------------------------------------------------------------------------
(* Safety                                                                  *)

\* An accepted socket is never handed out twice: sockets in the ring are
\* distinct and neither held by a thread nor closed, no two workers ever have
\* the same socket in conn->client, and the connection a worker serves is open
\* (squeue, sq_head and sq_tail in produce_socket and consume_socket).
SocketOwnedOnce ==
    /\ \A i, j \in 1..queue_filled : Queued[i] = Queued[j] => i = j
    /\ \A i \in 1..queue_filled :
          /\ Queued[i] \notin backlog \cup closed \cup {so}
          /\ \A w \in Worker : Queued[i] # client[w]
    /\ so \notin backlog \cup closed
    /\ \A v, w \in Worker : client[v] = client[w] /\ client[v] # NoSocket => v = w
    /\ \A w \in Worker : /\ client[w] \notin backlog
                         /\ client[w] # NoSocket => client[w] # so
                         /\ worker[w] = "serve" => client[w] \in Socket \ closed

\* While the server runs, every connection it has accepted is with the master,
\* in the queue, with a worker, or closed: none is forgotten
\* (accept_new_connection, produce_socket, consume_socket).
AcceptedAccounted ==
    stop_flag = 0 =>
        \A s \in Socket \ backlog :
            \/ s = so \/ s \in closed \/ InQueue(s)
            \/ \E w \in Worker : worker[w] \in {"return", "serve"} /\ client[w] = s

\* Workers that idle_worker_thread_count counts: created, and not yet past
\* the decrement in consume_socket.
CountedIdle == {w \in Worker : worker[w] \in {"init", "consume_first", "wait",
                                             "woken", "failed"}}

\* idle_worker_thread_count is exact under every interleaving of the increments
\* and decrements of starter, master and workers; in particular the unsigned
\* counter never wraps below zero.  A worker that fails in its initialisation
\* stays counted for ever.
IdleCountExact ==
    idle_worker_thread_count = Cardinality(CountedIdle)
                               + (IF starter = "reserved" THEN 1 ELSE 0)
                               + (IF master = "reserved" THEN 1 ELSE 0)

\* No wakeup is lost on either condition variable: the master sleeps only while
\* the queue is full, and while sockets wait and a worker sleeps, at least as
\* many workers as sockets have been woken (pthread_cond_wait and
\* pthread_cond_signal in produce_socket and consume_socket).
NoLostWakeup ==
    /\ master = "wait" => queue_filled = sq_size
    /\ Waiting # {} => Cardinality(Woken) >= queue_filled

\* When mg_stop frees the context, the master and all workers have ended, those
\* started on demand too (free_context: "All threads exited, no sync is needed").
ThreadsGoneAtFree ==
    stopper = "freed" =>
        /\ master = "done"
        /\ \A w \in Worker : worker[w] \in {"none", "done", "failed"}

\* Workers that are about to look at the queue or will when woken.
Idle == {w \in Worker : worker[w] \in {"init", "consume_first", "wait", "woken"}}

\* If no thread creation fails, then whenever the master is back at its accept
\* loop every waiting socket has an idle worker of its own, or all the workers
\* the configuration allows exist (mg_start_worker_thread's comparison of
\* idle_worker_thread_count with the queue length).
ScalesToLoad ==
    master = "poll" /\ stop_flag = 0 =>
        \/ Cardinality(Idle) >= queue_filled
        \/ spawned_worker_threads = cfg_max_worker_threads

\* The ring implements the bounded FIFO of SocketFifo, in the order the
\* sockets were accepted, whatever the threads do.
FifoImplemented == Fifo!FifoSpec

------------------------------------------------------------------------------
(* Liveness, under FairSpec                                                *)

\* A queued socket is taken by a worker unless the server is stopped.
QueuedTaken == \A s \in Socket : InQueue(s) ~> (~InQueue(s) \/ stop_flag # 0)

\* mg_stop returns after it has freed the context, provided that the master thread
\* had a listening socket and entered its loop.  (When it had none, nobody sets
\* stop_flag to 2 and mg_stop never returns: StopReturns in ServerSetup.)
StopCompletes == stop_flag = 1 /\ master # "left" ~> stopper = "freed"

------------------------------------------------------------------------------
(* What the documentation and comments say of the program                  *)

\* docs/api/mg_stop.md: mg_stop "waits until all threads have stopped".
\* It does not hold when the master thread could not be created.
StopWaitsForThreads ==
    stopper \in {"freed", "returned"} =>
        \A w \in Worker : worker[w] \in {"none", "done", "failed"}
=============================================================================
