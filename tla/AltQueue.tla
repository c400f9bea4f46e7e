------------------------------ MODULE AltQueue ------------------------------
(***************************************************************************)
(* The socket queue of the ALTERNATIVE_QUEUE build: every worker has a     *)
(* slot (client_socks) and an event (client_wait_events); the master looks *)
(* for a slot that its worker marked as waiting (in_use = 2), fills it     *)
(* (in_use = 1) and signals the event.  Events keep one signal: an eventfd *)
(* that is read to 0, an auto-reset event, or the flag of a posix_event.   *)
(***************************************************************************)
EXTENDS Naturals, FiniteSets

CONSTANTS AltMaxWorkers,   \* cfg_max_worker_threads
          AltSockets       \* bound: connections that are accepted

ASSUME AltQueueAssumption == AltMaxWorkers \in Nat \ {0} /\ AltSockets \in Nat

VARIABLES
    altMaster,    \* the master thread: where it is, the socket it has, the slot it signals
    altWorker,    \* [worker -> where it is]
    altSock,      \* [worker -> the socket it has, 0 for none]
    client_socks, \* [worker -> in_use and the socket]
    altEvent,     \* [worker -> is client_wait_events[i] signalled]
    altIdle,      \* idle_worker_thread_count
    altSpawned,   \* spawned_worker_threads
    altStop,      \* stop_flag
    altOpen,      \* sockets that are accepted and not closed
    altAccepted   \* number of sockets accepted so far

altVars == <<altMaster, altWorker, altSock, client_socks, altEvent, altIdle, altSpawned, altStop,
             altOpen, altAccepted>>

Slots == 1..AltMaxWorkers
workerVars == <<altWorker, altSock>>

Off == [at |-> "off", sock |-> 0, slot |-> 0]

AltInit ==
    /\ altMaster = Off /\ altWorker = [i \in Slots |-> "none"] /\ altSock = [i \in Slots |-> 0]
    /\ client_socks = [i \in Slots |-> [in_use |-> 0, sock |-> 0]]
    /\ altEvent = [i \in Slots |-> FALSE] /\ altIdle = 0 /\ altSpawned = 0 /\ altStop = 0
    /\ altOpen = {} /\ altAccepted = 0

\* mg_start2: both arrays and the events of all workers are created.
AltStart ==
    /\ altMaster.at \in {"off", "failed"} /\ altMaster' = [Off EXCEPT !.at = "loop"]
    /\ UNCHANGED <<workerVars, client_socks, altEvent, altIdle, altSpawned, altStop, altOpen, altAccepted>>

\* One of them cannot be created: what is there is freed, and mg_start2 returns NULL.
AltStartFails ==
    /\ altMaster.at = "off" /\ altMaster' = [Off EXCEPT !.at = "failed"]
    /\ UNCHANGED <<workerVars, client_socks, altEvent, altIdle, altSpawned, altStop, altOpen,
                   altAccepted>>

-----------------------------------------------------------------------------
(* The master thread *)

AltAccept ==
    /\ altMaster.at = "loop" /\ altStop = 0 /\ altAccepted < AltSockets
    /\ altAccepted' = altAccepted + 1 /\ altOpen' = altOpen \cup {altAccepted + 1}
    /\ altMaster' = [at |-> "spawn", sock |-> altAccepted + 1, slot |-> 0]
    /\ UNCHANGED <<workerVars, client_socks, altEvent, altIdle, altSpawned, altStop>>

\* mg_start_worker_thread: nothing when the limit is hit or some worker is idle.
AltReserve ==
    /\ altMaster.at = "spawn"
    /\ IF altSpawned >= AltMaxWorkers \/ altIdle > 0
       THEN altMaster' = [altMaster EXCEPT !.at = "search"] /\ UNCHANGED altIdle
       ELSE altMaster' = [altMaster EXCEPT !.at = "create"] /\ altIdle' = altIdle + 1
    /\ UNCHANGED <<workerVars, client_socks, altEvent, altSpawned, altStop, altOpen, altAccepted>>

AltCreate ==
    /\ altMaster.at = "create" /\ altMaster' = [altMaster EXCEPT !.at = "search"]
    /\ altWorker' = [altWorker EXCEPT ![altSpawned + 1] = "start"] /\ altSpawned' = altSpawned + 1
    /\ UNCHANGED <<altSock, client_socks, altEvent, altIdle, altStop, altOpen, altAccepted>>

AltCreateFails ==
    /\ altMaster.at = "create" /\ altMaster' = [altMaster EXCEPT !.at = "search"]
    /\ altIdle' = altIdle - 1
    /\ UNCHANGED <<workerVars, client_socks, altEvent, altSpawned, altStop, altOpen, altAccepted>>

\* Mutant: a slot is taken for free as long as no socket is in it.
HandOverAny(i) ==
    /\ altMaster.at = "search" /\ altStop = 0 /\ i <= altSpawned /\ client_socks[i].in_use # 1
    /\ client_socks' = [client_socks EXCEPT ![i] = [in_use |-> 1, sock |-> altMaster.sock]]
    /\ altMaster' = [at |-> "signal", sock |-> 0, slot |-> i]
    /\ UNCHANGED <<workerVars, altEvent, altIdle, altSpawned, altStop, altOpen, altAccepted>>

\* produce_socket: the socket goes to a worker that waits, under the mutex.
HandOver(i) ==
    /\ altMaster.at = "search" /\ altStop = 0 /\ i <= altSpawned /\ client_socks[i].in_use = 2
    /\ client_socks' = [client_socks EXCEPT ![i] = [in_use |-> 1, sock |-> altMaster.sock]]
    /\ altMaster' = [at |-> "signal", sock |-> 0, slot |-> i]
    /\ UNCHANGED <<workerVars, altEvent, altIdle, altSpawned, altStop, altOpen, altAccepted>>

\* The search goes on until the server is stopped; then the socket is closed.
GiveUp ==
    /\ altMaster.at = "search" /\ altStop # 0
    /\ altOpen' = altOpen \ {altMaster.sock} /\ altMaster' = [Off EXCEPT !.at = "loop"]
    /\ UNCHANGED <<workerVars, client_socks, altEvent, altIdle, altSpawned, altStop, altAccepted>>

event_signal ==
    /\ altMaster.at = "signal" /\ altMaster' = [Off EXCEPT !.at = "loop"]
    /\ altEvent' = [altEvent EXCEPT ![altMaster.slot] = TRUE]
    /\ UNCHANGED <<workerVars, client_socks, altIdle, altSpawned, altStop, altOpen, altAccepted>>

\* Mutant: only the workers that are marked as waiting are woken up at the end.
WakeIdleOnly ==
    /\ altMaster.at = "loop" /\ altStop # 0 /\ altMaster' = [Off EXCEPT !.at = "join"]
    /\ altEvent' = [i \in Slots |-> altEvent[i] \/ client_socks[i].in_use = 2]
    /\ UNCHANGED <<workerVars, client_socks, altIdle, altSpawned, altStop, altOpen, altAccepted>>

\* The end of master_thread_run: every event is signalled, the workers are joined.
WakeWorkers ==
    /\ altMaster.at = "loop" /\ altStop # 0 /\ altMaster' = [Off EXCEPT !.at = "join"]
    /\ altEvent' = [i \in Slots |-> altEvent[i] \/ i <= altSpawned]
    /\ UNCHANGED <<workerVars, client_socks, altIdle, altSpawned, altStop, altOpen, altAccepted>>

AltJoined ==
    /\ altMaster.at = "join" /\ \A i \in 1..altSpawned : altWorker[i] = "gone"
    /\ altMaster' = [Off EXCEPT !.at = "done"] /\ altStop' = 2
    /\ UNCHANGED <<workerVars, client_socks, altEvent, altIdle, altSpawned, altOpen, altAccepted>>

\* mg_stop sets the flag, and frees the context when the master has answered.
AltStopCalled ==
    /\ altMaster.at \notin {"off", "failed", "done"} /\ altStop = 0 /\ altStop' = 1
    /\ UNCHANGED <<altMaster, workerVars, client_socks, altEvent, altIdle, altSpawned, altOpen, altAccepted>>

AltFree ==
    /\ altStop = 2 /\ altMaster' = Off /\ altStop' = 0
    /\ altWorker' = [i \in Slots |-> "none"] /\ altSock' = [i \in Slots |-> 0]
    /\ client_socks' = [i \in Slots |-> [in_use |-> 0, sock |-> 0]]
    /\ altEvent' = [i \in Slots |-> FALSE] /\ altIdle' = 0 /\ altSpawned' = 0
    /\ altAccepted' = 0 /\ UNCHANGED altOpen

-----------------------------------------------------------------------------
(* The workers *)

AltWorkerStep(i, from, to) == altWorker[i] = from /\ altWorker' = [altWorker EXCEPT ![i] = to]

\* consume_socket: the idle count was raised by the master for the first call.
GoIdle(i) ==
    /\ \/ AltWorkerStep(i, "start", "wait") /\ UNCHANGED altIdle
       \/ AltWorkerStep(i, "again", "wait") /\ altIdle' = altIdle + 1
    /\ client_socks' = [client_socks EXCEPT ![i].in_use = 2]
    /\ UNCHANGED <<altMaster, altSock, altEvent, altSpawned, altStop, altOpen, altAccepted>>

\* No memory for the buffer, or no mutex: the thread ends; the idle count keeps it.
AltWorkerFails(i) ==
    /\ AltWorkerStep(i, "start", "gone")
    /\ UNCHANGED <<altMaster, altSock, client_socks, altEvent, altIdle, altSpawned, altStop, altOpen,
                   altAccepted>>

event_wait(i) ==
    /\ altEvent[i] /\ AltWorkerStep(i, "wait", "woken")
    /\ altEvent' = [altEvent EXCEPT ![i] = FALSE]
    /\ UNCHANGED <<altMaster, altSock, client_socks, altIdle, altSpawned, altStop, altOpen, altAccepted>>

\* The slot is read; when the server stops, a socket in it is closed.
TakeSocket(i) ==
    /\ IF altStop # 0
       THEN /\ AltWorkerStep(i, "woken", "gone") /\ UNCHANGED <<altIdle, altSock>>
            /\ altOpen' = altOpen \ (IF client_socks[i].in_use = 1 THEN {client_socks[i].sock} ELSE {})
       ELSE /\ AltWorkerStep(i, "woken", IF client_socks[i].in_use = 1 THEN "serve" ELSE "gone")
            /\ altSock' = [altSock EXCEPT ![i] = client_socks[i].sock]
            /\ altIdle' = altIdle - 1 /\ UNCHANGED altOpen
    /\ UNCHANGED <<altMaster, client_socks, altEvent, altSpawned, altStop, altAccepted>>

\* process_new_connection and close_connection.
AltServe(i) ==
    /\ AltWorkerStep(i, "serve", "again")
    /\ altOpen' = altOpen \ {altSock[i]} /\ altSock' = [altSock EXCEPT ![i] = 0]
    /\ UNCHANGED <<altMaster, client_socks, altEvent, altIdle, altSpawned, altStop, altAccepted>>

AltNext ==
    \/ AltStart \/ AltStartFails \/ AltAccept \/ AltReserve \/ AltCreate \/ AltCreateFails
    \/ \E i \in Slots : HandOver(i)
    \/ GiveUp \/ event_signal \/ WakeWorkers \/ AltJoined \/ AltStopCalled \/ AltFree
    \/ \E i \in Slots : GoIdle(i) \/ AltWorkerFails(i) \/ event_wait(i) \/ TakeSocket(i) \/ AltServe(i)

\* The threads run on; no connection takes for ever, and nobody has to call mg_stop.
AltFairness ==
    /\ WF_altVars(AltReserve) /\ WF_altVars(AltCreate \/ AltCreateFails) /\ WF_altVars(GiveUp)
    /\ WF_altVars(event_signal) /\ WF_altVars(WakeWorkers) /\ WF_altVars(AltJoined) /\ WF_altVars(AltFree)
    /\ WF_altVars(\E i \in Slots : HandOver(i))
    /\ \A i \in Slots : WF_altVars(GoIdle(i) \/ event_wait(i) \/ TakeSocket(i) \/ AltServe(i))

AltSpec == AltInit /\ [][AltNext]_altVars /\ AltFairness

-----------------------------------------------------------------------------
(* Properties *)

\* A slot whose worker has not read it yet.
Unread(i) == client_socks[i].in_use = 1 /\ altWorker[i] \in {"wait", "woken"}

\* How many have a socket: the master, slots that are still to be read, workers.
OwnersOf(s) ==
    (IF altMaster.sock = s THEN 1 ELSE 0)
    + Cardinality({i \in Slots : Unread(i) /\ client_socks[i].sock = s})
    + Cardinality({i \in Slots : altSock[i] = s})

\* Every connection that was accepted and not closed is in exactly one place: with the
\* master, in one slot that its worker has still to read, or with one worker; and a worker
\* whose slot was filled has been signalled or will be (civetweb.c produce_socket and
\* consume_socket of ALTERNATIVE_QUEUE: the slot is written under the mutex, the event
\* signalled after it, and the shutdown signals the same event).
AltSocketOwnedOnce ==
    /\ \A s \in altOpen : OwnersOf(s) = 1
    /\ \A i \in Slots :
         Unread(i) => /\ client_socks[i].sock \in altOpen
                      /\ altWorker[i] = "woken" \/ altEvent[i] \/ altMaster.slot = i

\* mg_stop completes: no worker sleeps through the shutdown, wherever it was when its event
\* was signalled (civetweb.c:20760-20776). The master here has a listening socket: the one
\* without, which leaves at 20646, is in ServerSetup and WorkerPool.
AltStopCompletes == altStop = 1 ~> altStop = 2
=============================================================================
