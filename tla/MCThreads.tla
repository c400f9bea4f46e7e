------------------------------ MODULE MCThreads ------------------------------
(***************************************************************************)
(* Small instances, for TLC, of three loops of threads that must come to    *)
(* their end: a worker on its connection, a worker on a websocket, and the  *)
(* threads of the alternative queue.  One of them takes part in a behaviour *)
(* and the others stay as they are; what a client may send is defined in    *)
(* MCConnection.                                                            *)
(***************************************************************************)
EXTENDS MCConnection, WebSocket, AltQueue

VARIABLE part   \* the loop that takes part

Loops == {"connection", "websocket", "queue"}

ThreadsInit ==
    /\ part \in Loops
    /\ Init /\ WsInit /\ AltInit
    /\ part # "connection" => input = CHOOSE i \in Inputs : TRUE

ConnectionPart ==
    part = "connection" /\ Next /\ UNCHANGED <<part, wsVars, altVars>>

WebsocketPart ==
    part = "websocket" /\ WsNext /\ UNCHANGED <<part, vars, altVars>>

QueuePart ==
    part = "queue" /\ AltNext /\ UNCHANGED <<part, vars, wsVars>>

ThreadsNext == ConnectionPart \/ WebsocketPart \/ QueuePart

threadsVars == <<part, vars, wsVars, altVars>>

\* The fairness of the three; a websocket and a queue that take no part have no step of a
\* thread to take.
ThreadsSpec ==
    /\ ThreadsInit /\ [][ThreadsNext]_threadsVars
    /\ WF_vars(part = "connection" /\ WorkerStep) /\ SF_vars(HandlerReturns)
    /\ WsFairness /\ AltFairness

\* A frame that is longer than the queue, and frames that fit.
Message(op, size) == [op |-> op, size |-> size]
MCMessages == {Message("data", 2), Message("ping", 0), Message("pong", 2), Message("close", 0)}

-----------------------------------------------------------------------------
(* Properties *)

\* The worker's loop over the requests of a connection ends: it does not go round without
\* consuming input (process_new_connection).
ConnectionLoopEnds == part = "connection" => ConnectionCloses

\* After mg_stop every thread comes to its end: the worker of a websocket, also in the
\* middle of a frame, and the workers of the alternative queue, wherever they were when
\* their events were signalled (read_websocket, master_thread_run on a server that has a
\* listening socket).
StopEnds == StopEndsWebsocket /\ AltStopCompletes

\* The theorems about Connection are about inputs like these.
ASSUME InputsWellFramed == \A i \in Inputs : WellFramed(i)
=============================================================================
