---------------------------- MODULE MCWorkerPool ----------------------------
(* Small instances of WorkerPool for TLC; the constants are in the cfgs.    *)
EXTENDS WorkerPool, TLC

\* Sockets are interchangeable; used by the runs without liveness properties.
SocketSymmetry == Permutations(Socket)
=============================================================================
