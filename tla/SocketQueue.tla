----------------------------- MODULE SocketQueue -----------------------------
(***************************************************************************)
(* The ring buffer of struct mg_context (squeue, sq_head, sq_tail,         *)
(* sq_size) that carries accepted sockets from the master thread to the    *)
(* worker threads (civetweb.c, NO_ALTERNATIVE_QUEUE, the default build).   *)
(*                                                                         *)
(* sq_head and sq_tail are running counters: the slot of a counter c is    *)
(* c % sq_size, and both are moved back by sq_size as soon as the tail     *)
(* exceeds sq_size, so that neither overflows an int.                      *)
(***************************************************************************)
EXTENDS Integers, Sequences

CONSTANTS Socket,    \* identities of client connections, each accepted once
          NoSocket,  \* the zeroed slots of mg_calloc
          sq_size    \* option connection_queue (CONNECTION_QUEUE_SIZE)

\* mg_start2 rejects a queue size below 1.
ASSUME QueueAssumption == /\ sq_size \in Nat \ {0}
                          /\ NoSocket \notin Socket

VARIABLES squeue, sq_head, sq_tail

queueVars == <<squeue, sq_head, sq_tail>>

QueueInit == /\ squeue = [i \in 0..(sq_size - 1) |-> NoSocket]
             /\ sq_head = 0
             /\ sq_tail = 0

queue_filled == sq_head - sq_tail

\* Mutant: the slot is computed from the tail, overwriting the oldest socket.
EnqueueAtTail(s) == /\ squeue' = [squeue EXCEPT ![sq_tail % sq_size] = s]
                    /\ sq_head' = sq_head + 1
                    /\ UNCHANGED sq_tail

\* produce_socket: copy the socket to the queue and increment the head.
Enqueue(s) == /\ squeue' = [squeue EXCEPT ![sq_head % sq_size] = s]
              /\ sq_head' = sq_head + 1
              /\ UNCHANGED sq_tail

FrontSocket == squeue[sq_tail % sq_size]

\* Mutant: the tail is wrapped and the head is not.
DequeueWrapsTailOnly == LET wrap == IF sq_tail + 1 > sq_size THEN sq_size ELSE 0
                        IN  /\ sq_tail' = sq_tail + 1 - wrap
                            /\ UNCHANGED <<sq_head, squeue>>

\* consume_socket: increment the tail and wrap both counters if needed.  The
\* tail never exceeds sq_size before the increment (RingInv), so the while
\* loop of the code subtracts at most once.
Dequeue == LET wrap == IF sq_tail + 1 > sq_size THEN sq_size ELSE 0
           IN  /\ sq_tail' = sq_tail + 1 - wrap
               /\ sq_head' = sq_head - wrap
               /\ UNCHANGED squeue

\* The sockets waiting in the ring, oldest first.
Queued == [i \in 1..queue_filled |-> squeue[(sq_tail + i - 1) % sq_size]]

InQueue(s) == \E i \in 1..queue_filled : Queued[i] = s

QueueTypeOK == /\ squeue \in [0..(sq_size - 1) -> Socket \cup {NoSocket}]
               /\ sq_head \in Int
               /\ sq_tail \in Int

\* The counters stay within twice the queue size, the ring never holds more
\* than sq_size sockets, and every occupied slot holds a socket.
RingInv == /\ sq_tail \in 0..sq_size
           /\ queue_filled \in 0..sq_size
           /\ \A i \in 1..queue_filled : Queued[i] \in Socket

Fifo == INSTANCE SocketFifo WITH fifo <- Queued, Capacity <- sq_size
=============================================================================
