----------------------------- MODULE SocketFifo -----------------------------
(***************************************************************************)
(* What the queue between the master thread and the worker threads         *)
(* promises: a bounded first-in first-out channel.  An accepted socket is  *)
(* handed to at most one worker, in the order of acceptance, and no more   *)
(* than Capacity sockets wait.                                             *)
(***************************************************************************)
EXTENDS Naturals, Sequences

CONSTANTS Socket, Capacity

VARIABLE fifo

FifoInit == fifo = <<>>

Put(s) == /\ Len(fifo) < Capacity
          /\ fifo' = Append(fifo, s)

Get == /\ fifo # <<>>
       /\ fifo' = Tail(fifo)

FifoNext == Get \/ \E s \in Socket : Put(s)

FifoSpec == FifoInit /\ [][FifoNext]_fifo
=============================================================================
