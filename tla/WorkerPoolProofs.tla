-------------------------- MODULE WorkerPoolProofs --------------------------
(***************************************************************************)
(* Proofs about WorkerPool for every number of workers, every queue size,  *)
(* every set of connections, and with or without failing thread creation.  *)
(***************************************************************************)
EXTENDS WorkerPool, SequenceTheorems, FiniteSetTheorems, TLAPS

------------------------------------------------------------------------------
(* What Enqueue and Dequeue do to the sequence of waiting sockets, for     *)
(* every queue size: the slots counter % sq_size of one round never        *)
(* collide, and moving both counters back by sq_size changes no slot.      *)

\* Within two rounds of the ring the remainder is the counter itself or the
\* counter less one round.
LEMMA SlotOfCounter ==
    ASSUME NEW n \in Nat \ {0}, NEW c \in 0..(2 * n - 1)
    PROVE  c % n = IF c < n THEN c ELSE c - n
<1>1. CASE c < n  BY <1>1
<1>2. CASE c >= n BY <1>2
<1> QED BY <1>1, <1>2

\* Two counters less than a round apart have different slots.
LEMMA SlotsDiffer ==
    ASSUME NEW n \in Nat \ {0}, NEW c \in 0..(2 * n - 1), NEW d \in 0..(2 * n - 1),
           c < d, d < c + n
    PROVE  c % n # d % n
BY SlotOfCounter

\* A slot index is in range.
LEMMA SlotInRange ==
    ASSUME NEW n \in Nat \ {0}, NEW c \in Int
    PROVE  c % n \in 0..(n - 1)
OBVIOUS

\* Moving a counter back by one round leaves its slot alone.
LEMMA SlotAfterWrap ==
    ASSUME NEW n \in Nat \ {0}, NEW c \in n..(2 * n - 1)
    PROVE  (c - n) % n = c % n
<1>1. /\ c \in 0..(2 * n - 1) /\ ~(c < n)
      /\ c - n \in 0..(2 * n - 1) /\ c - n < n
  OBVIOUS
<1>2. c % n = c - n
  BY <1>1, SlotOfCounter
<1>3. (c - n) % n = c - n
  BY <1>1, SlotOfCounter
<1> QED BY <1>2, <1>3

\* The waiting sockets form a sequence of at most sq_size sockets.
LEMMA QueuedIsSeq ==
    ASSUME QueueTypeOK, RingInv
    PROVE  /\ Queued \in Seq(Socket)
           /\ Len(Queued) = queue_filled
           /\ queue_filled \in 0..sq_size
<1>1. queue_filled \in Nat /\ queue_filled \in 0..sq_size
  BY QueueAssumption DEF RingInv, queue_filled
<1>2. Queued \in [1..queue_filled -> Socket]
  BY <1>1 DEF RingInv, Queued
<1> QED BY <1>1, <1>2

\* produce_socket appends: the slot it writes is none of the occupied ones.
LEMMA EnqueueAppends ==
    ASSUME QueueTypeOK, RingInv, queue_filled < sq_size,
           NEW s \in Socket, Enqueue(s)
    PROVE  /\ QueueTypeOK'
           /\ RingInv'
           /\ queue_filled' = queue_filled + 1
           /\ Queued' = Append(Queued, s)
           /\ \A i \in 1..queue_filled : Queued'[i] = Queued[i]
           /\ Queued'[queue_filled + 1] = s
<1> DEFINE f == queue_filled
<1>1. /\ sq_size \in Nat \ {0}
      /\ sq_tail \in 0..sq_size
      /\ f \in 0..(sq_size - 1)
      /\ sq_head = sq_tail + f
      /\ sq_tail' = sq_tail
      /\ sq_head' = sq_head + 1
      /\ queue_filled' = f + 1
  <2>1. sq_size \in Nat \ {0} /\ sq_head \in Int /\ sq_tail \in Int
    BY QueueAssumption DEF QueueTypeOK
  <2>2. sq_tail \in 0..sq_size /\ f \in 0..sq_size /\ f < sq_size
    BY DEF RingInv
  <2>3. sq_head' = sq_head + 1 /\ sq_tail' = sq_tail
    BY DEF Enqueue
  <2>4. f = sq_head - sq_tail /\ queue_filled' = sq_head' - sq_tail'
    BY DEF queue_filled
  <2> QED BY ONLY <2>1, <2>2, <2>3, <2>4
<1>2. sq_head % sq_size \in 0..(sq_size - 1)
  BY <1>1, SlotInRange
<1>3. QueueTypeOK'
  BY <1>1, <1>2 DEF QueueTypeOK, Enqueue
<1>4. \A i \in 1..f : (sq_tail + i - 1) % sq_size # sq_head % sq_size
  <2> TAKE i \in 1..f
  <2>1. /\ sq_tail + i - 1 \in 0..(2 * sq_size - 1)
        /\ sq_head \in 0..(2 * sq_size - 1)
        /\ sq_tail + i - 1 < sq_head
        /\ sq_head < sq_tail + i - 1 + sq_size
    BY <1>1
  <2> QED BY <1>1, <2>1, SlotsDiffer
<1>5. \A i \in 1..f : Queued'[i] = Queued[i]
  <2> TAKE i \in 1..f
  <2>1. i \in 1..(f + 1)
    BY <1>1
  <2>2. (sq_tail + i - 1) % sq_size \in 0..(sq_size - 1)
    BY <1>1, SlotInRange
  <2>3. Queued'[i] = squeue'[(sq_tail + i - 1) % sq_size]
    BY <1>1, <2>1 DEF Queued
  <2>4. Queued[i] = squeue[(sq_tail + i - 1) % sq_size]
    BY DEF Queued
  <2> QED BY <1>4, <2>2, <2>3, <2>4 DEF Enqueue, QueueTypeOK
<1>6. Queued'[f + 1] = s
  <2>1. Queued'[f + 1] = squeue'[(sq_tail + (f + 1) - 1) % sq_size]
    BY <1>1 DEF Queued
  <2>2. sq_tail + (f + 1) - 1 = sq_head
    BY <1>1
  <2> QED BY <1>2, <2>1, <2>2 DEF Enqueue, QueueTypeOK
<1>7. Queued \in Seq(Socket) /\ Len(Queued) = f
  BY QueuedIsSeq
<1>8. RingInv'
  <2>1. \A i \in 1..(f + 1) : Queued'[i] \in Socket
    BY <1>1, <1>5, <1>6 DEF RingInv
  <2> QED BY <1>1, <2>1 DEF RingInv
<1>9. Queued' = Append(Queued, s)
  <2>1. Queued' \in Seq(Socket) /\ Len(Queued') = f + 1
    <3>1. Queued' \in [1..(f + 1) -> Socket]
      BY <1>1, <1>5, <1>6, <1>8 DEF RingInv, Queued
    <3> QED BY <1>1, <3>1
  <2>2. /\ Append(Queued, s) \in Seq(Socket)
        /\ Len(Append(Queued, s)) = f + 1
        /\ \A i \in 1..f : Append(Queued, s)[i] = Queued[i]
        /\ Append(Queued, s)[f + 1] = s
    BY <1>7, AppendProperties
  <2>3. \A i \in 1..(f + 1) : Queued'[i] = Append(Queued, s)[i]
    BY <1>1, <1>5, <1>6, <2>2
  <2> QED BY <2>1, <2>2, <2>3, SeqEqual
<1> QED BY <1>1, <1>3, <1>5, <1>6, <1>8, <1>9

\* consume_socket removes the oldest socket, also when it wraps the counters.
LEMMA DequeueRemovesFront ==
    ASSUME QueueTypeOK, RingInv, sq_head > sq_tail, Dequeue
    PROVE  /\ QueueTypeOK'
           /\ RingInv'
           /\ queue_filled' = queue_filled - 1
           /\ Queued' = Tail(Queued)
           /\ \A i \in 1..(queue_filled - 1) : Queued'[i] = Queued[i + 1]
           /\ FrontSocket = Queued[1]
<1> DEFINE f == queue_filled
<1>1. /\ sq_size \in Nat \ {0}
      /\ sq_tail \in 0..sq_size
      /\ f \in 1..sq_size
      /\ sq_head = sq_tail + f
      /\ squeue' = squeue
      /\ \/ sq_tail' = sq_tail + 1 /\ sq_head' = sq_head /\ sq_tail + 1 <= sq_size
         \/ /\ sq_tail' = sq_tail + 1 - sq_size /\ sq_head' = sq_head - sq_size
            /\ sq_tail + 1 > sq_size
      /\ queue_filled' = f - 1
  BY QueueAssumption DEF QueueTypeOK, RingInv, Dequeue, queue_filled
<1>2. QueueTypeOK'
  BY <1>1 DEF QueueTypeOK
<1>3. \A i \in 1..(f - 1) : Queued'[i] = Queued[i + 1]
  <2> TAKE i \in 1..(f - 1)
  <2>1. i + 1 \in 1..f
    BY <1>1
  <2>2. (sq_tail' + i - 1) % sq_size = (sq_tail + (i + 1) - 1) % sq_size
    <3>1. CASE sq_tail + 1 <= sq_size
      <4>1. sq_tail' + i - 1 = sq_tail + (i + 1) - 1
        BY <1>1, <3>1
      <4> QED BY <4>1
    <3>2. CASE sq_tail + 1 > sq_size
      <4>1. /\ sq_tail' + i - 1 = (sq_tail + (i + 1) - 1) - sq_size
            /\ sq_tail + (i + 1) - 1 \in sq_size..(2 * sq_size - 1)
        BY <1>1, <3>2
      <4> QED BY <1>1, <4>1, SlotAfterWrap
    <3> QED BY <1>1, <3>1, <3>2
  <2>3. Queued'[i] = squeue[(sq_tail' + i - 1) % sq_size]
    BY <1>1 DEF Queued
  <2>4. Queued[i + 1] = squeue[(sq_tail + (i + 1) - 1) % sq_size]
    BY <2>1 DEF Queued
  <2> QED BY <2>2, <2>3, <2>4
<1>4. Queued \in Seq(Socket) /\ Len(Queued) = f
  BY QueuedIsSeq
<1>5. Queued' = Tail(Queued)
  <2>1. Queued' \in Seq(Socket) /\ Len(Queued') = f - 1
    <3>1. \A i \in 1..(f - 1) : i + 1 \in 1..f /\ Queued[i + 1] \in Socket
      BY <1>1 DEF RingInv
    <3>2. Queued' \in [1..(f - 1) -> Socket]
      BY <1>1, <1>3, <3>1 DEF Queued
    <3> QED BY <1>1, <3>2
  <2>2. /\ Tail(Queued) \in Seq(Socket)
        /\ Len(Tail(Queued)) = f - 1
        /\ \A i \in 1..(f - 1) : Tail(Queued)[i] = Queued[i + 1]
    BY <1>1, <1>4, HeadTailProperties, EmptySeq
  <2> QED BY <1>3, <2>1, <2>2, SeqEqual
<1>6. FrontSocket = Queued[1]
  <2>1. sq_tail + 1 - 1 = sq_tail
    BY <1>1
  <2> QED BY <1>1, <2>1 DEF FrontSocket, Queued
<1>7. RingInv'
  <2>1. \A i \in 1..(f - 1) : Queued'[i] \in Socket
    BY <1>1, <1>3 DEF RingInv
  <2>2. sq_tail' \in 0..sq_size
    BY <1>1
  <2> QED BY <1>1, <2>1, <2>2 DEF RingInv
<1> QED BY <1>1, <1>2, <1>3, <1>5, <1>6, <1>7

------------------------------------------------------------------------------
(* Type correctness.  It needs to know when accept_new_connection holds a  *)
(* socket, and that a slot of worker_connections is free when a thread is  *)
(* about to be created.                                                    *)

MasterHoldsSocket == master \in {"produce", "wait", "woken"} <=> so # NoSocket

SlotFree ==
    /\ starter \in {"prespawn", "reserved"} => spawned_worker_threads <= prespawnthreadcount
    /\ starter = "reserved" \/ master = "reserved"
          => spawned_worker_threads < cfg_max_worker_threads
    /\ starter = "reserved" => spawned_worker_threads < prespawnthreadcount
    /\ master # "none" => starter = "started"

\* consume_socket returns 1 only with a socket: a worker that took none has
\* seen stop_flag set, and stop_flag is never reset.
ServingHasSocket ==
    \A w \in Worker : worker[w] = "serve" \/ (worker[w] = "return" /\ stop_flag = 0)
                        => client[w] \in Socket

TypeInv == TypeOK /\ RingInv /\ MasterHoldsSocket /\ SlotFree /\ ServingHasSocket

\* The inductive type invariant holds before mg_start2 starts the first thread.
LEMMA TypeInit == Init => TypeInv
<1> SUFFICES ASSUME Init PROVE TypeInv
  OBVIOUS
<1>1. QueueTypeOK /\ RingInv
  <2>1. sq_head = 0 /\ sq_tail = 0 /\ queue_filled = 0
    BY DEF Init, QueueInit, queue_filled
  <2> QED BY <2>1, QueueAssumption DEF Init, QueueInit, QueueTypeOK, RingInv
<1> QED BY <1>1, QueueAssumption, PoolAssumption
        DEF Init, TypeInv, TypeOK, MasterHoldsSocket, SlotFree, ServingHasSocket,
            StarterPC, MasterPC, WorkerPC, StopperPC, Worker

\* The queue keeps its type and its bounds when no thread touches it.
LEMMA QueueUnchanged ==
    ASSUME QueueTypeOK, RingInv, UNCHANGED queueVars
    PROVE  /\ QueueTypeOK'
           /\ RingInv'
           /\ Queued' = Queued
           /\ queue_filled' = queue_filled
BY DEF queueVars, QueueTypeOK, RingInv, Queued, queue_filled

\* Every step of every thread preserves the inductive type invariant.
LEMMA TypeStep == TypeInv /\ [Next]_vars => TypeInv'
<1> SUFFICES ASSUME TypeInv, [Next]_vars PROVE TypeInv'
  OBVIOUS
<1> USE QueueAssumption, PoolAssumption
    DEF TypeInv, TypeOK, MasterHoldsSocket, SlotFree, ServingHasSocket,
        countVars, sockVars, threadVars
<1>q. /\ QueueTypeOK /\ RingInv
      /\ UNCHANGED queueVars => QueueTypeOK' /\ RingInv'
  BY QueueUnchanged
<1>w. \A w \in Worker, p \in WorkerPC :
          [worker EXCEPT ![w] = p] \in [Worker -> WorkerPC]
  OBVIOUS
<1>1. CASE StartPrespawn
  BY <1>1, <1>q DEF StartPrespawn, ReserveWorker, StarterPC
<1>2. CASE StartCreate
  BY <1>2, <1>q DEF StartCreate, CreateWorker, Worker, WorkerPC, StarterPC
<1>3. CASE StartCreateFails
  BY <1>3, <1>q DEF StartCreateFails, CreateWorkerFails, StarterPC
<1>4. CASE StartMaster
  BY <1>4, <1>q DEF StartMaster, MasterBegins, StarterPC, MasterPC
<1>5. ASSUME NEW s \in Socket, Accept(s) PROVE TypeInv'
  BY <1>5, <1>q DEF Accept, MasterPC
<1>6. CASE ProduceWait
  BY <1>6, <1>q DEF ProduceWait, MasterPC
<1>7. CASE ProduceSocket
  <2>1. so \in Socket
    BY <1>7 DEF ProduceSocket
  <2>2. QueueTypeOK' /\ RingInv'
    BY <1>7, <1>q, <2>1, EnqueueAppends DEF ProduceSocket
  <2>3. /\ worker' \in [Worker -> WorkerPC]
        /\ \A w \in Worker : worker'[w] \in {"serve", "return"} => worker'[w] = worker[w]
    BY <1>7 DEF ProduceSocket, SignalFull, Waiting, WorkerPC
  <2> QED BY <1>7, <2>2, <2>3 DEF ProduceSocket, MasterPC
<1>8. CASE MasterSpawn
  BY <1>8, <1>q DEF MasterSpawn, ReserveWorker, WorkerLimitHit, MasterPC
<1>9. CASE MasterCreate
  <2>1. CASE CreateWorker
    BY <1>9, <2>1, <1>q DEF MasterCreate, CreateWorker, Worker, WorkerPC, MasterPC
  <2>2. CASE CreateWorkerFails
    BY <1>9, <2>2, <1>q DEF MasterCreate, CreateWorkerFails, MasterPC
  <2> QED BY <1>9, <2>1, <2>2 DEF MasterCreate
<1>10. CASE MasterSeesStop
  BY <1>10, <1>q DEF MasterSeesStop, MasterPC
<1>11. CASE MasterBroadcast
  BY <1>11, <1>q DEF MasterBroadcast, MasterPC, WorkerPC
<1>12. CASE MasterJoin
  BY <1>12, <1>q DEF MasterJoin, MasterPC
<1>13. CASE MasterExit
  BY <1>13, <1>q DEF MasterExit, MasterPC
<1>14. ASSUME NEW w \in Worker, WorkerInit(w) PROVE TypeInv'
  BY <1>14, <1>q, <1>w DEF WorkerInit, WorkerPC
<1>15. ASSUME NEW w \in Worker, ConsumeWait(w) PROVE TypeInv'
  BY <1>15, <1>q, <1>w DEF ConsumeWait, IdleOnEntry, WorkerPC
<1>16. ASSUME NEW w \in Worker, ConsumeSocket(w) PROVE TypeInv'
  <2>1. /\ QueueTypeOK' /\ RingInv'
        /\ client' \in [Worker -> Socket \cup {NoSocket}]
    <3>1. CASE sq_head > sq_tail
      <4>1. /\ QueueTypeOK' /\ RingInv' /\ FrontSocket = Queued[1]
            /\ queue_filled' = queue_filled - 1
        BY <1>16, <1>q, <3>1, DequeueRemovesFront DEF ConsumeSocket
      <4>2. 1 \in 1..queue_filled
        BY <3>1 DEF RingInv, queue_filled, QueueTypeOK
      <4>3. Queued[1] \in Socket
        BY <4>2 DEF RingInv
      <4> QED BY <1>16, <3>1, <4>1, <4>3 DEF ConsumeSocket
    <3>2. CASE ~(sq_head > sq_tail)
      BY <1>16, <3>2, <1>q DEF ConsumeSocket
    <3> QED BY <3>1, <3>2
  <2>2. /\ master' \in MasterPC
        /\ master' \in {"produce", "wait", "woken"} <=> master \in {"produce", "wait", "woken"}
        /\ master' = "reserved" <=> master = "reserved"
        /\ master' # "none" <=> master # "none"
    BY <1>16 DEF ConsumeSocket, SignalEmpty, MasterPC
  <2>3. idle_worker_thread_count' \in Int
    BY <1>16 DEF ConsumeSocket, IdleOnEntry
  <2>4. worker' \in [Worker -> WorkerPC]
    BY <1>16, <1>w DEF ConsumeSocket, WorkerPC
  <2>5. ServingHasSocket'
    <3>1. stop_flag = 0 => client'[w] \in Socket
      <4> SUFFICES ASSUME stop_flag = 0 PROVE client'[w] \in Socket
        OBVIOUS
      <4>1. sq_head > sq_tail
        BY <1>16 DEF ConsumeSocket, RingInv, queue_filled, QueueTypeOK
      <4>2. FrontSocket = Queued[1] /\ 1 \in 1..queue_filled
        BY <1>16, <1>q, <4>1, DequeueRemovesFront
        DEF ConsumeSocket, RingInv, queue_filled, QueueTypeOK
      <4> QED BY <1>16, <4>1, <4>2 DEF ConsumeSocket, RingInv
    <3>2. \A v \in Worker : v # w => client'[v] = client[v] /\ worker'[v] = worker[v]
      BY <1>16 DEF ConsumeSocket
    <3>3. worker'[w] = "return" /\ stop_flag' = stop_flag
      BY <1>16 DEF ConsumeSocket
    <3> QED BY <3>1, <3>2, <3>3
  <2> QED BY <1>16, <2>1, <2>2, <2>3, <2>4, <2>5 DEF ConsumeSocket
<1>17. ASSUME NEW w \in Worker, ConsumeReturn(w) PROVE TypeInv'
  BY <1>17, <1>q, <1>w DEF ConsumeReturn, WorkerPC
<1>18. ASSUME NEW w \in Worker, ServeConnection(w) PROVE TypeInv'
  BY <1>18, <1>q, <1>w DEF ServeConnection, WorkerPC
<1>19. ASSUME NEW w \in Worker, WorkerExit(w) PROVE TypeInv'
  BY <1>19, <1>q, <1>w DEF WorkerExit, WorkerPC
<1>20. CASE SpuriousWakeup
  BY <1>20, <1>q, <1>w DEF SpuriousWakeup, Waiting, MasterPC, WorkerPC
<1>21. CASE StopRequest
  BY <1>21, <1>q DEF StopRequest, StopperPC
<1>22. CASE StopWait \/ StopFree
  BY <1>22, <1>q DEF StopWait, StopFree, StopperPC
<1>23. CASE UNCHANGED vars
  BY <1>23, <1>q DEF vars
<1> QED
  BY <1>1, <1>2, <1>3, <1>4, <1>5, <1>6, <1>7, <1>8, <1>9, <1>10, <1>11, <1>12,
     <1>13, <1>14, <1>15, <1>16, <1>17, <1>18, <1>19, <1>20, <1>21, <1>22, <1>23
  DEF Next, StarterStep, MasterStep, MasterRuns, WorkerStep, Terminated

\* All state components keep their types; the ring counters stay in range and
\* every occupied slot holds a socket, whatever the schedule of the threads.
THEOREM TypeCorrect == Spec => [](TypeOK /\ RingInv)
<1>1. Spec => []TypeInv
  BY TypeInit, TypeStep, PTL DEF Spec
<1> QED BY <1>1, PTL DEF TypeInv

------------------------------------------------------------------------------
(* Ownership.  SocketOwnedOnce is not inductive as it stands: a worker on  *)
(* its way out of consume_socket must already hold an open socket, and a   *)
(* connection that was closed must never come back from the kernel.        *)

ReturnsOpenSocket ==
    \A w \in Worker : worker[w] = "return" /\ stop_flag = 0 => client[w] \notin closed

OwnInv == SocketOwnedOnce /\ ReturnsOpenSocket /\ backlog \cap closed = {}

\* At the start no socket is in anybody's hands.
LEMMA OwnInit == Init => OwnInv
<1> SUFFICES ASSUME Init PROVE OwnInv
  OBVIOUS
<1>1. queue_filled = 0
  BY DEF Init, QueueInit, queue_filled
<1> QED BY <1>1, QueueAssumption DEF Init, OwnInv, SocketOwnedOnce, ReturnsOpenSocket

\* A step that leaves the queue and all sockets where they are, and lets no
\* worker start to serve or return, preserves the ownership invariant.
LEMMA OwnFrame ==
    ASSUME TypeInv, OwnInv, UNCHANGED <<queueVars, sockVars>>,
           \A w \in Worker : worker'[w] \in {"serve", "return"} => worker'[w] = worker[w],
           stop_flag' = 0 => stop_flag = 0
    PROVE  OwnInv'
<1>1. Queued' = Queued /\ queue_filled' = queue_filled
  BY QueueUnchanged DEF TypeInv, TypeOK
<1>2. backlog' = backlog /\ so' = so /\ client' = client /\ closed' = closed
  BY DEF sockVars
<1>3. SocketOwnedOnce'
  BY <1>1, <1>2 DEF OwnInv, SocketOwnedOnce
<1>4. ReturnsOpenSocket' /\ (backlog \cap closed = {})'
  BY <1>2 DEF OwnInv, ReturnsOpenSocket
<1> QED BY <1>3, <1>4 DEF OwnInv

\* Every step of every thread preserves the ownership of sockets.
LEMMA OwnStep == TypeInv /\ OwnInv /\ [Next]_vars => OwnInv'
<1> SUFFICES ASSUME TypeInv, OwnInv, [Next]_vars PROVE OwnInv'
  OBVIOUS
<1>t. /\ QueueTypeOK /\ RingInv
      /\ worker \in [Worker -> WorkerPC]
      /\ client \in [Worker -> Socket \cup {NoSocket}]
      /\ backlog \subseteq Socket /\ closed \subseteq Socket
      /\ NoSocket \notin Socket
      /\ queue_filled \in 0..sq_size
      /\ sq_size \in Nat \ {0}
      /\ \A i \in 1..queue_filled : Queued[i] \in Socket
  BY QueueAssumption DEF TypeInv, TypeOK, RingInv
<1>1. CASE StartPrespawn \/ StartMaster
  BY <1>1, OwnFrame DEF StartPrespawn, StartMaster, MasterBegins
<1>2. CASE StartCreate \/ StartCreateFails \/ MasterCreate
  <2>1. \A w \in Worker : worker'[w] \in {"serve", "return"} => worker'[w] = worker[w]
    BY <1>2, <1>t
    DEF StartCreate, StartCreateFails, MasterCreate, CreateWorker, CreateWorkerFails
  <2> QED BY <1>2, <2>1, OwnFrame DEF StartCreate, StartCreateFails, MasterCreate
<1>3. ASSUME NEW s \in Socket, Accept(s) PROVE OwnInv'
  <2>1. Queued' = Queued /\ queue_filled' = queue_filled
    BY <1>3, <1>t, QueueUnchanged DEF Accept
  <2>2. SocketOwnedOnce'
    BY <1>3, <1>t, <2>1 DEF Accept, OwnInv, SocketOwnedOnce
  <2> QED BY <1>3, <1>t, <2>2 DEF Accept, OwnInv, ReturnsOpenSocket, SocketOwnedOnce
<1>4. CASE ProduceSocket
  <2>1. so \in Socket
    BY <1>4 DEF ProduceSocket, TypeInv, TypeOK, MasterHoldsSocket
  <2>2. \A w \in Worker : worker'[w] \in {"serve", "return"} => worker'[w] = worker[w]
    BY <1>4, <1>t DEF ProduceSocket, SignalFull, Waiting
  <2>3. /\ so' = NoSocket /\ backlog' = backlog /\ client' = client /\ closed' = closed
        /\ stop_flag' = stop_flag
    BY <1>4 DEF ProduceSocket
  <2>4. /\ \A i, j \in 1..queue_filled' : Queued'[i] = Queued'[j] => i = j
        /\ \A i \in 1..queue_filled' :
              /\ Queued'[i] \in Socket
              /\ Queued'[i] \notin backlog \cup closed
              /\ \A w \in Worker : Queued'[i] # client[w]
    <3>1. CASE queue_filled < sq_size
      <4>1. /\ queue_filled' = queue_filled + 1
            /\ \A i \in 1..queue_filled : Queued'[i] = Queued[i]
            /\ Queued'[queue_filled + 1] = so
        BY <1>4, <1>t, <2>1, <3>1, EnqueueAppends DEF ProduceSocket
      <4>2. \A i \in 1..queue_filled : Queued[i] # so
        BY DEF OwnInv, SocketOwnedOnce
      <4>3. /\ so \notin backlog \cup closed
            /\ \A w \in Worker : so # client[w]
        BY <2>1, <1>t DEF OwnInv, SocketOwnedOnce
      <4>4. \A i \in 1..queue_filled' : i \in 1..queue_filled \/ i = queue_filled + 1
        BY <1>t, <4>1
      <4> QED BY <1>t, <2>1, <4>1, <4>2, <4>3, <4>4 DEF OwnInv, SocketOwnedOnce
    <3>2. CASE ~(queue_filled < sq_size)
      <4>1. Queued' = Queued /\ queue_filled' = queue_filled
        BY <1>4, <1>t, <3>2, QueueUnchanged DEF ProduceSocket
      <4> QED BY <1>t, <4>1 DEF OwnInv, SocketOwnedOnce
    <3> QED BY <3>1, <3>2
  <2>5. SocketOwnedOnce'
    BY <1>t, <2>2, <2>3, <2>4 DEF OwnInv, SocketOwnedOnce
  <2> QED BY <2>2, <2>3, <2>5 DEF OwnInv, ReturnsOpenSocket
<1>5. CASE ProduceWait \/ MasterSpawn \/ MasterSeesStop \/ MasterJoin \/ MasterExit
  BY <1>5, OwnFrame
  DEF ProduceWait, MasterSpawn, MasterSeesStop, MasterJoin, MasterExit
<1>6. CASE MasterBroadcast
  BY <1>6, <1>t, OwnFrame DEF MasterBroadcast
<1>7. ASSUME NEW w \in Worker, WorkerInit(w) \/ ConsumeWait(w) \/ WorkerExit(w)
      PROVE  OwnInv'
  BY <1>7, <1>t, OwnFrame DEF WorkerInit, ConsumeWait, WorkerExit
<1>8. ASSUME NEW w \in Worker, ConsumeSocket(w) PROVE OwnInv'
  <2>1. /\ so' = so /\ backlog' = backlog /\ closed' = closed /\ stop_flag' = stop_flag
        /\ worker' = [worker EXCEPT ![w] = "return"]
    BY <1>8 DEF ConsumeSocket
  <2>2. CASE sq_head > sq_tail
    <3>1. /\ queue_filled' = queue_filled - 1
          /\ \A i \in 1..(queue_filled - 1) : Queued'[i] = Queued[i + 1]
          /\ FrontSocket = Queued[1]
      BY <1>8, <1>t, <2>2, DequeueRemovesFront DEF ConsumeSocket
    <3>2. 1 \in 1..queue_filled
      BY <1>t, <2>2 DEF queue_filled, QueueTypeOK
    <3>3. /\ client' = [client EXCEPT ![w] = Queued[1]]
          /\ Queued[1] \in Socket
          /\ Queued[1] \notin backlog \cup closed \cup {so}
          /\ \A v \in Worker : Queued[1] # client[v]
      BY <1>8, <1>t, <2>2, <3>1, <3>2 DEF ConsumeSocket, OwnInv, SocketOwnedOnce
    <3>4. \A i \in 1..queue_filled' : i + 1 \in 1..queue_filled /\ i + 1 # 1
      BY <1>t, <3>1
    <3>5. /\ \A i, j \in 1..queue_filled' : Queued'[i] = Queued'[j] => i = j
          /\ \A i \in 1..queue_filled' :
                /\ Queued'[i] \notin backlog \cup closed \cup {so}
                /\ \A v \in Worker : Queued'[i] # client[v]
                /\ Queued'[i] # Queued[1]
      <4>1. \A i \in 1..queue_filled' : Queued'[i] = Queued[i + 1]
        BY <3>1
      <4>2. \A i, j \in 1..queue_filled' : i + 1 = j + 1 => i = j
        BY <1>t, <3>1
      <4> QED BY <3>2, <3>4, <4>1, <4>2 DEF OwnInv, SocketOwnedOnce
    <3>6. SocketOwnedOnce'
      BY <1>t, <2>1, <3>3, <3>5 DEF OwnInv, SocketOwnedOnce
    <3> QED BY <1>t, <2>1, <3>3, <3>6 DEF OwnInv, ReturnsOpenSocket
  <2>3. CASE ~(sq_head > sq_tail)
    <3>1. UNCHANGED <<queueVars, client>> /\ stop_flag # 0
      BY <1>8, <1>t, <2>3 DEF ConsumeSocket, queue_filled, QueueTypeOK
    <3>2. Queued' = Queued /\ queue_filled' = queue_filled
      BY <1>t, <3>1, QueueUnchanged
    <3> QED BY <1>t, <2>1, <3>1, <3>2 DEF OwnInv, SocketOwnedOnce, ReturnsOpenSocket
  <2> QED BY <2>2, <2>3
<1>9. ASSUME NEW w \in Worker, ConsumeReturn(w) PROVE OwnInv'
  <2>1. Queued' = Queued /\ queue_filled' = queue_filled
    BY <1>9, <1>t, QueueUnchanged DEF ConsumeReturn
  <2>2. /\ UNCHANGED <<backlog, so, client, closed, stop_flag>>
        /\ worker' = [worker EXCEPT ![w] = IF stop_flag = 0 THEN "serve" ELSE "exit"]
        /\ stop_flag = 0 => client[w] \in Socket \ closed
    BY <1>9 DEF ConsumeReturn, sockVars, OwnInv, ReturnsOpenSocket, TypeInv, ServingHasSocket
  <2> QED BY <1>t, <2>1, <2>2 DEF OwnInv, SocketOwnedOnce, ReturnsOpenSocket
<1>10. ASSUME NEW w \in Worker, ServeConnection(w) PROVE OwnInv'
  <2>1. Queued' = Queued /\ queue_filled' = queue_filled
    BY <1>10, <1>t, QueueUnchanged DEF ServeConnection
  <2>2. /\ UNCHANGED <<backlog, so, client, stop_flag>>
        /\ worker' = [worker EXCEPT ![w] = "consume"]
        /\ closed' = closed \cup {client[w]}
        /\ client[w] \in Socket
    BY <1>10 DEF ServeConnection, TypeInv, ServingHasSocket
  <2> QED BY <1>t, <2>1, <2>2 DEF OwnInv, SocketOwnedOnce, ReturnsOpenSocket,
                                  TypeInv, ServingHasSocket
<1>11. CASE SpuriousWakeup
  BY <1>11, <1>t, OwnFrame DEF SpuriousWakeup, Waiting
<1>12. CASE StopRequest \/ StopWait \/ StopFree
  BY <1>12, OwnFrame DEF StopRequest, StopWait, StopFree
<1>13. CASE UNCHANGED vars
  BY <1>13, OwnFrame DEF vars, threadVars
<1> QED
  BY <1>1, <1>2, <1>3, <1>4, <1>5, <1>6, <1>7, <1>8, <1>9, <1>10, <1>11, <1>12, <1>13
  DEF Next, StarterStep, MasterStep, MasterRuns, WorkerStep, Terminated

\* No accepted connection is ever handed to two workers, queued twice, or served
\* after it was closed, for any number of workers and any queue size.
THEOREM NoDoubleService == Spec => []SocketOwnedOnce
<1>1. Spec => []TypeInv
  BY TypeInit, TypeStep, PTL DEF Spec
<1>2. Spec => []OwnInv
  BY <1>1, OwnInit, OwnStep, PTL DEF Spec
<1> QED BY <1>2, PTL DEF OwnInv

------------------------------------------------------------------------------
(* Refinement: seen through Queued, the ring is the FIFO of SocketFifo.    *)

\* The ring is empty when the server is set up.
LEMMA FifoInitial == Init => Fifo!FifoInit
<1> SUFFICES ASSUME Init PROVE Queued = <<>>
  BY DEF Fifo!FifoInit
<1>1. queue_filled = 0
  BY DEF Init, QueueInit, queue_filled
<1> QED BY <1>1 DEF Queued

\* The only steps that change the contents of the ring are produce_socket, which
\* puts a socket at the end, and consume_socket, which takes the first one.
LEMMA FifoStep == TypeInv /\ [Next]_vars => [Fifo!FifoNext]_Queued
<1> SUFFICES ASSUME TypeInv, [Next]_vars PROVE Fifo!FifoNext \/ Queued' = Queued
  OBVIOUS
<1>t. QueueTypeOK /\ RingInv /\ sq_size \in Nat \ {0} /\ NoSocket \notin Socket
  BY QueueAssumption DEF TypeInv, TypeOK
<1>u. UNCHANGED queueVars => Queued' = Queued
  BY <1>t, QueueUnchanged
<1>l. Len(Queued) = queue_filled /\ queue_filled \in 0..sq_size
  BY <1>t, QueuedIsSeq
<1>1. CASE ProduceSocket
  <2>1. CASE queue_filled < sq_size
    <3>1. so \in Socket
      BY <1>1, <1>t DEF ProduceSocket, TypeInv, TypeOK, MasterHoldsSocket
    <3>2. Enqueue(so)
      BY <1>1, <2>1 DEF ProduceSocket
    <3>3. Queued' = Append(Queued, so)
      BY <1>t, <2>1, <3>1, <3>2, EnqueueAppends
    <3> QED BY <1>l, <2>1, <3>1, <3>3 DEF Fifo!FifoNext, Fifo!Put
  <2>2. CASE ~(queue_filled < sq_size)
    BY <1>1, <1>u, <2>2 DEF ProduceSocket
  <2> QED BY <2>1, <2>2
<1>2. CASE \E w \in Worker : ConsumeSocket(w)
  <2>1. PICK w \in Worker : ConsumeSocket(w)
    BY <1>2
  <2>2. CASE sq_head > sq_tail
    <3>1. Queued' = Tail(Queued)
      BY <1>t, <2>1, <2>2, DequeueRemovesFront DEF ConsumeSocket
    <3>2. queue_filled > 0
      BY <1>t, <2>2 DEF queue_filled, QueueTypeOK
    <3>3. Queued # <<>>
      BY <1>l, <3>2
    <3> QED BY <3>1, <3>3 DEF Fifo!FifoNext, Fifo!Get
  <2>3. CASE ~(sq_head > sq_tail)
    BY <1>u, <2>1, <2>3 DEF ConsumeSocket
  <2> QED BY <2>2, <2>3
<1>3. CASE StarterStep
  BY <1>3, <1>u DEF StarterStep, StartPrespawn, StartCreate, StartCreateFails, StartMaster, MasterBegins
<1>4. CASE \E s \in Socket : Accept(s)
  BY <1>4, <1>u DEF Accept
<1>5. CASE MasterRuns /\ ~ProduceSocket
  BY <1>5, <1>u DEF MasterRuns, ProduceWait, MasterSpawn, MasterCreate, MasterSeesStop,
                    MasterBroadcast, MasterJoin, MasterExit
<1>6. CASE \E w \in Worker : WorkerInit(w) \/ ConsumeWait(w) \/ ConsumeReturn(w)
                                \/ ServeConnection(w) \/ WorkerExit(w)
  BY <1>6, <1>u DEF WorkerInit, ConsumeWait, ConsumeReturn, ServeConnection, WorkerExit
<1>7. CASE SpuriousWakeup \/ StopRequest \/ StopWait \/ StopFree
  BY <1>7, <1>u DEF SpuriousWakeup, StopRequest, StopWait, StopFree
<1>8. CASE UNCHANGED vars
  BY <1>8, <1>u DEF vars
<1> QED
  BY <1>1, <1>2, <1>3, <1>4, <1>5, <1>6, <1>7, <1>8
  DEF Next, MasterStep, WorkerStep, Terminated

\* The ring buffer of the default build is a bounded FIFO channel: sockets leave
\* it in the order of their acceptance, each once, and never more than
\* connection_queue wait, for every number of threads and every schedule.
THEOREM RingIsFifo == Spec => FifoImplemented
<1>1. Spec => []TypeInv
  BY TypeInit, TypeStep, PTL DEF Spec
<1> QED
  BY <1>1, FifoInitial, FifoStep, PTL DEF Spec, FifoImplemented, Fifo!FifoSpec
------------------------------------------------------------------------------
(* The end of the threads.  Only the slots below spawned_worker_threads    *)
(* hold a thread, so joining those is enough; once they are joined, nobody *)
(* creates another one.                                                    *)

UnspawnedNone == \A w \in Worker : w >= spawned_worker_threads => worker[w] = "none"

Gone(w) == worker[w] \in {"none", "done", "failed"}

JoinedGone == master \in {"exit", "done"} => \A w \in Worker : Gone(w)

LifeInv == /\ UnspawnedNone
           /\ JoinedGone
           /\ stopper = "freed" => master = "done"

\* At the start there is no thread at all.
LEMMA LifeInit == Init => LifeInv
BY DEF Init, LifeInv, UnspawnedNone, JoinedGone, Gone

\* A step in which no thread is created and none that has ended runs again
\* preserves the invariant, unless it is the master that moves.
LEMMA LifeFrame ==
    ASSUME TypeInv, LifeInv, UNCHANGED <<spawned_worker_threads, stopper>>,
           \A w \in Worker : Gone(w) => worker'[w] = worker[w],
           master' \in {"exit", "done"} => master' = master,
           master = "done" => master' = "done"
    PROVE  LifeInv'
<1>1. UnspawnedNone'
  BY DEF LifeInv, UnspawnedNone, Gone
<1>2. JoinedGone'
  BY DEF LifeInv, JoinedGone, Gone
<1> QED BY <1>1, <1>2 DEF LifeInv

\* Every step of every thread preserves it.
LEMMA LifeStep == TypeInv /\ LifeInv /\ [Next]_vars => LifeInv'
<1> SUFFICES ASSUME TypeInv, LifeInv, [Next]_vars PROVE LifeInv'
  OBVIOUS
<1>t. /\ worker \in [Worker -> WorkerPC]
      /\ spawned_worker_threads \in Nat
      /\ master # "none" => starter = "started"
  BY PoolAssumption DEF TypeInv, TypeOK, SlotFree
<1>1. CASE StartPrespawn \/ MasterSpawn
  BY <1>1, LifeFrame DEF StartPrespawn, MasterSpawn, ReserveWorker, countVars
<1>2. CASE StartMaster
  BY <1>2, <1>t, LifeFrame DEF StartMaster, MasterBegins, countVars
<1>3. CASE StartCreate \/ MasterCreate
  <2>1. /\ master' \notin {"exit", "done"} /\ stopper' = stopper
        /\ master # "done"
        /\ CreateWorker \/ CreateWorkerFails
    BY <1>3, <1>t DEF StartCreate, MasterCreate
  <2>2. UnspawnedNone'
    <3>1. CASE CreateWorker
      <4>1. ASSUME NEW w \in Worker, w >= spawned_worker_threads + 1 PROVE worker'[w] = "none"
        BY <1>t, <3>1, <4>1 DEF CreateWorker, LifeInv, UnspawnedNone, Worker
      <4> QED BY <3>1, <4>1 DEF CreateWorker, UnspawnedNone
    <3>2. CASE CreateWorkerFails
      BY <3>2 DEF CreateWorkerFails, LifeInv, UnspawnedNone
    <3> QED BY <2>1, <3>1, <3>2
  <2> QED BY <2>1, <2>2 DEF LifeInv, JoinedGone
<1>4. CASE StartCreateFails
  BY <1>4, LifeFrame DEF StartCreateFails, CreateWorkerFails
<1>5. CASE ProduceWait \/ MasterSeesStop
  BY <1>5, LifeFrame DEF ProduceWait, MasterSeesStop, countVars
<1>6. ASSUME NEW s \in Socket, Accept(s) PROVE LifeInv'
  BY <1>6, LifeFrame DEF Accept, countVars
<1>7. CASE ProduceSocket
  <2>1. \A w \in Worker : Gone(w) => worker'[w] = worker[w]
    BY <1>7, <1>t DEF ProduceSocket, SignalFull, Waiting, Gone
  <2> QED BY <1>7, <2>1, LifeFrame DEF ProduceSocket, countVars
<1>8. CASE MasterBroadcast
  <2>1. \A w \in Worker : Gone(w) => worker'[w] = worker[w]
    BY <1>8, <1>t DEF MasterBroadcast, Waiting, Gone
  <2> QED BY <1>8, <2>1, LifeFrame DEF MasterBroadcast, countVars
<1>9. CASE MasterJoin
  <2>1. \A w \in Worker : Gone(w)
    BY <1>9, <1>t DEF MasterJoin, LifeInv, UnspawnedNone, Gone, Worker
  <2> QED BY <1>9, <2>1 DEF MasterJoin, LifeInv, UnspawnedNone, JoinedGone, Gone, countVars
<1>10. CASE MasterExit
  BY <1>10 DEF MasterExit, LifeInv, UnspawnedNone, JoinedGone, Gone, countVars
<1>11. ASSUME NEW w \in Worker,
              WorkerInit(w) \/ ConsumeWait(w) \/ ConsumeReturn(w) \/ ServeConnection(w)
                \/ WorkerExit(w)
       PROVE  LifeInv'
  <2>1. \A v \in Worker : Gone(v) => worker'[v] = worker[v]
    BY <1>11, <1>t DEF WorkerInit, ConsumeWait, ConsumeReturn, ServeConnection, WorkerExit, Gone
  <2> QED BY <1>11, <2>1, LifeFrame
          DEF WorkerInit, ConsumeWait, ConsumeReturn, ServeConnection, WorkerExit, countVars
<1>12. ASSUME NEW w \in Worker, ConsumeSocket(w) PROVE LifeInv'
  <2>1. \A v \in Worker : Gone(v) => worker'[v] = worker[v]
    BY <1>12, <1>t DEF ConsumeSocket, Gone
  <2> QED BY <1>12, <2>1, LifeFrame DEF ConsumeSocket, SignalEmpty
<1>13. CASE SpuriousWakeup
  <2>1. \A w \in Worker : Gone(w) => worker'[w] = worker[w]
    BY <1>13, <1>t DEF SpuriousWakeup, Waiting, Gone
  <2> QED BY <1>13, <2>1, LifeFrame DEF SpuriousWakeup, countVars
<1>14. CASE StopRequest \/ StopWait \/ StopFree
  BY <1>14 DEF StopRequest, StopWait, StopFree, LifeInv, UnspawnedNone, JoinedGone, Gone,
               countVars
<1>15. CASE UNCHANGED vars
  BY <1>15 DEF vars, countVars, threadVars, LifeInv, UnspawnedNone, JoinedGone, Gone
<1> QED
  BY <1>1, <1>2, <1>3, <1>4, <1>5, <1>6, <1>7, <1>8, <1>9, <1>10, <1>11, <1>12, <1>13,
     <1>14, <1>15
  DEF Next, StarterStep, MasterStep, MasterRuns, WorkerStep, Terminated

\* The life cycle invariant holds in every reachable state.
LEMMA LifeAlways == Spec => [](TypeInv /\ LifeInv)
<1>1. Spec => []TypeInv
  BY TypeInit, TypeStep, PTL DEF Spec
<1> QED BY <1>1, LifeInit, LifeStep, PTL DEF Spec

\* mg_stop frees the context only when no thread of it is left, whatever was
\* running, waiting or just being created when the server was stopped.
THEOREM NoThreadAtFree == Spec => []ThreadsGoneAtFree
<1>1. LifeInv => ThreadsGoneAtFree
  BY DEF LifeInv, JoinedGone, Gone, ThreadsGoneAtFree
<1> QED BY <1>1, LifeAlways, PTL

------------------------------------------------------------------------------
(* Accounting.  While the server runs, no accepted connection is lost.     *)

\* A socket that waits in the ring still waits after a step that leaves the
\* ring alone, and after one that appends another socket.
LEMMA StaysQueued ==
    ASSUME QueueTypeOK, RingInv, NEW s \in Socket, InQueue(s),
           \/ UNCHANGED queueVars
           \/ \E t \in Socket : queue_filled < sq_size /\ Enqueue(t)
    PROVE  InQueue(s)'
<1>1. CASE UNCHANGED queueVars
  BY <1>1, QueueUnchanged DEF InQueue
<1>2. ASSUME NEW t \in Socket, queue_filled < sq_size, Enqueue(t) PROVE InQueue(s)'
  <2>1. /\ queue_filled' = queue_filled + 1
        /\ \A i \in 1..queue_filled : Queued'[i] = Queued[i]
    BY <1>2, EnqueueAppends
  <2>2. PICK i \in 1..queue_filled : Queued[i] = s
    BY DEF InQueue
  <2>3. queue_filled \in Int /\ i \in 1..queue_filled'
    BY <2>1 DEF queue_filled, QueueTypeOK
  <2> QED BY <2>1, <2>2, <2>3 DEF InQueue
<1> QED BY <1>1, <1>2

\* Where a connection that the kernel has handed over is.
Accounted(s) ==
    \/ s = so \/ s \in closed \/ InQueue(s)
    \/ \E w \in Worker : worker[w] \in {"return", "serve"} /\ client[w] = s

\* Nobody loses a connection in a step that moves none.
LEMMA AccountedFrame ==
    ASSUME TypeInv, NEW s \in Socket, Accounted(s), UNCHANGED <<queueVars, sockVars>>,
           \A w \in Worker : worker[w] \in {"return", "serve"}
                               => worker'[w] \in {"return", "serve"}
    PROVE  Accounted(s)'
<1>1. InQueue(s) => InQueue(s)'
  BY StaysQueued DEF TypeInv, TypeOK
<1> QED BY <1>1 DEF Accounted, sockVars

\* Every step of every thread keeps all accepted connections accounted for.
LEMMA AccountedStep ==
    TypeInv /\ LifeInv /\ AcceptedAccounted /\ [Next]_vars => AcceptedAccounted'
<1> SUFFICES ASSUME TypeInv, LifeInv, AcceptedAccounted, [Next]_vars, stop_flag' = 0,
                    NEW s \in Socket, s \notin backlog'
             PROVE  Accounted(s)'
  BY DEF AcceptedAccounted, Accounted
<1>t. /\ QueueTypeOK /\ RingInv
      /\ worker \in [Worker -> WorkerPC]
      /\ client \in [Worker -> Socket \cup {NoSocket}]
      /\ NoSocket \notin Socket
      /\ sq_size \in Nat \ {0}
      /\ spawned_worker_threads \in Nat
  BY QueueAssumption DEF TypeInv, TypeOK
<1>a. ASSUME stop_flag = 0, s \notin backlog PROVE Accounted(s)
  BY <1>a DEF AcceptedAccounted, Accounted
<1>f. ASSUME UNCHANGED <<queueVars, sockVars>>, stop_flag = 0,
             \A w \in Worker : worker[w] \in {"return", "serve"}
                                 => worker'[w] \in {"return", "serve"}
      PROVE  Accounted(s)'
  BY <1>a, <1>f, AccountedFrame DEF sockVars
<1>1. CASE StartPrespawn \/ StartMaster \/ ProduceWait \/ MasterSpawn \/ MasterSeesStop
             \/ MasterJoin \/ MasterExit \/ StopRequest \/ StopWait \/ StopFree
  BY <1>1, <1>f DEF StartPrespawn, StartMaster, MasterBegins, ProduceWait, MasterSpawn, MasterSeesStop,
                    MasterJoin, MasterExit, StopRequest, StopWait, StopFree
<1>2. CASE StartCreate \/ StartCreateFails \/ MasterCreate
  <2>1. \A w \in Worker : worker[w] \in {"return", "serve"} => worker'[w] = worker[w]
    BY <1>2, <1>t DEF StartCreate, StartCreateFails, MasterCreate, CreateWorker,
                      CreateWorkerFails, LifeInv, UnspawnedNone
  <2> QED BY <1>2, <1>f, <2>1 DEF StartCreate, StartCreateFails, MasterCreate
<1>3. ASSUME NEW t \in Socket, Accept(t) PROVE Accounted(s)'
  <2>1. /\ UNCHANGED <<queueVars, stop_flag, worker, client>>
        /\ backlog' = backlog \ {t}
        /\ t = so' \/ t \in closed'
        /\ closed \subseteq closed'
    BY <1>3 DEF Accept
  <2>2. so = NoSocket
    BY <1>3 DEF Accept, TypeInv, MasterHoldsSocket
  <2>3. CASE s = t
    BY <2>1, <2>3 DEF Accounted
  <2>4. CASE s # t
    <3>1. Accounted(s) /\ s # so
      BY <1>a, <1>t, <2>1, <2>2, <2>4
    <3>2. InQueue(s) => InQueue(s)'
      BY <1>t, <2>1, StaysQueued
    <3> QED BY <2>1, <3>1, <3>2 DEF Accounted
  <2> QED BY <2>3, <2>4
<1>4. CASE ProduceSocket
  <2>1. /\ so \in Socket /\ stop_flag = 0 /\ queue_filled < sq_size /\ Enqueue(so)
        /\ UNCHANGED <<backlog, client, closed>>
    BY <1>4 DEF ProduceSocket, TypeInv, TypeOK, MasterHoldsSocket
  <2>2. \A w \in Worker : worker[w] \in {"return", "serve"} => worker'[w] = worker[w]
    BY <1>4, <1>t DEF ProduceSocket, SignalFull, Waiting
  <2>3. InQueue(s) => InQueue(s)'
    BY <1>t, <2>1, StaysQueued
  <2>4. ASSUME s = so PROVE InQueue(s)'
    <3>1. queue_filled' = queue_filled + 1 /\ Queued'[queue_filled + 1] = s
      BY <1>t, <2>1, <2>4, EnqueueAppends
    <3>2. queue_filled + 1 \in 1..queue_filled'
      BY <1>t, <3>1 DEF RingInv
    <3> QED BY <3>1, <3>2 DEF InQueue
  <2> QED BY <1>a, <2>1, <2>2, <2>3, <2>4 DEF Accounted
<1>5. CASE MasterBroadcast
  BY <1>5, <1>f, <1>t DEF MasterBroadcast, Waiting
<1>6. ASSUME NEW w \in Worker,
             WorkerInit(w) \/ ConsumeWait(w) \/ ConsumeReturn(w) \/ WorkerExit(w)
      PROVE  Accounted(s)'
  BY <1>6, <1>f, <1>t DEF WorkerInit, ConsumeWait, ConsumeReturn, WorkerExit
<1>7. ASSUME NEW w \in Worker, ConsumeSocket(w) PROVE Accounted(s)'
  <2>1. /\ stop_flag = 0 /\ sq_head > sq_tail /\ Dequeue
        /\ worker[w] \notin {"return", "serve"}
        /\ worker' = [worker EXCEPT ![w] = "return"]
        /\ client' = [client EXCEPT ![w] = FrontSocket]
        /\ UNCHANGED <<backlog, so, closed>>
    BY <1>7, <1>t DEF ConsumeSocket, RingInv, queue_filled, QueueTypeOK
  <2>2. /\ queue_filled' = queue_filled - 1
        /\ \A i \in 1..(queue_filled - 1) : Queued'[i] = Queued[i + 1]
        /\ FrontSocket = Queued[1]
    BY <1>t, <2>1, DequeueRemovesFront
  <2>3. Accounted(s)
    BY <1>a, <2>1
  <2>4. CASE InQueue(s)
    <3>1. PICK i \in 1..queue_filled : Queued[i] = s
      BY <2>4 DEF InQueue
    <3>2. CASE i = 1
      <4>1. client'[w] = s /\ worker'[w] = "return"
        BY <1>t, <2>1, <2>2, <3>1, <3>2
      <4> QED BY <4>1 DEF Accounted
    <3>3. CASE i # 1
      <4>1. queue_filled \in Nat /\ i - 1 \in 1..(queue_filled - 1)
        BY <1>t, <3>1, <3>3 DEF RingInv
      <4>2. Queued'[i - 1] = s /\ i - 1 \in 1..queue_filled'
        BY <2>2, <3>1, <4>1
      <4> QED BY <4>2 DEF Accounted, InQueue
    <3> QED BY <3>2, <3>3
  <2>5. CASE s = so \/ s \in closed
    BY <2>1, <2>5 DEF Accounted
  <2>6. CASE \E v \in Worker : worker[v] \in {"return", "serve"} /\ client[v] = s
    <3>1. PICK v \in Worker : worker[v] \in {"return", "serve"} /\ client[v] = s
      BY <2>6
    <3>2. worker'[v] = worker[v] /\ client'[v] = s
      BY <1>t, <2>1, <3>1
    <3> QED BY <3>1, <3>2 DEF Accounted
  <2> QED BY <2>3, <2>4, <2>5, <2>6 DEF Accounted
<1>8. ASSUME NEW w \in Worker, ServeConnection(w) PROVE Accounted(s)'
  <2>1. /\ UNCHANGED <<queueVars, stop_flag, backlog, so, client>>
        /\ worker' = [worker EXCEPT ![w] = "consume"]
        /\ closed' = closed \cup {client[w]}
    BY <1>8 DEF ServeConnection
  <2>2. InQueue(s) => InQueue(s)'
    BY <1>t, <2>1, StaysQueued
  <2>3. \A v \in Worker : v # w => worker'[v] = worker[v]
    BY <1>t, <2>1
  <2> QED BY <1>a, <2>1, <2>2, <2>3 DEF Accounted
<1>9. CASE SpuriousWakeup
  BY <1>9, <1>f, <1>t DEF SpuriousWakeup, Waiting
<1>10. CASE UNCHANGED vars
  BY <1>10, <1>f DEF vars, threadVars
<1> QED
  BY <1>1, <1>2, <1>3, <1>4, <1>5, <1>6, <1>7, <1>8, <1>9, <1>10
  DEF Next, StarterStep, MasterStep, MasterRuns, WorkerStep, Terminated

\* While the server runs, a connection that was accepted is held by exactly the
\* thread or the queue that has to deal with it, until it is closed: no schedule
\* of the master and any number of workers loses one.
THEOREM NoConnectionLost == Spec => []AcceptedAccounted
<1>1. Init => AcceptedAccounted
  BY DEF Init, AcceptedAccounted
<1> QED BY <1>1, LifeAlways, AccountedStep, PTL DEF Spec
------------------------------------------------------------------------------
(* Counting threads.  idle_worker_thread_count and the wakeups of sq_full  *)
(* are about how many workers are where.                                   *)

\* A set that gains or loses at most the element x.
LEMMA CountOne ==
    ASSUME NEW A, NEW B, NEW x, IsFiniteSet(A),
           \A y : y # x => (y \in A <=> y \in B)
    PROVE  /\ IsFiniteSet(B)
           /\ Cardinality(A) \in Nat
           /\ Cardinality(B) = Cardinality(A) + (IF x \in B THEN 1 ELSE 0)
                                              - (IF x \in A THEN 1 ELSE 0)
<1>1. Cardinality(A) \in Nat
  BY FS_CardinalityType
<1>2. CASE x \in B /\ x \notin A
  <2>1. B = A \cup {x}
    BY <1>2
  <2>2. IsFiniteSet(B) /\ Cardinality(B) = Cardinality(A) + 1
    BY <1>2, <2>1, FS_AddElement
  <2> QED BY <1>1, <1>2, <2>2
<1>3. CASE x \notin B /\ x \in A
  <2>1. B = A \ {x}
    BY <1>3
  <2>2. IsFiniteSet(B) /\ Cardinality(B) = Cardinality(A) - 1
    BY <1>3, <2>1, FS_RemoveElement
  <2> QED BY <1>1, <1>3, <2>2
<1>4. CASE x \in B <=> x \in A
  <2>1. B = A
    BY <1>4
  <2> QED BY <1>1, <1>4, <2>1
<1> QED BY <1>2, <1>3, <1>4

\* The sets of workers that are counted are finite.
LEMMA WorkerSetsFinite ==
    /\ IsFiniteSet(CountedIdle) /\ Cardinality(CountedIdle) \in Nat
    /\ IsFiniteSet(Woken) /\ Cardinality(Woken) \in Nat
    /\ IsFiniteSet(Idle) /\ Cardinality(Idle) \in Nat
    /\ Cardinality(CountedIdle') \in Nat /\ Cardinality(Woken') \in Nat
<1>1. IsFiniteSet(Worker)
  BY PoolAssumption, FS_Interval DEF Worker
<1>2. CountedIdle \in SUBSET Worker /\ Woken \in SUBSET Worker /\ Idle \in SUBSET Worker
  BY DEF CountedIdle, Woken, Idle
<1>3. CountedIdle' \in SUBSET Worker /\ Woken' \in SUBSET Worker
  BY DEF CountedIdle, Woken
<1> QED BY <1>1, <1>2, <1>3, FS_Subset, FS_CardinalityType

Reserved == (IF starter = "reserved" THEN 1 ELSE 0) + (IF master = "reserved" THEN 1 ELSE 0)

\* The counter and its corrections.
LEMMA IdleCount ==
    /\ IdleCountExact <=> idle_worker_thread_count = Cardinality(CountedIdle) + Reserved
    /\ IdleCountExact' <=> idle_worker_thread_count' = Cardinality(CountedIdle') + Reserved'
BY WorkerSetsFinite DEF IdleCountExact, Reserved

\* A step that leaves the counter, the reservations and the counted workers.
LEMMA IdleFrame ==
    ASSUME IdleCountExact, idle_worker_thread_count' = idle_worker_thread_count,
           CountedIdle' = CountedIdle,
           starter' = "reserved" <=> starter = "reserved",
           master' = "reserved" <=> master = "reserved"
    PROVE  IdleCountExact'
BY DEF IdleCountExact

\* Every step of every thread keeps the counter exact.
LEMMA IdleStep == TypeInv /\ LifeInv /\ IdleCountExact /\ [Next]_vars => IdleCountExact'
<1> SUFFICES ASSUME TypeInv, LifeInv, IdleCountExact, [Next]_vars PROVE IdleCountExact'
  OBVIOUS
<1> DEFINE c == Cardinality(CountedIdle)
<1>t. /\ worker \in [Worker -> WorkerPC]
      /\ idle_worker_thread_count \in Int
      /\ spawned_worker_threads \in Nat
      /\ starter = "reserved" \/ master = "reserved" => spawned_worker_threads \in Worker
      /\ master # "none" => starter = "started"
      /\ IsFiniteSet(CountedIdle) /\ c \in Nat
      /\ idle_worker_thread_count = c + Reserved
  BY PoolAssumption, WorkerSetsFinite, IdleCount DEF TypeInv, TypeOK, SlotFree, Worker
<1>p. IdleCountExact' <=> idle_worker_thread_count' = Cardinality(CountedIdle') + Reserved'
  BY IdleCount
<1>r. Reserved \in Nat /\ Reserved' \in Nat
  BY DEF Reserved
<1>1. CASE StartPrespawn \/ MasterSpawn
  <2>1. CountedIdle' = CountedIdle
    BY <1>1 DEF StartPrespawn, MasterSpawn, CountedIdle
  <2>2. idle_worker_thread_count' = idle_worker_thread_count + Reserved' - Reserved
    BY <1>1, <1>t DEF StartPrespawn, MasterSpawn, ReserveWorker, countVars, Reserved
  <2> QED BY <1>t, <1>p, <1>r, <2>1, <2>2
<1>2. CASE StartCreate \/ (MasterCreate /\ CreateWorker)
  <2>1. /\ CreateWorker
        /\ Reserved = 1 /\ Reserved' = 0
        /\ spawned_worker_threads \in Worker
    BY <1>2, <1>t DEF StartCreate, MasterCreate, Reserved
  <2>2. worker[spawned_worker_threads] = "none"
    BY <1>t, <2>1 DEF LifeInv, UnspawnedNone
  <2>3. /\ \A w : w # spawned_worker_threads => (w \in CountedIdle <=> w \in CountedIdle')
        /\ spawned_worker_threads \in CountedIdle' \ CountedIdle
    BY <1>t, <2>1, <2>2 DEF CreateWorker, CountedIdle
  <2>4. Cardinality(CountedIdle') = c + 1
    BY <1>t, <2>3, CountOne
  <2> QED BY <1>t, <1>p, <2>1, <2>4 DEF CreateWorker
<1>3. CASE StartCreateFails \/ (MasterCreate /\ CreateWorkerFails)
  <2>1. /\ CreateWorkerFails
        /\ Reserved = 1 /\ Reserved' = 0
    BY <1>3, <1>t DEF StartCreateFails, MasterCreate, Reserved
  <2>2. CountedIdle' = CountedIdle
    BY <2>1 DEF CreateWorkerFails, CountedIdle
  <2> QED BY <1>t, <1>p, <2>1, <2>2 DEF CreateWorkerFails
<1>4. CASE StartMaster \/ ProduceWait \/ MasterSeesStop \/ MasterJoin \/ MasterExit
             \/ StopRequest \/ StopWait \/ StopFree
  <2>1. /\ UNCHANGED <<worker, countVars>>
        /\ starter' = "reserved" <=> starter = "reserved"
        /\ master' = "reserved" <=> master = "reserved"
    BY <1>4, <1>t DEF StartMaster, MasterBegins, ProduceWait, MasterSeesStop, MasterJoin, MasterExit,
                      StopRequest, StopWait, StopFree
  <2> QED BY <2>1, IdleFrame DEF CountedIdle, countVars
<1>5. ASSUME NEW s \in Socket, Accept(s) PROVE IdleCountExact'
  BY <1>5, IdleFrame DEF Accept, countVars, CountedIdle
<1>6. CASE ProduceSocket
  <2>1. CountedIdle' = CountedIdle
    BY <1>6, <1>t DEF ProduceSocket, SignalFull, Waiting, CountedIdle
  <2> QED BY <1>6, <2>1, IdleFrame DEF ProduceSocket, countVars
<1>7. CASE MasterBroadcast
  <2>1. CountedIdle' = CountedIdle
    BY <1>7, <1>t DEF MasterBroadcast, Waiting, CountedIdle
  <2> QED BY <1>7, <2>1, IdleFrame DEF MasterBroadcast, countVars
<1>8. ASSUME NEW w \in Worker,
             WorkerInit(w) \/ ConsumeReturn(w) \/ ServeConnection(w) \/ WorkerExit(w)
      PROVE  IdleCountExact'
  <2>1. CountedIdle' = CountedIdle
    BY <1>8, <1>t DEF WorkerInit, ConsumeReturn, ServeConnection, WorkerExit, CountedIdle
  <2> QED BY <1>8, <2>1, IdleFrame
          DEF WorkerInit, ConsumeReturn, ServeConnection, WorkerExit, countVars
<1>9. ASSUME NEW w \in Worker, ConsumeWait(w) PROVE IdleCountExact'
  <2>1. /\ \A v : v # w => (v \in CountedIdle <=> v \in CountedIdle')
        /\ w \in CountedIdle'
        /\ w \in CountedIdle <=> worker[w] # "consume"
    BY <1>9, <1>t DEF ConsumeWait, CountedIdle
  <2>2. Cardinality(CountedIdle') = c + IdleOnEntry(w)
    BY <1>t, <2>1, CountOne DEF IdleOnEntry
  <2>3. Reserved' = Reserved /\ IdleOnEntry(w) \in Nat
    BY <1>9 DEF ConsumeWait, Reserved, IdleOnEntry
  <2> QED BY <1>9, <1>t, <1>p, <1>r, <2>2, <2>3 DEF ConsumeWait
<1>10. ASSUME NEW w \in Worker, ConsumeSocket(w) PROVE IdleCountExact'
  <2>1. /\ \A v : v # w => (v \in CountedIdle <=> v \in CountedIdle')
        /\ w \notin CountedIdle'
        /\ w \in CountedIdle <=> worker[w] # "consume"
    BY <1>10, <1>t DEF ConsumeSocket, CountedIdle
  <2>2. Cardinality(CountedIdle') = c + IdleOnEntry(w) - 1
    BY <1>t, <2>1, CountOne DEF IdleOnEntry
  <2>3. Reserved' = Reserved /\ IdleOnEntry(w) \in Nat
    BY <1>10 DEF ConsumeSocket, SignalEmpty, Reserved, IdleOnEntry
  <2> QED BY <1>10, <1>t, <1>p, <1>r, <2>2, <2>3 DEF ConsumeSocket
<1>11. CASE SpuriousWakeup
  <2>1. CountedIdle' = CountedIdle
    BY <1>11, <1>t DEF SpuriousWakeup, Waiting, CountedIdle
  <2> QED BY <1>11, <2>1, IdleFrame DEF SpuriousWakeup, countVars
<1>12. CASE UNCHANGED vars
  BY <1>12, IdleFrame DEF vars, countVars, threadVars, CountedIdle
<1> QED
  BY <1>1, <1>2, <1>3, <1>4, <1>5, <1>6, <1>7, <1>8, <1>9, <1>10, <1>11, <1>12
  DEF Next, StarterStep, MasterStep, MasterRuns, MasterCreate, WorkerStep, Terminated

\* No worker is idle before there is one.
LEMMA IdleInit == Init => IdleCountExact
<1> SUFFICES ASSUME Init PROVE IdleCountExact
  OBVIOUS
<1>1. CountedIdle = {}
  BY DEF Init, CountedIdle
<1> QED BY <1>1, FS_EmptySet DEF Init, IdleCountExact

\* idle_worker_thread_count, which three kinds of threads change in separate
\* critical sections, always counts exactly the workers that are idle or being
\* created, and so never wraps below zero, for any number of workers and with
\* failing thread creation and failing workers.
THEOREM IdleCounterExact == Spec => []IdleCountExact
BY IdleInit, IdleStep, LifeAlways, PTL DEF Spec

------------------------------------------------------------------------------
(* Wakeups.  NoLostWakeup is inductive once the types are known.           *)

\* A step that leaves the queue, the waiting and the woken workers, and sends
\* the master to sleep only on a full queue.
LEMMA WakeupFrame ==
    ASSUME TypeInv, NoLostWakeup, UNCHANGED queueVars,
           \A w \in Worker : /\ worker'[w] = "wait" <=> worker[w] = "wait"
                             /\ worker'[w] = "woken" <=> worker[w] = "woken",
           master' = "wait" => master = "wait" \/ queue_filled = sq_size
    PROVE  NoLostWakeup'
<1>1. queue_filled' = queue_filled
  BY QueueUnchanged DEF TypeInv, TypeOK
<1>2. Waiting' = Waiting /\ Woken' = Woken
  BY DEF Waiting, Woken
<1> QED BY <1>1, <1>2 DEF NoLostWakeup

\* One more worker is woken.
LEMMA OneMoreWoken ==
    ASSUME TypeInv, NEW w \in Waiting, worker' = [worker EXCEPT ![w] = "woken"]
    PROVE  Cardinality(Woken') = Cardinality(Woken) + 1
<1>1. /\ \A v : v # w => (v \in Woken <=> v \in Woken')
      /\ w \in Woken' \ Woken
  BY DEF TypeInv, TypeOK, Waiting, Woken
<1> QED BY <1>1, WorkerSetsFinite, CountOne

\* Every step of every thread preserves it.
LEMMA WakeupStep == TypeInv /\ LifeInv /\ NoLostWakeup /\ [Next]_vars => NoLostWakeup'
<1> SUFFICES ASSUME TypeInv, LifeInv, NoLostWakeup, [Next]_vars PROVE NoLostWakeup'
  OBVIOUS
<1>t. /\ QueueTypeOK /\ RingInv
      /\ queue_filled \in 0..sq_size /\ sq_size \in Nat \ {0}
      /\ worker \in [Worker -> WorkerPC]
      /\ spawned_worker_threads \in Nat
      /\ IsFiniteSet(Woken) /\ Cardinality(Woken) \in Nat
  BY QueueAssumption, WorkerSetsFinite DEF TypeInv, TypeOK, RingInv
<1>1. CASE StartPrespawn \/ StartMaster \/ MasterSpawn \/ MasterSeesStop \/ MasterJoin
             \/ MasterExit \/ StopRequest \/ StopWait \/ StopFree
  BY <1>1, WakeupFrame DEF StartPrespawn, StartMaster, MasterBegins, MasterSpawn, MasterSeesStop,
                           MasterJoin, MasterExit, StopRequest, StopWait, StopFree
<1>2. CASE StartCreate \/ StartCreateFails \/ MasterCreate
  <2>1. \A w \in Worker : /\ worker'[w] = "wait" <=> worker[w] = "wait"
                          /\ worker'[w] = "woken" <=> worker[w] = "woken"
    BY <1>2, <1>t DEF StartCreate, StartCreateFails, MasterCreate, CreateWorker,
                      CreateWorkerFails, LifeInv, UnspawnedNone
  <2> QED BY <1>2, <2>1, WakeupFrame DEF StartCreate, StartCreateFails, MasterCreate
<1>3. ASSUME NEW s \in Socket, Accept(s) PROVE NoLostWakeup'
  BY <1>3, WakeupFrame DEF Accept
<1>4. CASE ProduceWait
  BY <1>4, <1>t, WakeupFrame DEF ProduceWait
<1>5. CASE ProduceSocket
  <2>1. master' # "wait"
    BY <1>5 DEF ProduceSocket
  <2>2. queue_filled' \in Int /\ queue_filled' <= queue_filled + 1
    <3>1. CASE queue_filled < sq_size
      <4>1. so \in Socket /\ Enqueue(so)
        BY <1>5, <3>1 DEF ProduceSocket, TypeInv, TypeOK, MasterHoldsSocket
      <4> QED BY <1>t, <3>1, <4>1, EnqueueAppends
    <3>2. CASE ~(queue_filled < sq_size)
      BY <1>5, <1>t, <3>2, QueueUnchanged DEF ProduceSocket
    <3> QED BY <3>1, <3>2
  <2>3. CASE Waiting = {} /\ UNCHANGED worker
    BY <2>1, <2>3 DEF NoLostWakeup, Waiting
  <2>4. ASSUME NEW w \in Waiting, worker' = [worker EXCEPT ![w] = "woken"]
        PROVE  NoLostWakeup'
    <3>1. Cardinality(Woken') = Cardinality(Woken) + 1
      BY <2>4, OneMoreWoken
    <3>2. Cardinality(Woken) >= queue_filled
      BY DEF NoLostWakeup
    <3> QED BY <1>t, <2>1, <2>2, <3>1, <3>2 DEF NoLostWakeup
  <2> QED BY <1>5, <2>3, <2>4 DEF ProduceSocket, SignalFull
<1>6. CASE MasterBroadcast
  <2>1. Waiting' = {}
    BY <1>6, <1>t DEF MasterBroadcast, Waiting
  <2> QED BY <1>6, <2>1 DEF MasterBroadcast, NoLostWakeup
<1>7. ASSUME NEW w \in Worker,
             WorkerInit(w) \/ ConsumeReturn(w) \/ ServeConnection(w) \/ WorkerExit(w)
      PROVE  NoLostWakeup'
  <2>1. \A v \in Worker : /\ worker'[v] = "wait" <=> worker[v] = "wait"
                          /\ worker'[v] = "woken" <=> worker[v] = "woken"
    BY <1>7, <1>t DEF WorkerInit, ConsumeReturn, ServeConnection, WorkerExit
  <2> QED BY <1>7, <2>1, WakeupFrame DEF WorkerInit, ConsumeReturn, ServeConnection, WorkerExit
<1>8. ASSUME NEW w \in Worker, ConsumeWait(w) PROVE NoLostWakeup'
  <2>1. queue_filled = 0 /\ queue_filled' = 0 /\ master' = master
    BY <1>8, <1>t, QueueUnchanged DEF ConsumeWait, queue_filled, QueueTypeOK
  <2>2. Cardinality(Woken') \in Nat
    BY WorkerSetsFinite
  <2> QED BY <1>t, <2>1, <2>2 DEF NoLostWakeup
<1>9. ASSUME NEW w \in Worker, ConsumeSocket(w) PROVE NoLostWakeup'
  <2>1. master' # "wait"
    BY <1>9 DEF ConsumeSocket, SignalEmpty
  <2>2. /\ worker' = [worker EXCEPT ![w] = "return"]
        /\ worker[w] # "wait"
    BY <1>9 DEF ConsumeSocket
  <2>3. Waiting' = Waiting
    BY <1>t, <2>2 DEF Waiting
  <2>4. /\ Cardinality(Woken') >= Cardinality(Woken) - 1
        /\ Cardinality(Woken') \in Nat
    <3>1. \A v : v # w => (v \in Woken <=> v \in Woken')
      BY <1>t, <2>2 DEF Woken
    <3>2. Cardinality(Woken') \in Nat
      BY WorkerSetsFinite
    <3> QED BY <1>t, <3>1, <3>2, CountOne
  <2>5. queue_filled' = 0 \/ queue_filled' = queue_filled - 1
    <3>1. CASE sq_head > sq_tail
      BY <1>9, <1>t, <3>1, DequeueRemovesFront DEF ConsumeSocket
    <3>2. CASE ~(sq_head > sq_tail)
      <4>1. queue_filled = 0
        BY <1>t, <3>2 DEF queue_filled, QueueTypeOK
      <4> QED BY <1>9, <1>t, <3>2, <4>1, QueueUnchanged DEF ConsumeSocket
    <3> QED BY <3>1, <3>2
  <2> QED BY <1>t, <2>1, <2>3, <2>4, <2>5 DEF NoLostWakeup
<1>10. CASE SpuriousWakeup
  <2>1. queue_filled' = queue_filled
    BY <1>10, <1>t, QueueUnchanged DEF SpuriousWakeup
  <2>2. CASE worker' = worker /\ master' = "woken"
    BY <2>1, <2>2 DEF NoLostWakeup, Waiting, Woken
  <2>3. ASSUME NEW w \in Waiting, worker' = [worker EXCEPT ![w] = "woken"], master' = master
        PROVE  NoLostWakeup'
    <3>1. Cardinality(Woken') = Cardinality(Woken) + 1 /\ Cardinality(Woken) >= queue_filled
      BY <2>3, OneMoreWoken DEF NoLostWakeup
    <3> QED BY <1>t, <2>1, <2>3, <3>1 DEF NoLostWakeup
  <2> QED BY <1>10, <2>2, <2>3 DEF SpuriousWakeup
<1>11. CASE UNCHANGED vars
  BY <1>11, WakeupFrame DEF vars, threadVars
<1> QED
  BY <1>1, <1>2, <1>3, <1>4, <1>5, <1>6, <1>7, <1>8, <1>9, <1>10, <1>11
  DEF Next, StarterStep, MasterStep, MasterRuns, WorkerStep, Terminated

\* Neither condition variable loses a wakeup: the master sleeps only on a full
\* queue, and while a worker sleeps at least as many are awake and on their way
\* to the queue as there are sockets in it.
THEOREM WakeupsNotLost == Spec => []NoLostWakeup
<1>1. Init => NoLostWakeup
  BY DEF Init, NoLostWakeup, Waiting
<1> QED BY <1>1, WakeupStep, LifeAlways, PTL DEF Spec
------------------------------------------------------------------------------
(* Scaling, when no thread fails to start.  At its accept loop the master  *)
(* has a worker for every waiting socket, unless all workers exist; after  *)
(* it has queued one more socket, and until it has called                  *)
(* mg_start_worker_thread, one worker may be missing.                      *)

AllSpawned == spawned_worker_threads = cfg_max_worker_threads

ScaleInv ==
    /\ \A w \in Worker : worker[w] # "failed"
    /\ master = "none" => queue_filled = 0
    /\ stop_flag = 0 /\ master \in {"poll", "produce", "wait", "woken"}
          => Cardinality(Idle) >= queue_filled \/ AllSpawned
    /\ stop_flag = 0 /\ master \in {"spawn", "reserved"}
          => Cardinality(Idle) + 1 >= queue_filled \/ AllSpawned

\* While the server is set up nothing is queued.
LEMMA ScaleInit == Init => ScaleInv
<1> SUFFICES ASSUME Init PROVE ScaleInv
  OBVIOUS
<1>1. queue_filled = 0
  BY DEF Init, QueueInit, queue_filled
<1> QED BY <1>1 DEF Init, ScaleInv

\* A step that leaves the queue, takes no worker out of Idle, and lets the
\* master stay where it is, or leave its accept loop, preserves the invariant.
LEMMA ScaleFrame ==
    ASSUME TypeInv, ScaleInv, UNCHANGED <<queueVars, spawned_worker_threads>>,
           stop_flag' = 0 => stop_flag = 0,
           \A w \in Worker : worker'[w] # "failed",
           Idle \subseteq Idle',
           \/ master' = master
           \/ master' \notin {"none", "poll", "produce", "wait", "woken", "spawn", "reserved"}
           \/ /\ master \in {"poll", "produce", "wait", "woken"}
              /\ master' \in {"poll", "produce", "wait", "woken"}
    PROVE  ScaleInv'
<1>1. queue_filled' = queue_filled /\ queue_filled \in Int
  BY QueueUnchanged DEF TypeInv, TypeOK, RingInv
<1>2. Cardinality(Idle) \in Nat /\ Cardinality(Idle') \in Nat
      /\ Cardinality(Idle) <= Cardinality(Idle')
  <2>1. IsFiniteSet(Idle')
    <3>1. IsFiniteSet(Worker) /\ Idle' \in SUBSET Worker
      BY PoolAssumption, FS_Interval DEF Worker, Idle
    <3> QED BY <3>1, FS_Subset
  <2> QED BY <2>1, WorkerSetsFinite, FS_Subset, FS_CardinalityType
<1>3. AllSpawned => AllSpawned'
  BY DEF AllSpawned
<1> QED BY <1>1, <1>2, <1>3 DEF ScaleInv

\* Every step preserves it.
LEMMA ScaleStep ==
    ASSUME ~CreateMayFail, ~InitMayFail
    PROVE  TypeInv /\ LifeInv /\ IdleCountExact /\ ScaleInv /\ [Next]_vars => ScaleInv'
<1> SUFFICES ASSUME TypeInv, LifeInv, IdleCountExact, ScaleInv, [Next]_vars PROVE ScaleInv'
  OBVIOUS
<1> DEFINE n == Cardinality(Idle)
<1>t. /\ QueueTypeOK /\ RingInv
      /\ queue_filled \in 0..sq_size /\ sq_size \in Nat \ {0}
      /\ worker \in [Worker -> WorkerPC]
      /\ spawned_worker_threads \in 0..cfg_max_worker_threads
      /\ cfg_max_worker_threads \in Nat \ {0}
      /\ starter = "reserved" \/ master = "reserved" => spawned_worker_threads \in Worker
      /\ master # "none" => starter = "started"
      /\ IsFiniteSet(Idle) /\ n \in Nat
      /\ \A w \in Worker : worker[w] # "failed"
  BY QueueAssumption, PoolAssumption, WorkerSetsFinite
  DEF TypeInv, TypeOK, RingInv, SlotFree, Worker, ScaleInv
<1>q. UNCHANGED queueVars => queue_filled' = queue_filled
  BY <1>t, QueueUnchanged
<1>1. CASE StartPrespawn
  BY <1>1, <1>t, ScaleFrame DEF StartPrespawn, ReserveWorker, countVars, Idle
<1>2. CASE StartCreate \/ MasterCreate
  <2>1. /\ CreateWorker /\ UNCHANGED <<queueVars, stop_flag>>
        /\ spawned_worker_threads \in Worker
        /\ \/ master = "reserved" /\ master' = "poll"
           \/ master = "none" /\ master' = "none"
    BY <1>2, <1>t DEF StartCreate, MasterCreate, CreateWorkerFails
  <2>2. worker[spawned_worker_threads] = "none"
    BY <1>t, <2>1 DEF LifeInv, UnspawnedNone
  <2>3. /\ \A w : w # spawned_worker_threads => (w \in Idle <=> w \in Idle')
        /\ spawned_worker_threads \in Idle' \ Idle
        /\ \A w \in Worker : worker'[w] # "failed"
    BY <1>t, <2>1, <2>2 DEF CreateWorker, Idle
  <2>4. Cardinality(Idle') = n + 1
    BY <1>t, <2>3, CountOne
  <2>5. master = "reserved" /\ stop_flag = 0 => n + 1 >= queue_filled
    BY <1>t, <2>1 DEF ScaleInv, AllSpawned, Worker
  <2> QED BY <1>t, <1>q, <2>1, <2>3, <2>4, <2>5 DEF ScaleInv
<1>3. CASE StartCreateFails
  BY <1>3 DEF StartCreateFails, CreateWorkerFails
<1>4. CASE StartMaster
  <2>1. /\ UNCHANGED <<queueVars, worker>> /\ master' \in {"poll", "left", "none"}
        /\ master = "none"
    BY <1>4, <1>t DEF StartMaster, MasterBegins
  <2>2. Idle' = Idle
    BY <2>1 DEF Idle
  <2> QED BY <1>t, <1>q, <2>1, <2>2 DEF ScaleInv
<1>5. ASSUME NEW s \in Socket, Accept(s) PROVE ScaleInv'
  BY <1>5, <1>t, ScaleFrame DEF Accept, countVars, Idle
<1>6. CASE ProduceWait
  BY <1>6, <1>t, ScaleFrame DEF ProduceWait, countVars, Idle
<1>7. CASE ProduceSocket
  <2>1. /\ master' = "spawn" /\ stop_flag' = stop_flag
        /\ spawned_worker_threads' = spawned_worker_threads
        /\ master \in {"poll", "produce", "wait", "woken"}
    BY <1>7 DEF ProduceSocket, countVars
  <2>2. /\ Idle' = Idle
        /\ \A w \in Worker : worker'[w] # "failed"
    BY <1>7, <1>t DEF ProduceSocket, SignalFull, Waiting, Idle
  <2>3. queue_filled' \in Int /\ queue_filled' <= queue_filled + 1
    <3>1. CASE queue_filled < sq_size
      <4>1. so \in Socket /\ Enqueue(so)
        BY <1>7, <3>1 DEF ProduceSocket, TypeInv, TypeOK, MasterHoldsSocket
      <4> QED BY <1>t, <3>1, <4>1, EnqueueAppends
    <3>2. CASE ~(queue_filled < sq_size)
      BY <1>7, <1>t, <1>q, <3>2 DEF ProduceSocket
    <3> QED BY <3>1, <3>2
  <2> QED BY <1>t, <2>1, <2>2, <2>3 DEF ScaleInv, AllSpawned
<1>8. CASE MasterSpawn
  <2>1. UNCHANGED <<queueVars, stop_flag, worker, spawned_worker_threads>> /\ Idle' = Idle
    BY <1>8 DEF MasterSpawn, ReserveWorker, countVars, Idle
  <2>2. CASE WorkerLimitHit \/ EnoughIdle
    <3>1. master' = "poll" /\ master = "spawn" /\ starter # "reserved"
      BY <1>8, <1>t, <2>2 DEF MasterSpawn
    <3>2. CountedIdle = Idle
      BY <1>t DEF CountedIdle, Idle
    <3>3. EnoughIdle => n >= queue_filled
      BY <1>t, <3>1, <3>2 DEF EnoughIdle, IdleCountExact
    <3>4. WorkerLimitHit => AllSpawned
      BY <1>t DEF WorkerLimitHit, AllSpawned
    <3> QED BY <1>t, <1>q, <2>1, <2>2, <3>1, <3>3, <3>4 DEF ScaleInv, AllSpawned
  <2>3. CASE ~(WorkerLimitHit \/ EnoughIdle)
    <3>1. master' = "reserved" /\ master = "spawn"
      BY <1>8, <2>3 DEF MasterSpawn
    <3> QED BY <1>t, <1>q, <2>1, <3>1 DEF ScaleInv, AllSpawned
  <2> QED BY <2>2, <2>3
<1>9. CASE MasterSeesStop \/ MasterJoin \/ MasterExit
  BY <1>9, <1>t, ScaleFrame DEF MasterSeesStop, MasterJoin, MasterExit, countVars, Idle
<1>10. CASE MasterBroadcast
  <2>1. Idle' = Idle /\ \A w \in Worker : worker'[w] # "failed"
    BY <1>10, <1>t DEF MasterBroadcast, Waiting, Idle
  <2> QED BY <1>10, <2>1, ScaleFrame DEF MasterBroadcast, countVars
<1>11. ASSUME NEW w \in Worker,
              WorkerInit(w) \/ ConsumeReturn(w) \/ ServeConnection(w) \/ WorkerExit(w)
       PROVE  ScaleInv'
  <2>1. Idle' = Idle /\ \A v \in Worker : worker'[v] # "failed"
    BY <1>11, <1>t DEF WorkerInit, ConsumeReturn, ServeConnection, WorkerExit, Idle
  <2> QED BY <1>11, <2>1, ScaleFrame
          DEF WorkerInit, ConsumeReturn, ServeConnection, WorkerExit, countVars
<1>12. ASSUME NEW w \in Worker, ConsumeWait(w) PROVE ScaleInv'
  <2>1. Idle \subseteq Idle' /\ \A v \in Worker : worker'[v] # "failed"
    BY <1>12, <1>t DEF ConsumeWait, Idle
  <2> QED BY <1>12, <2>1, ScaleFrame DEF ConsumeWait
<1>13. ASSUME NEW w \in Worker, ConsumeSocket(w) PROVE ScaleInv'
  <2>1. /\ UNCHANGED <<stop_flag, spawned_worker_threads>>
        /\ master' = master \/ (master = "wait" /\ master' = "woken")
    BY <1>13 DEF ConsumeSocket, SignalEmpty
  <2>2. /\ \A v : v # w => (v \in Idle <=> v \in Idle')
        /\ w \notin Idle'
        /\ \A v \in Worker : worker'[v] # "failed"
    BY <1>13, <1>t DEF ConsumeSocket, Idle
  <2>3. /\ Cardinality(Idle') >= n - 1 /\ Cardinality(Idle') \in Int
    BY <1>t, <2>2, CountOne
  <2>4. \/ queue_filled' = queue_filled - 1
        \/ stop_flag # 0 /\ queue_filled' = 0 /\ queue_filled = 0
    <3>1. CASE sq_head > sq_tail
      BY <1>13, <1>t, <3>1, DequeueRemovesFront DEF ConsumeSocket
    <3>2. CASE ~(sq_head > sq_tail)
      <4>1. queue_filled = 0 /\ stop_flag # 0
        BY <1>13, <1>t, <3>2 DEF ConsumeSocket, queue_filled, QueueTypeOK
      <4> QED BY <1>13, <1>q, <3>2, <4>1 DEF ConsumeSocket
    <3> QED BY <3>1, <3>2
  <2>5. queue_filled' \in Nat
    <3>1. RingInv'
      BY TypeStep DEF TypeInv
    <3> QED BY <1>t, <3>1 DEF RingInv
  <2> QED BY <1>t, <2>1, <2>2, <2>3, <2>4, <2>5 DEF ScaleInv, AllSpawned
<1>14. CASE SpuriousWakeup
  <2>1. Idle' = Idle /\ \A w \in Worker : worker'[w] # "failed"
    BY <1>14, <1>t DEF SpuriousWakeup, Waiting, Idle
  <2> QED BY <1>14, <2>1, ScaleFrame DEF SpuriousWakeup, countVars
<1>15. CASE StopRequest \/ StopWait \/ StopFree
  BY <1>15, <1>t, ScaleFrame DEF StopRequest, StopWait, StopFree, countVars, Idle
<1>16. CASE UNCHANGED vars
  BY <1>16, <1>t, ScaleFrame DEF vars, countVars, threadVars, Idle
<1> QED
  BY <1>1, <1>2, <1>3, <1>4, <1>5, <1>6, <1>7, <1>8, <1>9, <1>10, <1>11, <1>12, <1>13,
     <1>14, <1>15, <1>16
  DEF Next, StarterStep, MasterStep, MasterRuns, WorkerStep, Terminated

\* If threads can be created, the pool grows with the load: whenever the master
\* is back at accept, every queued socket has an idle worker or the limit
\* num_threads is reached.  The comparison in mg_start_worker_thread is enough
\* although workers come and go between the count and the creation.
THEOREM PoolGrowsWithLoad ==
    ASSUME ~CreateMayFail, ~InitMayFail
    PROVE  Spec => []ScalesToLoad
<1>1. ScaleInv => ScalesToLoad
  BY DEF ScaleInv, ScalesToLoad, AllSpawned
<1>2. TypeInv /\ LifeInv /\ IdleCountExact /\ ScaleInv /\ [Next]_vars => ScaleInv'
  BY ScaleStep
<1> QED BY <1>1, <1>2, ScaleInit, LifeAlways, IdleCounterExact, PTL DEF Spec
------------------------------------------------------------------------------
(* mg_stop and its documentation.  "Waits until all threads have stopped"  *)
(* is refuted for a master thread that could not be created (run           *)
(* pool_stop_hang); that is the only way it fails.                         *)

MasterRunning == /\ starter = "started" => master # "none"
                 /\ stopper # "returned"

\* If threads can be created there is a master to stop.
LEMMA MasterRunningStep ==
    ASSUME ~CreateMayFail
    PROVE  MasterRunning /\ [Next]_vars => MasterRunning'
<1> SUFFICES ASSUME MasterRunning, [Next]_vars PROVE MasterRunning'
  OBVIOUS
<1> USE DEF MasterRunning
<1>1. CASE StarterStep
  BY <1>1 DEF StarterStep, StartPrespawn, StartCreate, StartCreateFails, StartMaster, MasterBegins
<1>2. ASSUME NEW s \in Socket, Accept(s) PROVE MasterRunning'
  BY <1>2 DEF Accept
<1>3. CASE MasterRuns
  BY <1>3 DEF MasterRuns, ProduceWait, ProduceSocket, MasterSpawn, MasterCreate,
              MasterSeesStop, MasterBroadcast, MasterJoin, MasterExit
<1>4. ASSUME NEW w \in Worker, WorkerStep(w) PROVE MasterRunning'
  BY <1>4 DEF WorkerStep, WorkerInit, ConsumeWait, ConsumeSocket, SignalEmpty,
              ConsumeReturn, ServeConnection, WorkerExit
<1>5. CASE SpuriousWakeup
  BY <1>5 DEF SpuriousWakeup
<1>6. CASE StopRequest \/ StopWait \/ StopFree
  BY <1>6 DEF StopRequest, StopWait, StopFree
<1>7. CASE UNCHANGED vars
  BY <1>7 DEF vars, threadVars
<1> QED BY <1>1, <1>2, <1>3, <1>4, <1>5, <1>6, <1>7 DEF Next, MasterStep, Terminated

\* When mg_stop returns, all threads have ended, provided that thread creation
\* does not fail.
THEOREM StopWaits ==
    ASSUME ~CreateMayFail
    PROVE  Spec => []StopWaitsForThreads
<1>1. Init => MasterRunning
  BY DEF Init, MasterRunning
<1>2. MasterRunning /\ [Next]_vars => MasterRunning'
  BY MasterRunningStep
<1>3. LifeInv /\ MasterRunning => StopWaitsForThreads
  BY DEF LifeInv, JoinedGone, Gone, MasterRunning, StopWaitsForThreads
<1> QED BY <1>1, <1>2, <1>3, LifeAlways, PTL DEF Spec
=============================================================================
