---------------------------- MODULE ThreadsProofs ----------------------------
(***************************************************************************)
(* Proofs about the loops of threads that MCThreads instantiates for TLC:  *)
(* the alternative socket queue, for any number of workers and             *)
(* connections, a worker on its connection, for any messages, and a        *)
(* websocket with any frames, sizes of the queue and writing threads.      *)
(***************************************************************************)
EXTENDS Connection, WebSocket, AltQueue, FiniteSetTheorems, SequenceTheorems, TLAPS

-----------------------------------------------------------------------------
(* AltQueue *)

MasterAt == {"off", "failed", "loop", "spawn", "create", "search", "signal", "join", "done"}
WorkerAt == {"none", "start", "wait", "woken", "serve", "again", "gone"}
Slot == [in_use : {0, 1, 2}, sock : Nat]

AltTypeOK ==
    /\ altMaster \in [at : MasterAt, sock : Nat, slot : Nat]
    /\ altWorker \in [Slots -> WorkerAt]
    /\ altSock \in [Slots -> Nat]
    /\ client_socks \in [Slots -> Slot]
    /\ altEvent \in [Slots -> BOOLEAN]
    /\ altSpawned \in Nat /\ altAccepted \in Nat
    /\ altStop \in {0, 1, 2}
    /\ altOpen \subseteq 1..altAccepted

\* The master has a socket, a slot to signal or a stop flag only where its code has one.
MasterPlaces ==
    /\ altMaster.at \notin {"spawn", "create", "search"} => altMaster.sock = 0
    /\ altMaster.at \in {"spawn", "create", "search"} => altMaster.sock \in altOpen
    /\ altMaster.at # "signal" => altMaster.slot = 0
    /\ altMaster.at = "create" => altSpawned < AltMaxWorkers
    /\ altMaster.at \in {"join", "done"} => altStop # 0
    /\ altStop = 2 => altMaster.at = "done" /\ \A i \in Slots : altWorker[i] \in {"none", "gone"}

\* Until the shutdown wakes everybody, an event says that the slot of a waiting worker was
\* filled, and a slot is marked as waiting only while its worker does wait.
EventsMeanSockets ==
    altMaster.at \notin {"join", "done"} =>
        \A i \in Slots :
            /\ altEvent[i] \/ altMaster.slot = i => altWorker[i] = "wait" /\ client_socks[i].in_use = 1
            /\ altMaster.slot = i => ~altEvent[i]
            /\ altWorker[i] = "woken" => client_socks[i].in_use = 1
            /\ client_socks[i].in_use = 2 => altWorker[i] = "wait"

\* What one worker and its slot have.
WorkerPlaces ==
    \A i \in Slots :
        /\ altSpawned < i <=> altWorker[i] = "none"
        /\ altWorker[i] \in {"none", "start"} => client_socks[i].in_use = 0
        /\ altWorker[i] # "serve" => altSock[i] = 0
        /\ altWorker[i] = "serve" => altSock[i] \in altOpen
        /\ client_socks[i].sock <= altAccepted
        /\ Unread(i) => /\ client_socks[i].sock \in altOpen
                        /\ altWorker[i] = "woken" \/ altEvent[i] \/ altMaster.slot = i

\* Every open connection is somewhere, and never in two places.
SomeOwner ==
    \A s \in altOpen : \/ altMaster.sock = s
                       \/ \E i \in Slots : Unread(i) /\ client_socks[i].sock = s
                       \/ \E i \in Slots : altSock[i] = s

OneOwner ==
    \A i \in Slots :
        /\ Unread(i) => client_socks[i].sock # altMaster.sock
        /\ altSock[i] # 0 => altSock[i] # altMaster.sock
        /\ \A j \in Slots :
              /\ Unread(i) /\ Unread(j) /\ client_socks[i].sock = client_socks[j].sock => i = j
              /\ altSock[i] # 0 /\ altSock[i] = altSock[j] => i = j
              /\ Unread(i) => client_socks[i].sock # altSock[j]

AltInv ==
    AltTypeOK /\ MasterPlaces /\ EventsMeanSockets /\ WorkerPlaces /\ SomeOwner /\ OneOwner

\* Every step of the master and of the workers keeps every connection in one place.
LEMMA AltStepInv == AltInv /\ [AltNext]_altVars => AltInv'
<1> SUFFICES ASSUME AltInv, [AltNext]_altVars PROVE AltInv'
  OBVIOUS
<1>t. /\ altMaster \in [at : MasterAt, sock : Nat, slot : Nat]
      /\ altMaster.at \in MasterAt /\ altMaster.sock \in Nat /\ altMaster.slot \in Nat
      /\ altWorker \in [Slots -> WorkerAt] /\ altSock \in [Slots -> Nat]
      /\ client_socks \in [Slots -> Slot] /\ altEvent \in [Slots -> BOOLEAN]
      /\ altSpawned \in Nat /\ altAccepted \in Nat /\ altStop \in {0, 1, 2}
      /\ altOpen \subseteq 1..altAccepted
      /\ \A i \in Slots : i \in Nat /\ i # 0 /\ i <= AltMaxWorkers
      /\ \A i \in Slots : client_socks[i].in_use \in {0, 1, 2} /\ client_socks[i].sock \in Nat
      /\ AltMaxWorkers \in Nat
  BY AltQueueAssumption DEF AltInv, AltTypeOK, Slots, Slot
<1>v. MasterPlaces /\ EventsMeanSockets /\ WorkerPlaces /\ SomeOwner /\ OneOwner
  BY DEF AltInv
<1>1. CASE AltStart
  <2>f. /\ altMaster.at \in {"off", "failed"}
        /\ altMaster' = [at |-> "loop", sock |-> 0, slot |-> 0]
        /\ UNCHANGED <<altWorker, altSock, client_socks, altEvent, altSpawned, altStop, altOpen,
                       altAccepted>>
    BY <1>1, <1>t, <1>v DEF AltStart, workerVars, Off
  <2>1. AltTypeOK'
    BY <1>t, <1>v, <2>f DEF AltTypeOK, MasterAt, WorkerAt, Slot
  <2>2. MasterPlaces'
    BY <1>t, <1>v, <2>f DEF MasterPlaces
  <2>3. EventsMeanSockets'
    BY <1>t, <1>v, <2>f DEF EventsMeanSockets, MasterPlaces
  <2>4. WorkerPlaces'
    BY <1>t, <1>v, <2>f DEF WorkerPlaces, Unread, EventsMeanSockets, MasterPlaces
  <2>5. SomeOwner'
    BY <1>t, <1>v, <2>f DEF SomeOwner, Unread, WorkerPlaces, MasterPlaces
  <2>6. OneOwner'
    BY <1>t, <1>v, <2>f DEF OneOwner, Unread, WorkerPlaces, MasterPlaces
  <2> QED BY <2>1, <2>2, <2>3, <2>4, <2>5, <2>6 DEF AltInv
<1>2. CASE AltStartFails
  <2>f. /\ altMaster.at = "off"
        /\ altMaster' = [at |-> "failed", sock |-> 0, slot |-> 0]
        /\ UNCHANGED <<altWorker, altSock, client_socks, altEvent, altSpawned, altStop, altOpen,
                       altAccepted>>
    BY <1>2, <1>t, <1>v DEF AltStartFails, workerVars, Off
  <2>1. AltTypeOK'
    BY <1>t, <1>v, <2>f DEF AltTypeOK, MasterAt, WorkerAt, Slot
  <2>2. MasterPlaces'
    BY <1>t, <1>v, <2>f DEF MasterPlaces
  <2>3. EventsMeanSockets'
    BY <1>t, <1>v, <2>f DEF EventsMeanSockets, MasterPlaces
  <2>4. WorkerPlaces'
    BY <1>t, <1>v, <2>f DEF WorkerPlaces, Unread, EventsMeanSockets, MasterPlaces
  <2>5. SomeOwner'
    BY <1>t, <1>v, <2>f DEF SomeOwner, Unread, WorkerPlaces, MasterPlaces
  <2>6. OneOwner'
    BY <1>t, <1>v, <2>f DEF OneOwner, Unread, WorkerPlaces, MasterPlaces
  <2> QED BY <2>1, <2>2, <2>3, <2>4, <2>5, <2>6 DEF AltInv
<1>3. CASE AltAccept
  <2>f. /\ altMaster.at = "loop"
        /\ altAccepted' = altAccepted + 1 /\ altOpen' = altOpen \cup {altAccepted + 1}
        /\ altMaster' = [at |-> "spawn", sock |-> altAccepted + 1, slot |-> 0]
        /\ UNCHANGED <<altWorker, altSock, client_socks, altEvent, altSpawned, altStop>>
    BY <1>3, <1>t, <1>v DEF AltAccept, workerVars
  <2>1. AltTypeOK'
    BY <1>t, <1>v, <2>f DEF AltTypeOK, MasterAt, WorkerAt, Slot
  <2>2. MasterPlaces'
    BY <1>t, <1>v, <2>f DEF MasterPlaces
  <2>3. EventsMeanSockets'
    BY <1>t, <1>v, <2>f DEF EventsMeanSockets, MasterPlaces
  <2>4. WorkerPlaces'
    BY <1>t, <1>v, <2>f DEF WorkerPlaces, Unread, EventsMeanSockets, MasterPlaces
  <2>5. SomeOwner'
    BY <1>t, <1>v, <2>f DEF SomeOwner, Unread, WorkerPlaces, MasterPlaces
  <2>6. OneOwner'
    BY <1>t, <1>v, <2>f DEF OneOwner, Unread, WorkerPlaces, MasterPlaces
  <2> QED BY <2>1, <2>2, <2>3, <2>4, <2>5, <2>6 DEF AltInv
<1>4. CASE AltReserve
  <2>f. /\ altMaster.at = "spawn"
        /\ \/ altMaster' = [at |-> "search", sock |-> altMaster.sock, slot |-> 0]
           \/ /\ altMaster' = [at |-> "create", sock |-> altMaster.sock, slot |-> 0]
              /\ altSpawned < AltMaxWorkers
        /\ UNCHANGED <<altWorker, altSock, client_socks, altEvent, altSpawned, altStop, altOpen,
                       altAccepted>>
    <3>1. altMaster = [at |-> "spawn", sock |-> altMaster.sock, slot |-> 0]
      BY <1>4, <1>t, <1>v DEF AltReserve, MasterPlaces
    <3>2. ~(altSpawned >= AltMaxWorkers) => altSpawned < AltMaxWorkers /\ altSpawned + 1 \in Slots
      BY <1>t DEF Slots
    <3> QED BY <1>4, <1>t, <1>v, <3>1, <3>2 DEF AltReserve, workerVars, MasterPlaces
  <2>1. AltTypeOK'
    BY <1>t, <1>v, <2>f DEF AltTypeOK, MasterAt, WorkerAt, Slot
  <2>2. MasterPlaces'
    BY <1>t, <1>v, <2>f DEF MasterPlaces
  <2>3. EventsMeanSockets'
    BY <1>t, <1>v, <2>f DEF EventsMeanSockets, MasterPlaces
  <2>4. WorkerPlaces'
    BY <1>t, <1>v, <2>f DEF WorkerPlaces, Unread, EventsMeanSockets, MasterPlaces
  <2>5. SomeOwner'
    BY <1>t, <1>v, <2>f DEF SomeOwner, Unread, WorkerPlaces, MasterPlaces
  <2>6. OneOwner'
    BY <1>t, <1>v, <2>f DEF OneOwner, Unread, WorkerPlaces, MasterPlaces
  <2> QED BY <2>1, <2>2, <2>3, <2>4, <2>5, <2>6 DEF AltInv
<1>5. CASE AltCreate
  <2>f. /\ altMaster.at = "create" /\ altSpawned + 1 \in Slots
        /\ altMaster' = [at |-> "search", sock |-> altMaster.sock, slot |-> 0]
        /\ altWorker' = [altWorker EXCEPT ![altSpawned + 1] = "start"] /\ altSpawned' = altSpawned + 1
        /\ UNCHANGED <<altSock, client_socks, altEvent, altStop, altOpen, altAccepted>>
    <3>1. altMaster = [at |-> "create", sock |-> altMaster.sock, slot |-> 0]
      BY <1>5, <1>t, <1>v DEF AltCreate, MasterPlaces
    <3>2. ~(altSpawned >= AltMaxWorkers) => altSpawned < AltMaxWorkers /\ altSpawned + 1 \in Slots
      BY <1>t DEF Slots
    <3> QED BY <1>5, <1>t, <1>v, <3>1, <3>2 DEF AltCreate, MasterPlaces
  <2>n. /\ altWorker[altSpawned + 1] = "none" /\ ~altEvent[altSpawned + 1]
        /\ client_socks[altSpawned + 1].in_use = 0 /\ altSock[altSpawned + 1] = 0
    <3>1. altSpawned < altSpawned + 1
      BY <1>t
    <3>2. altWorker[altSpawned + 1] = "none"
      BY <1>v, <2>f, <3>1 DEF WorkerPlaces
    <3> QED BY <1>t, <1>v, <2>f, <3>2 DEF WorkerPlaces, EventsMeanSockets
  <2>o. \A i \in Slots : i # altSpawned + 1 => altWorker'[i] = altWorker[i]
    BY <1>t, <2>f
  <2>1. AltTypeOK'
    BY <1>t, <1>v, <2>f DEF AltTypeOK, MasterAt, WorkerAt, Slot
  <2>2. MasterPlaces'
    BY <1>t, <1>v, <2>f DEF MasterPlaces
  <2>3. EventsMeanSockets'
    BY <1>t, <1>v, <2>f, <2>n, <2>o DEF EventsMeanSockets, MasterPlaces
  <2>4. WorkerPlaces'
    <3>1. altMaster'.slot = 0 /\ altMaster.slot = 0
      BY <1>v, <2>f DEF MasterPlaces
    <3>2. altWorker'[altSpawned + 1] = "start"
      BY <1>t, <2>f
    <3>3. \A i \in Slots : altSpawned + 1 < i <=> altSpawned < i /\ i # altSpawned + 1
      BY <1>t
    <3> QED BY <1>t, <1>v, <2>f, <2>n, <2>o, <3>1, <3>2, <3>3 DEF WorkerPlaces, Unread
  <2>5. SomeOwner'
    BY <1>t, <1>v, <2>f DEF SomeOwner, Unread, WorkerPlaces, MasterPlaces
  <2>6. OneOwner'
    BY <1>t, <1>v, <2>f DEF OneOwner, Unread, WorkerPlaces, MasterPlaces
  <2> QED BY <2>1, <2>2, <2>3, <2>4, <2>5, <2>6 DEF AltInv
<1>6. CASE AltCreateFails
  <2>f. /\ altMaster.at = "create"
        /\ altMaster' = [at |-> "search", sock |-> altMaster.sock, slot |-> 0]
        /\ UNCHANGED <<altWorker, altSock, client_socks, altEvent, altSpawned, altStop, altOpen,
                       altAccepted>>
    <3>1. altMaster = [at |-> "create", sock |-> altMaster.sock, slot |-> 0]
      BY <1>6, <1>t, <1>v DEF AltCreateFails, MasterPlaces
    <3>2. ~(altSpawned >= AltMaxWorkers) => altSpawned < AltMaxWorkers /\ altSpawned + 1 \in Slots
      BY <1>t DEF Slots
    <3> QED BY <1>6, <1>t, <1>v, <3>1, <3>2 DEF AltCreateFails, workerVars, MasterPlaces
  <2>1. AltTypeOK'
    BY <1>t, <1>v, <2>f DEF AltTypeOK, MasterAt, WorkerAt, Slot
  <2>2. MasterPlaces'
    BY <1>t, <1>v, <2>f DEF MasterPlaces
  <2>3. EventsMeanSockets'
    BY <1>t, <1>v, <2>f DEF EventsMeanSockets, MasterPlaces
  <2>4. WorkerPlaces'
    BY <1>t, <1>v, <2>f DEF WorkerPlaces, Unread, EventsMeanSockets, MasterPlaces
  <2>5. SomeOwner'
    BY <1>t, <1>v, <2>f DEF SomeOwner, Unread, WorkerPlaces, MasterPlaces
  <2>6. OneOwner'
    BY <1>t, <1>v, <2>f DEF OneOwner, Unread, WorkerPlaces, MasterPlaces
  <2> QED BY <2>1, <2>2, <2>3, <2>4, <2>5, <2>6 DEF AltInv
<1>7. ASSUME NEW i \in Slots, HandOver(i) PROVE AltInv'
  <2>f. /\ altMaster.at = "search" /\ client_socks[i].in_use = 2 /\ altWorker[i] = "wait"
        /\ client_socks' = [client_socks EXCEPT ![i] = [in_use |-> 1, sock |-> altMaster.sock]]
        /\ altMaster' = [at |-> "signal", sock |-> 0, slot |-> i]
        /\ UNCHANGED <<altWorker, altSock, altEvent, altSpawned, altStop, altOpen, altAccepted>>
    BY <1>7, <1>t, <1>v DEF HandOver, workerVars, EventsMeanSockets
  <2>1. AltTypeOK'
    BY <1>t, <1>v, <2>f DEF AltTypeOK, MasterAt, WorkerAt, Slot
  <2>2. MasterPlaces'
    BY <1>t, <1>v, <2>f DEF MasterPlaces
  <2>3. EventsMeanSockets'
    BY <1>t, <1>v, <2>f DEF EventsMeanSockets, MasterPlaces
  <2>4. WorkerPlaces'
    BY <1>t, <1>v, <2>f DEF WorkerPlaces, Unread, EventsMeanSockets, MasterPlaces
  <2>5. SomeOwner'
    BY <1>t, <1>v, <2>f DEF SomeOwner, Unread, WorkerPlaces, MasterPlaces
  <2>6. OneOwner'
    BY <1>t, <1>v, <2>f DEF OneOwner, Unread, WorkerPlaces, MasterPlaces
  <2> QED BY <2>1, <2>2, <2>3, <2>4, <2>5, <2>6 DEF AltInv
<1>8. CASE GiveUp
  <2>f. /\ altMaster.at = "search" /\ altOpen' = altOpen \ {altMaster.sock}
        /\ altMaster' = [at |-> "loop", sock |-> 0, slot |-> 0]
        /\ UNCHANGED <<altWorker, altSock, client_socks, altEvent, altSpawned, altStop,
                       altAccepted>>
    BY <1>8, <1>t, <1>v DEF GiveUp, workerVars, Off
  <2>1. AltTypeOK'
    BY <1>t, <1>v, <2>f DEF AltTypeOK, MasterAt, WorkerAt, Slot
  <2>2. MasterPlaces'
    BY <1>t, <1>v, <2>f DEF MasterPlaces, OneOwner, WorkerPlaces, Unread
  <2>3. EventsMeanSockets'
    BY <1>t, <1>v, <2>f DEF EventsMeanSockets, MasterPlaces
  <2>4. WorkerPlaces'
    BY <1>t, <1>v, <2>f DEF WorkerPlaces, Unread, EventsMeanSockets, MasterPlaces, OneOwner
  <2>5. SomeOwner'
    BY <1>t, <1>v, <2>f DEF SomeOwner, Unread, WorkerPlaces, MasterPlaces
  <2>6. OneOwner'
    BY <1>t, <1>v, <2>f DEF OneOwner, Unread, WorkerPlaces, MasterPlaces
  <2> QED BY <2>1, <2>2, <2>3, <2>4, <2>5, <2>6 DEF AltInv
<1>9. CASE event_signal
  <2>f. /\ altMaster.at = "signal" /\ altEvent' = [altEvent EXCEPT ![altMaster.slot] = TRUE]
        /\ altMaster' = [at |-> "loop", sock |-> 0, slot |-> 0]
        /\ UNCHANGED <<altWorker, altSock, client_socks, altSpawned, altStop, altOpen, altAccepted>>
    BY <1>9, <1>t, <1>v DEF event_signal, workerVars, Off
  <2>1. AltTypeOK'
    BY <1>t, <1>v, <2>f DEF AltTypeOK, MasterAt, WorkerAt, Slot
  <2>2. MasterPlaces'
    BY <1>t, <1>v, <2>f DEF MasterPlaces
  <2>3. EventsMeanSockets'
    BY <1>t, <1>v, <2>f DEF EventsMeanSockets, MasterPlaces
  <2>4. WorkerPlaces'
    BY <1>t, <1>v, <2>f DEF WorkerPlaces, Unread, EventsMeanSockets, MasterPlaces
  <2>5. SomeOwner'
    BY <1>t, <1>v, <2>f DEF SomeOwner, Unread, WorkerPlaces, MasterPlaces
  <2>6. OneOwner'
    BY <1>t, <1>v, <2>f DEF OneOwner, Unread, WorkerPlaces, MasterPlaces
  <2> QED BY <2>1, <2>2, <2>3, <2>4, <2>5, <2>6 DEF AltInv
<1>10. CASE WakeWorkers
  <2>f. /\ altMaster.at = "loop" /\ altStop # 0
        /\ altEvent' = [i \in Slots |-> altEvent[i] \/ i <= altSpawned]
        /\ altMaster' = [at |-> "join", sock |-> 0, slot |-> 0]
        /\ UNCHANGED <<altWorker, altSock, client_socks, altSpawned, altStop, altOpen, altAccepted>>
    BY <1>10, <1>t, <1>v DEF WakeWorkers, workerVars, Off
  <2>1. AltTypeOK'
    BY <1>t, <1>v, <2>f DEF AltTypeOK, MasterAt, WorkerAt, Slot
  <2>2. MasterPlaces'
    BY <1>t, <1>v, <2>f DEF MasterPlaces
  <2>3. EventsMeanSockets'
    BY <1>t, <1>v, <2>f DEF EventsMeanSockets, MasterPlaces
  <2>4. WorkerPlaces'
    BY <1>t, <1>v, <2>f DEF WorkerPlaces, Unread, EventsMeanSockets, MasterPlaces
  <2>5. SomeOwner'
    BY <1>t, <1>v, <2>f DEF SomeOwner, Unread, WorkerPlaces, MasterPlaces
  <2>6. OneOwner'
    BY <1>t, <1>v, <2>f DEF OneOwner, Unread, WorkerPlaces, MasterPlaces
  <2> QED BY <2>1, <2>2, <2>3, <2>4, <2>5, <2>6 DEF AltInv
<1>11. CASE AltJoined
  <2>f. /\ altMaster.at = "join" /\ altStop' = 2
        /\ \A i \in 1..altSpawned : altWorker[i] = "gone"
        /\ altMaster' = [at |-> "done", sock |-> 0, slot |-> 0]
        /\ UNCHANGED <<altWorker, altSock, client_socks, altEvent, altSpawned, altOpen,
                       altAccepted>>
    BY <1>11, <1>t, <1>v DEF AltJoined, workerVars, Off
  <2>1. AltTypeOK'
    BY <1>t, <1>v, <2>f DEF AltTypeOK, MasterAt, WorkerAt, Slot
  <2>2. MasterPlaces'
    BY <1>t, <1>v, <2>f DEF MasterPlaces, WorkerPlaces, Slots
  <2>3. EventsMeanSockets'
    BY <1>t, <1>v, <2>f DEF EventsMeanSockets, MasterPlaces
  <2>4. WorkerPlaces'
    BY <1>t, <1>v, <2>f DEF WorkerPlaces, Unread, EventsMeanSockets, MasterPlaces
  <2>5. SomeOwner'
    BY <1>t, <1>v, <2>f DEF SomeOwner, Unread, WorkerPlaces, MasterPlaces
  <2>6. OneOwner'
    BY <1>t, <1>v, <2>f DEF OneOwner, Unread, WorkerPlaces, MasterPlaces
  <2> QED BY <2>1, <2>2, <2>3, <2>4, <2>5, <2>6 DEF AltInv
<1>12. CASE AltStopCalled
  <2>f. /\ altStop = 0 /\ altStop' = 1 /\ altMaster' = altMaster
        /\ UNCHANGED <<altWorker, altSock, client_socks, altEvent, altSpawned, altOpen,
                       altAccepted>>
    BY <1>12, <1>t, <1>v DEF AltStopCalled, workerVars
  <2>1. AltTypeOK'
    BY <1>t, <1>v, <2>f DEF AltTypeOK, MasterAt, WorkerAt, Slot
  <2>2. MasterPlaces'
    BY <1>t, <1>v, <2>f DEF MasterPlaces
  <2>3. EventsMeanSockets'
    BY <1>t, <1>v, <2>f DEF EventsMeanSockets, MasterPlaces
  <2>4. WorkerPlaces'
    BY <1>t, <1>v, <2>f DEF WorkerPlaces, Unread, EventsMeanSockets, MasterPlaces
  <2>5. SomeOwner'
    BY <1>t, <1>v, <2>f DEF SomeOwner, Unread, WorkerPlaces, MasterPlaces
  <2>6. OneOwner'
    BY <1>t, <1>v, <2>f DEF OneOwner, Unread, WorkerPlaces, MasterPlaces
  <2> QED BY <2>1, <2>2, <2>3, <2>4, <2>5, <2>6 DEF AltInv
<1>13. CASE AltFree
  <2>f. /\ altMaster' = [at |-> "off", sock |-> 0, slot |-> 0]
        /\ altStop = 2 /\ altStop' = 0 /\ altSpawned' = 0 /\ altAccepted' = 0
        /\ altWorker' = [i \in Slots |-> "none"] /\ altSock' = [i \in Slots |-> 0]
        /\ client_socks' = [i \in Slots |-> [in_use |-> 0, sock |-> 0]]
        /\ altEvent' = [i \in Slots |-> FALSE]
        /\ altOpen = {} /\ altOpen' = {}
    BY <1>13, <1>t, <1>v, SMTT(60) DEF AltFree, Off, MasterPlaces, WorkerPlaces, SomeOwner, Unread
  <2>1. AltTypeOK'
    BY <1>t, <1>v, <2>f DEF AltTypeOK, MasterAt, WorkerAt, Slot
  <2>2. MasterPlaces'
    BY <1>t, <1>v, <2>f DEF MasterPlaces
  <2>3. EventsMeanSockets'
    BY <1>t, <1>v, <2>f DEF EventsMeanSockets, MasterPlaces
  <2>4. WorkerPlaces'
    BY <1>t, <1>v, <2>f DEF WorkerPlaces, Unread, EventsMeanSockets, MasterPlaces
  <2>5. SomeOwner'
    BY <1>t, <1>v, <2>f DEF SomeOwner, Unread, WorkerPlaces, MasterPlaces
  <2>6. OneOwner'
    BY <1>t, <1>v, <2>f DEF OneOwner, Unread, WorkerPlaces, MasterPlaces
  <2> QED BY <2>1, <2>2, <2>3, <2>4, <2>5, <2>6 DEF AltInv
<1>14. ASSUME NEW i \in Slots, GoIdle(i) PROVE AltInv'
  <2>f. /\ altWorker[i] \in {"start", "again"} /\ altWorker' = [altWorker EXCEPT ![i] = "wait"]
        /\ client_socks' = [client_socks EXCEPT ![i].in_use = 2] /\ altMaster' = altMaster
        /\ UNCHANGED <<altSock, altEvent, altSpawned, altStop, altOpen, altAccepted>>
    BY <1>14, <1>t, <1>v DEF GoIdle, AltWorkerStep
  <2>1. AltTypeOK'
    BY <1>t, <1>v, <2>f DEF AltTypeOK, MasterAt, WorkerAt, Slot
  <2>2. MasterPlaces'
    BY <1>t, <1>v, <2>f DEF MasterPlaces
  <2>3. EventsMeanSockets'
    BY <1>t, <1>v, <2>f DEF EventsMeanSockets, MasterPlaces
  <2>4. WorkerPlaces'
    BY <1>t, <1>v, <2>f DEF WorkerPlaces, Unread, EventsMeanSockets, MasterPlaces
  <2>5. SomeOwner'
    BY <1>t, <1>v, <2>f DEF SomeOwner, Unread, WorkerPlaces, MasterPlaces
  <2>6. OneOwner'
    BY <1>t, <1>v, <2>f DEF OneOwner, Unread, WorkerPlaces, MasterPlaces
  <2> QED BY <2>1, <2>2, <2>3, <2>4, <2>5, <2>6 DEF AltInv
<1>15. ASSUME NEW i \in Slots, AltWorkerFails(i) PROVE AltInv'
  <2>f. /\ altWorker[i] = "start" /\ altWorker' = [altWorker EXCEPT ![i] = "gone"]
        /\ altMaster' = altMaster
        /\ UNCHANGED <<altSock, client_socks, altEvent, altSpawned, altStop, altOpen, altAccepted>>
    BY <1>15, <1>t, <1>v DEF AltWorkerFails, AltWorkerStep
  <2>1. AltTypeOK'
    BY <1>t, <1>v, <2>f DEF AltTypeOK, MasterAt, WorkerAt, Slot
  <2>2. MasterPlaces'
    BY <1>t, <1>v, <2>f DEF MasterPlaces
  <2>3. EventsMeanSockets'
    BY <1>t, <1>v, <2>f DEF EventsMeanSockets, MasterPlaces
  <2>4. WorkerPlaces'
    BY <1>t, <1>v, <2>f DEF WorkerPlaces, Unread, EventsMeanSockets, MasterPlaces
  <2>5. SomeOwner'
    BY <1>t, <1>v, <2>f DEF SomeOwner, Unread, WorkerPlaces, MasterPlaces
  <2>6. OneOwner'
    BY <1>t, <1>v, <2>f DEF OneOwner, Unread, WorkerPlaces, MasterPlaces
  <2> QED BY <2>1, <2>2, <2>3, <2>4, <2>5, <2>6 DEF AltInv
<1>16. ASSUME NEW i \in Slots, event_wait(i) PROVE AltInv'
  <2>f. /\ altEvent[i] /\ altEvent' = [altEvent EXCEPT ![i] = FALSE]
        /\ altWorker[i] = "wait" /\ altWorker' = [altWorker EXCEPT ![i] = "woken"]
        /\ altMaster' = altMaster
        /\ UNCHANGED <<altSock, client_socks, altSpawned, altStop, altOpen, altAccepted>>
    BY <1>16, <1>t, <1>v DEF event_wait, AltWorkerStep
  <2>1. AltTypeOK'
    BY <1>t, <1>v, <2>f DEF AltTypeOK, MasterAt, WorkerAt, Slot
  <2>2. MasterPlaces'
    BY <1>t, <1>v, <2>f DEF MasterPlaces
  <2>3. EventsMeanSockets'
    BY <1>t, <1>v, <2>f DEF EventsMeanSockets, MasterPlaces
  <2>4. WorkerPlaces'
    BY <1>t, <1>v, <2>f DEF WorkerPlaces, Unread, EventsMeanSockets, MasterPlaces
  <2>5. SomeOwner'
    BY <1>t, <1>v, <2>f DEF SomeOwner, Unread, WorkerPlaces, MasterPlaces
  <2>6. OneOwner'
    BY <1>t, <1>v, <2>f DEF OneOwner, Unread, WorkerPlaces, MasterPlaces
  <2> QED BY <2>1, <2>2, <2>3, <2>4, <2>5, <2>6 DEF AltInv
<1>17. ASSUME NEW i \in Slots, TakeSocket(i) PROVE AltInv'
  <2>f. /\ altWorker[i] = "woken" /\ altMaster' = altMaster
        /\ \/ /\ altStop # 0 /\ altWorker' = [altWorker EXCEPT ![i] = "gone"] /\ altSock' = altSock
              /\ altOpen' = altOpen \ (IF client_socks[i].in_use = 1 THEN {client_socks[i].sock} ELSE {})
           \/ /\ altStop = 0 /\ client_socks[i].in_use = 1
              /\ altWorker' = [altWorker EXCEPT ![i] = "serve"]
              /\ altSock' = [altSock EXCEPT ![i] = client_socks[i].sock] /\ altOpen' = altOpen
        /\ UNCHANGED <<client_socks, altEvent, altSpawned, altStop, altAccepted>>
    BY <1>17, <1>t, <1>v DEF TakeSocket, AltWorkerStep, EventsMeanSockets, MasterPlaces
  <2>1. AltTypeOK'
    BY <1>t, <1>v, <2>f DEF AltTypeOK, MasterAt, WorkerAt, Slot
  <2>2. MasterPlaces'
    BY <1>t, <1>v, <2>f DEF MasterPlaces, OneOwner, WorkerPlaces, Unread
  <2>3. EventsMeanSockets'
    BY <1>t, <1>v, <2>f DEF EventsMeanSockets, MasterPlaces
  <2>4. WorkerPlaces'
    BY <1>t, <1>v, <2>f DEF WorkerPlaces, Unread, EventsMeanSockets, MasterPlaces, OneOwner
  <2>5. SomeOwner'
    <3> SUFFICES ASSUME NEW s \in altOpen'
                 PROVE  \/ altMaster.sock = s
                        \/ \E j \in Slots : Unread(j)' /\ client_socks[j].sock = s
                        \/ \E j \in Slots : altSock'[j] = s
      BY <2>f DEF SomeOwner
    <3>1. s \in altOpen /\ s # 0
      BY <1>t, <2>f
    <3>2. CASE altMaster.sock = s
      BY <3>2
    <3>3. ASSUME NEW j \in Slots, Unread(j), client_socks[j].sock = s
          PROVE  Unread(j)' \/ altSock'[j] = s
      BY <1>t, <2>f, <3>1, <3>3 DEF Unread
    <3>4. ASSUME NEW j \in Slots, altSock[j] = s PROVE altSock'[j] = s
      BY <1>t, <1>v, <2>f, <3>1, <3>4 DEF WorkerPlaces
    <3> QED BY <1>v, <3>1, <3>2, <3>3, <3>4 DEF SomeOwner
  <2>6. OneOwner'
    BY <1>t, <1>v, <2>f DEF OneOwner, Unread, WorkerPlaces, MasterPlaces
  <2> QED BY <2>1, <2>2, <2>3, <2>4, <2>5, <2>6 DEF AltInv
<1>18. ASSUME NEW i \in Slots, AltServe(i) PROVE AltInv'
  <2>f. /\ altWorker[i] = "serve" /\ altWorker' = [altWorker EXCEPT ![i] = "again"]
        /\ altOpen' = altOpen \ {altSock[i]} /\ altSock' = [altSock EXCEPT ![i] = 0] /\ altMaster' = altMaster
        /\ UNCHANGED <<client_socks, altEvent, altSpawned, altStop, altAccepted>>
    BY <1>18, <1>t, <1>v DEF AltServe, AltWorkerStep
  <2>1. AltTypeOK'
    BY <1>t, <1>v, <2>f DEF AltTypeOK, MasterAt, WorkerAt, Slot
  <2>2. MasterPlaces'
    BY <1>t, <1>v, <2>f DEF MasterPlaces, OneOwner, WorkerPlaces, Unread
  <2>3. EventsMeanSockets'
    BY <1>t, <1>v, <2>f DEF EventsMeanSockets, MasterPlaces
  <2>4. WorkerPlaces'
    BY <1>t, <1>v, <2>f DEF WorkerPlaces, Unread, EventsMeanSockets, MasterPlaces, OneOwner
  <2>5. SomeOwner'
    BY <1>t, <1>v, <2>f DEF SomeOwner, Unread, WorkerPlaces, MasterPlaces
  <2>6. OneOwner'
    BY <1>t, <1>v, <2>f DEF OneOwner, Unread, WorkerPlaces, MasterPlaces
  <2> QED BY <2>1, <2>2, <2>3, <2>4, <2>5, <2>6 DEF AltInv
<1>19. CASE UNCHANGED altVars
  BY <1>19 DEF altVars, AltInv, AltTypeOK, MasterPlaces, EventsMeanSockets, WorkerPlaces, SomeOwner,
             OneOwner, Unread
<1> QED BY <1>1, <1>2, <1>3, <1>4, <1>5, <1>6, <1>7, <1>8, <1>9, <1>10, <1>11, <1>12, <1>13,
           <1>14, <1>15, <1>16, <1>17, <1>18, <1>19 DEF AltNext

\* Before the server is started there is no connection.
LEMMA AltInitial == AltInit => AltInv
<1> SUFFICES ASSUME AltInit PROVE AltInv
  OBVIOUS
<1>1. \A i \in Slots : i \in Nat /\ 0 < i
  BY AltQueueAssumption DEF Slots
<1>2. AltTypeOK
  BY DEF AltInit, AltTypeOK, Off, MasterAt, WorkerAt, Slot
<1>3. MasterPlaces /\ SomeOwner
  BY DEF AltInit, MasterPlaces, SomeOwner, Off
<1>4. EventsMeanSockets
  BY <1>1 DEF AltInit, EventsMeanSockets, Off
<1>5. WorkerPlaces /\ OneOwner
  BY <1>1 DEF AltInit, WorkerPlaces, OneOwner, Unread, Off
<1> QED BY <1>2, <1>3, <1>4, <1>5 DEF AltInv

\* The number of the slots that satisfy a condition at most one of them can satisfy.
LEMMA AtMostOne ==
    ASSUME NEW S, \A i, j \in S : i = j
    PROVE  Cardinality(S) = IF S = {} THEN 0 ELSE 1
<1>1. CASE S = {}
  BY <1>1, FS_EmptySet
<1>2. CASE S # {}
  <2>1. PICK x \in S : TRUE
    BY <1>2
  <2>2. S = {x}
    BY <2>1
  <2> QED BY <1>2, <2>2, FS_Singleton
<1> QED BY <1>1, <1>2

\* A socket that has some owner and not two is counted once.
LEMMA OwnersCounted == AltInv => AltSocketOwnedOnce
<1> SUFFICES ASSUME AltInv PROVE AltSocketOwnedOnce
  OBVIOUS
<1>1. ASSUME NEW s \in altOpen PROVE OwnersOf(s) = 1
  <2> DEFINE A == {i \in Slots : Unread(i) /\ client_socks[i].sock = s}
             B == {i \in Slots : altSock[i] = s}
  <2>1. s # 0
    BY DEF AltInv, AltTypeOK
  <2>2. /\ \A i, j \in A : i = j
        /\ \A i, j \in B : i = j
        /\ A # {} => B = {} /\ altMaster.sock # s
        /\ B # {} => altMaster.sock # s
    BY <2>1 DEF AltInv, OneOwner
  <2>3. altMaster.sock = s \/ A # {} \/ B # {}
    BY DEF AltInv, SomeOwner
  <2> HIDE DEF A, B
  <2>4. /\ Cardinality(A) = IF A = {} THEN 0 ELSE 1
        /\ Cardinality(B) = IF B = {} THEN 0 ELSE 1
    BY <2>2, AtMostOne
  <2>5. (IF altMaster.sock = s THEN 1 ELSE 0) + Cardinality(A) + Cardinality(B) = 1
    BY <2>2, <2>3, <2>4
  <2> QED BY <2>5 DEF A, B, OwnersOf
<1>2. \A i \in Slots : Unread(i) => /\ client_socks[i].sock \in altOpen
                                    /\ altWorker[i] = "woken" \/ altEvent[i] \/ altMaster.slot = i
  BY DEF AltInv, WorkerPlaces
<1> QED BY <1>1, <1>2 DEF AltSocketOwnedOnce

\* Every connection of the alternative queue is with the master, in one slot or with one
\* worker, and a worker whose slot was filled has been or will be signalled, for any number
\* of workers and connections (produce_socket and consume_socket of ALTERNATIVE_QUEUE).
THEOREM AltOneOwner == AltSpec => []AltSocketOwnedOnce
  BY AltInitial, AltStepInv, OwnersCounted, PTL DEF AltSpec

\* When the context is freed no connection of the alternative queue is left open: whatever
\* the master or a slot still had when the server was stopped has been closed.
THEOREM AltNothingLeft == AltSpec => [](altStop = 2 => altOpen = {})
<1>1. AltInv => (altStop = 2 => altOpen = {})
  <2> SUFFICES ASSUME AltInv, altStop = 2 PROVE altOpen = {}
    OBVIOUS
  <2>1. /\ altMaster.sock = 0
        /\ \A i \in Slots : altSock[i] = 0 /\ ~Unread(i)
    BY DEF AltInv, MasterPlaces, WorkerPlaces, Unread
  <2>2. \A s \in altOpen : s # 0
    BY DEF AltInv, AltTypeOK
  <2> QED BY <2>1, <2>2 DEF AltInv, SomeOwner
<1> QED BY <1>1, AltInitial, AltStepInv, PTL DEF AltSpec

------------------------------------------------------------------------------
(* Connection, with any number of well framed messages, sizes of the     *)
(* buffer and of the reads, and portions that come from the socket.        *)

\* The types; what the request of the connection is, is apart.
WorkTypes ==
    /\ conn \in [request_len : Nat, content_len : Int, consumed : Nat, is_chunked : 0..4]
    /\ pc \in {"read", "handle", "mg_read", "crlf", "line", "trailer", "discard", "next", "closed"}
    /\ call \in [left : Nat, read : Nat, by : {"handler", "discard"}]
    /\ line \in [size : Nat, ext : BOOLEAN, left : Nat]
    /\ body \in Seq(1..Len(input))

ConnTypeOK ==
    /\ input \in Inputs /\ WellFramed(input)
    /\ received \in 0..Len(input)
    /\ buf \in Seq(1..Len(input)) /\ data_len <= buf_size
    /\ handled \in Nat
    /\ WorkTypes

\* How much of the message mg_read_inner has passed, header included; where the message starts
\* behind, in the input; the position of the last token that was read.
Passed == conn.request_len + conn.consumed
Larger(a, b) == IF a < b THEN b ELSE a
Base == received - Larger(data_len, Passed)
Here == Base + Passed
Current == handled + 1

\* The tokens of a sequence are the ones behind position p; tokens that come from a socket.
Behind(s, p) == \A k \in 1..Len(s) : s[k] = p + k
FromSocket(rec, n) == [k \in 1..n |-> rec + k]
Joined(s, t) == s \o t

\* Input i up to position h is that of messages up to m, and behind it comes message m + 1.
Ends(i, h, m) ==
    \A p \in DOMAIN i : /\ p <= h => i[p].msg <= m
                        /\ p > h => i[p].msg > m
                        /\ p = h + 1 => i[p].msg = m + 1

\* Position e is the end of a header of message m that announces len tokens.
HeaderAt(i, e, m, len) == i[e].kind = "end" /\ i[e].msg = m /\ i[e].len = len

\* Behind position h up to t there is data of message m, if the input goes so far.
AllData(i, h, t, m) ==
    \A p \in DOMAIN i : h < p /\ p <= t => i[p].kind = "data" /\ i[p].msg = m

\* Position h is in a line with a chunk size: the size itself, or extensions behind it.
OnSizeLine(i, h, size) ==
    \E s \in DOMAIN i : /\ s <= h /\ i[s].kind = "size" /\ i[s].len = size
                        /\ \A r \in DOMAIN i : s < r /\ r <= h => i[r].kind = "ext"

\* The data of message m up to position p; b is the data of message m from its beginning.
DataOf(i, m) == {p \in DOMAIN i : i[p].msg = m /\ i[p].kind = "data"}
UpTo(i, m, p) == {q \in DataOf(i, m) : q <= p}
IsBody(i, m, b) ==
    \A k \in 1..Len(b) : b[k] \in DataOf(i, m) /\ Cardinality(UpTo(i, m, b[k])) = k

\* The buffer holds the input from the start of the message, without a gap.
BufferPlaces ==
    /\ Base \in Nat /\ conn.request_len <= data_len
    /\ Behind(buf, Base)

\* From there on the input belongs to this message and the following ones.
MessageStarts == pc # "closed" => Ends(input, Base, handled)

\* What is known of a request while it is handled, by its transfer encoding.
InRequest == pc \notin {"read", "closed"}
BodyLength ==
    /\ pc = "read" => conn = NoRequest /\ body = <<>>
    /\ InRequest =>
        /\ conn.request_len > 0 /\ conn.consumed <= conn.content_len
        /\ conn.is_chunked = 0 =>
             HeaderAt(input, Base + conn.request_len, Current, conn.content_len)
        /\ conn.is_chunked \in {1, 3} => input[Here].msg = Current
        /\ conn.is_chunked = 1 =>
             AllData(input, Here, Base + conn.request_len + conn.content_len, Current)
        /\ conn.is_chunked = 4 => result # "error" /\ Ends(input, Here, Current)

\* Where mg_read is in a chunked body.
ChunkPlaces ==
    /\ pc \in {"crlf", "line"} => conn.is_chunked = 1 /\ conn.consumed = conn.content_len
    /\ pc = "trailer" => conn.is_chunked = 3
    /\ InRequest /\ conn.is_chunked \in {3, 4} => conn.consumed = conn.content_len
    /\ InRequest /\ conn.is_chunked = 3 => pc = "trailer"
    /\ pc = "line" => line.left = 0 /\ OnSizeLine(input, Here, line.size)

\* The body so far is the data of the message up to the last token read.
BodyPlaces ==
    pc # "closed" =>
        /\ IsBody(input, Current, body)
        /\ InRequest /\ conn.is_chunked # 2 => Len(body) = Cardinality(UpTo(input, Current, Here))

\* The invariant.
ConnInv ==
    ConnTypeOK /\ BufferPlaces /\ MessageStarts /\ BodyLength /\ ChunkPlaces /\ BodyPlaces

\* A state of the connection, by its parts.
ConnOf(rl, cl, cs, ch) ==
    [request_len |-> rl, content_len |-> cl, consumed |-> cs, is_chunked |-> ch]

\* The types and bounds that every step needs.
LEMMA ConnFacts ==
    ASSUME ConnInv
    PROVE  /\ input \in Seq(Token) /\ Len(input) \in Nat /\ DOMAIN input = 1..Len(input)
           /\ received \in Nat /\ received <= Len(input) /\ data_len \in Nat
           /\ conn.request_len \in Nat /\ conn.consumed \in Nat /\ conn.content_len \in Int
           /\ conn.is_chunked \in 0..4
           /\ conn = ConnOf(conn.request_len, conn.content_len, conn.consumed, conn.is_chunked)
           /\ Passed \in Nat /\ Base \in Nat /\ Here \in Nat /\ Here <= received
           /\ Base + data_len <= received /\ received = Base + Larger(data_len, Passed)
           /\ handled \in Nat /\ Current \in Nat
           /\ call.left \in Nat /\ call.read \in Nat
<1>1. input \in Seq(Token) /\ received \in 0..Len(input) /\ buf \in Seq(1..Len(input))
  BY ConnectionAssumption DEF ConnInv, ConnTypeOK
<1>2. Len(input) \in Nat /\ DOMAIN input = 1..Len(input) /\ data_len \in Nat
      /\ received \in Nat /\ received <= Len(input)
  BY <1>1 DEF data_len
<1>3. /\ conn.request_len \in Nat /\ conn.consumed \in Nat /\ conn.content_len \in Int
      /\ conn.is_chunked \in 0..4
      /\ conn = ConnOf(conn.request_len, conn.content_len, conn.consumed, conn.is_chunked)
  BY DEF ConnInv, ConnTypeOK, WorkTypes, ConnOf
<1>4. Base \in Nat
  BY DEF ConnInv, BufferPlaces
<1>5. Passed \in Nat
  BY <1>3 DEF Passed
<1>6. received = Base + Larger(data_len, Passed)
  BY <1>2, <1>5 DEF Base, Larger
<1>7. Here \in Nat /\ Here <= received /\ Base + data_len <= received
  BY <1>2, <1>4, <1>5, <1>6 DEF Here, Larger
<1>8. handled \in Nat /\ Current \in Nat /\ call.left \in Nat /\ call.read \in Nat
  BY DEF ConnInv, ConnTypeOK, WorkTypes, Current
<1> QED BY <1>1, <1>2, <1>3, <1>4, <1>5, <1>6, <1>7, <1>8

\* A part of a buffer that holds the positions from base on.
LEMMA BufferPart ==
    ASSUME NEW N \in Nat, NEW b \in Seq(1..N), NEW base \in Nat, NEW passed \in Nat,
           Behind(b, base), NEW last \in Nat, last <= Len(b)
    PROVE  /\ SubSeq(b, passed + 1, last) \in Seq(1..N)
           /\ Len(SubSeq(b, passed + 1, last)) = IF passed < last THEN last - passed ELSE 0
           /\ Behind(SubSeq(b, passed + 1, last), base + passed)
<1> DEFINE s == SubSeq(b, passed + 1, last)
<1>1. \A k \in (passed + 1)..last : k \in 1..Len(b)
  OBVIOUS
<1>2. \A k \in (passed + 1)..last : b[k] \in 1..N
  BY <1>1
<1>3. passed + 1 \in Int /\ last \in Int
  OBVIOUS
<1>4. /\ s \in Seq(1..N)
      /\ Len(s) = IF passed + 1 <= last THEN last - (passed + 1) + 1 ELSE 0
      /\ \A i \in 1 .. last - (passed + 1) + 1 : s[i] = b[passed + 1 + i - 1]
  BY <1>2, <1>3, SubSeqProperties, SMTT(60)
<1> HIDE DEF s
<1>5. Len(s) = IF passed < last THEN last - passed ELSE 0
  BY <1>4
<1>6. ASSUME NEW k \in 1..Len(s) PROVE s[k] = base + passed + k
  <2>1. k \in 1 .. last - (passed + 1) + 1 /\ passed + k \in 1..Len(b) /\ k \in Nat
    BY <1>5
  <2>2. s[k] = b[passed + 1 + k - 1] /\ passed + 1 + k - 1 = passed + k
    BY <1>4, <2>1
  <2>3. b[passed + k] = base + (passed + k)
    BY <2>1 DEF Behind
  <2> QED BY <2>1, <2>2, <2>3
<1> QED BY <1>4, <1>5, <1>6 DEF s, Behind

\* What mg_read_inner takes from the buffer, behind position here, and the socket, at position
\* rec, and what comes out of it.
Takes(N, old, here, rec, n, tokens) ==
    /\ N \in Nat /\ old \in Seq(1..N) /\ here \in Nat /\ rec \in Nat /\ rec <= N
    /\ Behind(old, here) /\ here + Len(old) <= rec
    /\ n \in Nat /\ n <= N - rec /\ (n > 0 => rec = here + Len(old))
    /\ tokens = Joined(old, FromSocket(rec, n))
Taken(N, old, here, rec, n, tokens) ==
    /\ tokens \in Seq(1..N) /\ Len(tokens) = Len(old) + n /\ Behind(tokens, here)
    /\ here + Len(tokens) <= N
    /\ rec + Cardinality({k \in 1..Len(tokens) : tokens[k] > rec}) = Larger(rec, here + Len(tokens))

\* The tokens of the buffer and what comes from the socket when they were the rest of the
\* buffer, follow each other in the input.
LEMMA ThenFromSocket ==
    ASSUME NEW N, NEW old, NEW here, NEW rec, NEW n, NEW tokens,
           Takes(N, old, here, rec, n, tokens)
    PROVE  Taken(N, old, here, rec, n, tokens)
<1>0. /\ N \in Nat /\ old \in Seq(1..N) /\ here \in Nat /\ rec \in Nat /\ rec <= N
      /\ Behind(old, here) /\ here + Len(old) <= rec
      /\ n \in Nat /\ n <= N - rec /\ (n > 0 => rec = here + Len(old))
      /\ tokens = Joined(old, FromSocket(rec, n))
  BY DEF Takes
<1> USE <1>0
<1> DEFINE new == FromSocket(rec, n)
<1>1. new \in Seq(1..N) /\ Len(new) = n /\ \A k \in 1..n : new[k] = rec + k
  <2>1. \A k \in 1..n : rec + k \in 1..N
    OBVIOUS
  <2> QED BY <2>1 DEF FromSocket
<1> HIDE DEF new
<1>2. /\ tokens \in Seq(1..N) /\ Len(tokens) = Len(old) + Len(new)
      /\ \A k \in 1..(Len(old) + Len(new)) :
            tokens[k] = IF k <= Len(old) THEN old[k] ELSE new[k - Len(old)]
  <2>1. tokens = old \o new
    BY DEF new, Joined
  <2>2. new \in Seq(1..N) /\ old \in Seq(1..N)
    BY <1>1
  <2>3. /\ old \o new \in Seq(1..N) /\ Len(old \o new) = Len(old) + Len(new)
        /\ \A k \in 1..(Len(old) + Len(new)) :
              (old \o new)[k] = IF k <= Len(old) THEN old[k] ELSE new[k - Len(old)]
    BY <2>2, ConcatProperties
  <2> QED BY <2>1, <2>3, Zenon
<1>3. PICK o \in Nat : o = Len(old)
  OBVIOUS
<1>4. PICK l \in Nat : l = Len(tokens) /\ l = o + n
  BY <1>1, <1>2, <1>3
<1>5. ASSUME NEW k \in 1..l PROVE tokens[k] = here + k
  <2>1. CASE k <= o
    BY <1>1, <1>2, <1>3, <1>4, <2>1 DEF Behind
  <2>2. CASE k > o
    <3>1. k - o \in 1..n /\ n > 0 /\ rec = here + o
      BY <1>3, <1>4, <2>2
    <3>2. tokens[k] = new[k - o]
      BY <1>1, <1>2, <1>3, <1>4, <2>2, SMTT(60)
    <3>3. new[k - o] = rec + (k - o)
      BY <1>1, <3>1
    <3> QED BY <3>1, <3>2, <3>3
  <2> QED BY <2>1, <2>2
<1>6. here + l <= N
  BY <1>3, <1>4
<1> DEFINE S == {k \in 1..l : tokens[k] > rec}
<1>7. S = (rec - here + 1)..l
  <2>1. PICK a \in Int : a = rec - here + 1 /\ a >= 1
    BY <1>3
  <2>2. ASSUME NEW k \in 1..l PROVE tokens[k] > rec <=> k >= a
    BY <1>5, <2>1
  <2> QED BY <2>1, <2>2
<1>8. Cardinality(S) = IF rec - here + 1 > l THEN 0 ELSE l - (rec - here + 1) + 1
  <2>1. rec - here + 1 \in Int /\ l \in Int
    OBVIOUS
  <2> QED BY <1>7, <2>1, FS_Interval
<1> HIDE DEF S
<1>9. rec + Cardinality(S) = Larger(rec, here + l)
  BY <1>8 DEF Larger
<1> QED BY <1>2, <1>1, <1>3, <1>4, <1>5, <1>6, <1>9 DEF S, Behind, Taken

\* The sums: how much the buffer gives, and where the socket is then.
Sums(base, passed, filled, w, o) ==
    /\ o <= w /\ base + passed + o <= base + Larger(filled, passed)
    /\ o < w => base + Larger(filled, passed) = base + passed + o
    /\ \A l \in Nat : Larger(base + Larger(filled, passed), base + passed + l)
                        = base + Larger(filled, passed + l)
LEMMA ReadSums ==
    ASSUME NEW base \in Nat, NEW passed \in Nat, NEW filled \in Nat, NEW w \in Nat, NEW o \in Nat,
           o = IF passed < Smaller(filled, passed + w) THEN Smaller(filled, passed + w) - passed
               ELSE 0
    PROVE  Sums(base, passed, filled, w, o)
  BY DEF Larger, Smaller, Sums

\* The tokens that mg_read_inner returns are the next ones of the input, whether they were in
\* the buffer, came from the socket, or both; and the socket is where they end.
LEMMA ReadTokens ==
    ASSUME ConnInv, NEW c, c.request_len = conn.request_len, c.consumed = conn.consumed,
           c.content_len \in Int, NEW len \in Nat,
           NEW tokens \in mg_read_inner(c, len), Receives(tokens)
    PROVE  /\ tokens \in Seq(1..Len(input)) /\ Len(tokens) \in Nat
           /\ Len(tokens) <= Wanted(c, len)
           /\ Behind(tokens, Here)
           /\ Here + Len(tokens) <= Len(input)
           /\ received' = Base + Larger(data_len, Passed + Len(tokens))
<1>0. /\ Len(input) \in Nat /\ received \in Nat /\ received <= Len(input) /\ data_len \in Nat
      /\ Passed \in Nat /\ Base \in Nat /\ Here = Base + Passed /\ Here \in Nat
      /\ received = Base + Larger(data_len, Passed)
      /\ c.consumed \in Nat /\ c.content_len \in Int
  BY ConnFacts DEF Here
<1>1. PICK w \in Nat : w = Wanted(c, len)
  BY <1>0 DEF Wanted, Smaller
<1>2. PICK last \in Nat : last = Smaller(data_len, Passed + w) /\ last <= data_len
  BY <1>0, SMTT(60) DEF Smaller
<1>3. PICK old : old = Buffered(c, len) /\ old = SubSeq(buf, Passed + 1, last)
  <2>1. c.request_len + c.consumed + 1 = Passed + 1
    BY DEF Passed
  <2>2. Passed + 1 + w - 1 = Passed + w
    BY <1>0
  <2> QED BY <1>1, <1>2, <2>1, <2>2 DEF Buffered
<1>4. /\ old \in Seq(1..Len(input))
      /\ Len(old) = IF Passed < last THEN last - Passed ELSE 0
      /\ Behind(old, Here)
  <2>1. /\ buf \in Seq(1..Len(input)) /\ data_len = Len(buf)
        /\ Behind(buf, Base)
    BY DEF ConnInv, ConnTypeOK, BufferPlaces, data_len
  <2>2. /\ SubSeq(buf, Passed + 1, last) \in Seq(1..Len(input))
        /\ Len(SubSeq(buf, Passed + 1, last)) = IF Passed < last THEN last - Passed ELSE 0
        /\ Behind(SubSeq(buf, Passed + 1, last), Base + Passed)
    <3>1. Len(input) \in Nat /\ Base \in Nat /\ Passed \in Nat /\ last \in Nat
      BY <1>0, <1>2
    <3>2. last <= Len(buf)
      BY <1>2, <2>1
    <3> HIDE DEF Passed, Base
    <3> QED BY <2>1, <3>1, <3>2, BufferPart
  <2> QED BY <1>0, <1>3, <2>2
<1>5. PICK o \in Nat : o = Len(old)
  BY <1>4
<1>6. /\ o <= w /\ Here + o <= received
      /\ o < w => received = Here + o
      /\ \A l \in Nat : Larger(received, Here + l) = Base + Larger(data_len, Passed + l)
  <2>1. o = IF Passed < last THEN last - Passed ELSE 0
    BY <1>4, <1>5
  <2>2. Passed \in Nat /\ Base \in Nat /\ data_len \in Nat
    BY <1>0
  <2>3. o = IF Passed < Smaller(data_len, Passed + w) THEN Smaller(data_len, Passed + w) - Passed
            ELSE 0
    BY <2>1, <1>2
  <2>4. Sums(Base, Passed, data_len, w, o)
    BY <2>2, <2>3, ReadSums
  <2> QED BY <1>0, <2>4 DEF Sums
<1>7. PICK new \in pull_all(w - o) : tokens = Joined(old, new)
  BY <1>1, <1>3, <1>5 DEF mg_read_inner, Joined
<1>8. PICK n \in Nat : /\ n <= w - o /\ n <= Len(input) - received
                       /\ new = FromSocket(received, n)
  <2>1. PICK n \in 0..(IF stop_flag THEN 0 ELSE Smaller(w - o, Len(input) - received)) :
           new = FromSocket(received, n)
    BY <1>7 DEF pull_all, FromSocket
  <2>2. n \in Nat /\ n <= w - o /\ n <= Len(input) - received
    BY <1>0, <1>6, <2>1 DEF Smaller
  <2> QED BY <2>1, <2>2
<1>9. n > 0 => received = Here + o
  BY <1>6, <1>8
<1>10. /\ tokens \in Seq(1..Len(input)) /\ Len(tokens) = Len(old) + n
       /\ Behind(tokens, Here)
       /\ Here + Len(tokens) <= Len(input)
       /\ received + Cardinality({k \in 1..Len(tokens) : tokens[k] > received})
            = Larger(received, Here + Len(tokens))
  <2>1. /\ Here + Len(old) <= received /\ (n > 0 => received = Here + Len(old))
        /\ tokens = Joined(old, FromSocket(received, n))
    BY <1>5, <1>6, <1>7, <1>8, <1>9
  <2>2. Len(input) \in Nat /\ received \in Nat /\ received <= Len(input) /\ Here \in Nat
    BY <1>0
  <2>3. old \in Seq(1..Len(input)) /\ Behind(old, Here)
    BY <1>4
  <2>4. n <= Len(input) - received
    BY <1>8
  <2>5. Takes(Len(input), old, Here, received, n, tokens)
    BY <2>1, <2>2, <2>3, <2>4 DEF Takes
  <2>6. Taken(Len(input), old, Here, received, n, tokens)
    BY <2>5, ThenFromSocket, Zenon
  <2> QED BY <2>6 DEF Taken
<1>11. Len(tokens) \in Nat /\ Len(tokens) <= w
  BY <1>5, <1>8, <1>10
<1>12. received' = Base + Larger(data_len, Passed + Len(tokens))
  BY <1>6, <1>10, <1>11 DEF Receives
<1> QED BY <1>1, <1>10, <1>11, <1>12

------------------------------------------------------------------------------
(* What a well framed input says of the places in it.                      *)

\* A token's parts.
LEMMA TokenParts ==
    ASSUME NEW i \in Seq(Token), NEW p \in DOMAIN i
    PROVE  i[p].msg \in Nat /\ i[p].len \in Nat /\ i[p].kind \in Kinds
<1>1. i[p] \in Token
  OBVIOUS
<1> QED BY <1>1 DEF Token

\* The first end of a header behind the end of message h belongs to message h + 1, and there
\* is no data of this message before it.
LEMMA HeaderFirst ==
    ASSUME NEW i \in Seq(Token), WellFramed(i), NEW b \in Nat, NEW n \in Nat, n > 0,
           b + n \in DOMAIN i, NEW h \in Nat, Ends(i, b, h),
           \A k \in 1..(n - 1) : i[b + k].kind \notin HeaderKinds
    PROVE  i[b + n].msg = h + 1 /\ UpTo(i, h + 1, b + n) = {}
<1>1. DOMAIN i = 1..Len(i) /\ Len(i) \in Nat
  OBVIOUS
<1>2. ASSUME NEW r \in DOMAIN i, i[r].msg = h + 1, i[r].kind \in HeaderKinds
      PROVE  r >= b + n
  <2>1. SUFFICES ASSUME r < b + n PROVE FALSE
    BY <1>1
  <2>2. r > b
    <3>1. r <= b => i[r].msg <= h
      BY DEF Ends
    <3> QED BY <1>1, <1>2, <3>1
  <2>3. r - b \in 1..(n - 1) /\ b + (r - b) = r
    BY <1>1, <2>1, <2>2
  <2> QED BY <1>2, <2>3
<1>3. i[b + n].msg \in Nat /\ i[b + n].msg > h
  <2>1. b + n > b
    OBVIOUS
  <2> QED BY <2>1, TokenParts DEF Ends
<1>4. i[b + n].msg = h + 1
  <2>1. SUFFICES ASSUME i[b + n].msg > h + 1 PROVE FALSE
    BY <1>3
  <2>2. b + 1 \in DOMAIN i
    BY <1>1
  <2>3. i[b + 1].msg = h + 1
    BY <2>2 DEF Ends
  <2>4. PICK r \in DOMAIN i : i[r].msg = h + 1 /\ i[r].kind \in HeaderKinds
    BY <2>1, <2>2, <2>3 DEF WellFramed
  <2>5. r >= b + n
    BY <1>2, <2>4
  <2>6. r > b + n => i[b + n].msg <= i[r].msg
    BY DEF WellFramed
  <2>7. r = b + n \/ r > b + n
    BY <1>1, <2>5
  <2> QED BY <1>3, <2>1, <2>4, <2>6, <2>7
<1>5. ASSUME NEW q \in UpTo(i, h + 1, b + n) PROVE FALSE
  <2>1. q \in DOMAIN i /\ i[q].msg = h + 1 /\ i[q].kind = "data" /\ q <= b + n
    BY <1>5 DEF UpTo, DataOf
  <2>2. PICK r \in DOMAIN i : r < q /\ i[r].msg = i[q].msg /\ i[r].kind \in {"end", "endc"}
    BY <2>1 DEF WellFramed
  <2>3. r >= b + n
    BY <1>2, <2>1, <2>2 DEF HeaderKinds
  <2> QED BY <1>1, <2>1, <2>2, <2>3
<1> QED BY <1>4, <1>5

\* A token that is not data adds nothing to the body.
LEMMA NotData ==
    ASSUME NEW i \in Seq(Token), NEW h \in Nat, NEW m, i[h + 1].kind # "data"
    PROVE  UpTo(i, m, h + 1) = UpTo(i, m, h)
<1>1. ASSUME NEW q \in DataOf(i, m) PROVE q <= h + 1 <=> q <= h
  <2>1. q \in Nat /\ i[q].kind = "data"
    BY DEF DataOf
  <2>2. q # h + 1
    BY <2>1
  <2> QED BY <2>1, <2>2
<1> QED BY <1>1 DEF UpTo

\* Behind the header of a message with a content length comes its data, and then the next one.
LEMMA BodyEnds ==
    ASSUME NEW i \in Seq(Token), WellFramed(i), NEW e \in DOMAIN i, NEW m \in Nat,
           NEW l \in Nat, HeaderAt(i, e, m, l)
    PROVE  AllData(i, e, e + l, m) /\ Ends(i, e + l, m)
<1>1. DOMAIN i = 1..Len(i) /\ Len(i) \in Nat
  OBVIOUS
<1>2. i[e].kind = "end" /\ i[e].msg = m /\ i[e].len = l
  BY DEF HeaderAt
<1>3. /\ \A q \in DOMAIN i : e < q /\ q <= e + l => i[q].kind = "data" /\ i[q].msg = m
      /\ \A q \in DOMAIN i : q = e + l + 1 => i[q].msg = m + 1
  BY <1>2, SMTT(60) DEF WellFramed
<1>4. \A p, q \in DOMAIN i : p < q => i[p].msg <= i[q].msg
  BY DEF WellFramed
<1>5. ASSUME NEW p \in DOMAIN i
      PROVE  /\ p <= e + l => i[p].msg <= m
             /\ p > e + l => i[p].msg > m
             /\ p = e + l + 1 => i[p].msg = m + 1
  <2>1. p < e \/ p = e \/ (e < p /\ p <= e + l) \/ p = e + l + 1 \/ p > e + l + 1
    BY <1>1
  <2>2. i[p].msg \in Nat
    BY TokenParts
  <2>3. CASE p < e
    BY <1>1, <1>2, <1>4, <2>2, <2>3
  <2>4. CASE p = e
    BY <1>1, <1>2, <2>4
  <2>5. CASE e < p /\ p <= e + l
    BY <1>1, <1>3, <2>5
  <2>6. CASE p = e + l + 1
    BY <1>1, <1>3, <2>6
  <2>7. CASE p > e + l + 1
    <3>1. e + l + 1 \in DOMAIN i
      BY <1>1, <2>7
    <3>2. i[e + l + 1].msg = m + 1
      BY <1>3, <3>1
    <3>3. i[e + l + 1].msg <= i[p].msg
      BY <1>4, <2>7, <3>1
    <3> QED BY <1>1, <2>2, <2>7, <3>2, <3>3
  <2> QED BY <2>1, <2>3, <2>4, <2>5, <2>6, <2>7
<1> QED BY <1>3, <1>5 DEF AllData, Ends

\* Framing belongs to the message before it.
LEMMA FramingStays ==
    ASSUME NEW i \in Seq(Token), WellFramed(i), NEW h \in DOMAIN i, h + 1 \in DOMAIN i,
           i[h + 1].kind \in FramingKinds
    PROVE  i[h + 1].msg = i[h].msg
  BY DEF WellFramed

\* A message ends at its final CRLF.
LEMMA FinalEnds ==
    ASSUME NEW i \in Seq(Token), WellFramed(i), NEW h \in DOMAIN i, i[h].kind = "final",
           NEW m \in Nat, i[h].msg = m
    PROVE  Ends(i, h, m)
<1>1. DOMAIN i = 1..Len(i) /\ Len(i) \in Nat
  OBVIOUS
<1>2. h + 1 \in DOMAIN i => i[h + 1].msg = m + 1
  BY DEF WellFramed
<1>4. \A p, q \in DOMAIN i : p < q => i[p].msg <= i[q].msg
  BY DEF WellFramed
<1>5. ASSUME NEW p \in DOMAIN i
      PROVE  /\ p <= h => i[p].msg <= m
             /\ p > h => i[p].msg > m
             /\ p = h + 1 => i[p].msg = m + 1
  <2>2. i[p].msg \in Nat
    BY TokenParts
  <2>3. CASE p < h
    BY <1>1, <1>4, <2>2, <2>3
  <2>4. CASE p = h
    BY <1>1, <2>4
  <2>6. CASE p = h + 1
    BY <1>1, <1>2, <2>6
  <2>7. CASE p > h + 1
    <3>1. h + 1 \in DOMAIN i
      BY <1>1, <2>7
    <3>2. i[h + 1].msg = m + 1
      BY <1>2, <3>1
    <3>3. i[h + 1].msg <= i[p].msg
      BY <1>4, <2>7, <3>1
    <3> QED BY <1>1, <2>2, <2>7, <3>2, <3>3
  <2> QED BY <1>1, <2>3, <2>4, <2>6, <2>7
<1> QED BY <1>5 DEF Ends

\* Behind the line with a chunk size comes as much data.
LEMMA LineData ==
    ASSUME NEW i \in Seq(Token), WellFramed(i), NEW h \in Nat, h + 1 \in DOMAIN i,
           NEW size \in Nat, OnSizeLine(i, h, size), i[h + 1].kind = "eol",
           NEW m, i[h + 1].msg = m
    PROVE  AllData(i, h + 1, h + 1 + size, m)
<1>1. DOMAIN i = 1..Len(i) /\ Len(i) \in Nat
  OBVIOUS
<1>2. PICK s \in DOMAIN i : /\ s <= h /\ i[s].kind = "size" /\ i[s].len = size
                            /\ \A r \in DOMAIN i : s < r /\ r <= h => i[r].kind = "ext"
  BY DEF OnSizeLine
<1>3. PICK e \in DOMAIN i : e = h + 1
  OBVIOUS
<1>4. /\ s < e /\ i[s].kind = "size" /\ i[e].kind = "eol"
      /\ \A r \in DOMAIN i : s < r /\ r < e => i[r].kind = "ext"
  BY <1>1, <1>2, <1>3
<1>5. \A q \in DOMAIN i : e < q /\ q <= e + i[s].len => i[q].kind = "data" /\ i[q].msg = i[e].msg
  BY <1>4 DEF WellFramed
<1> QED BY <1>2, <1>3, <1>5 DEF AllData

\* A line with a chunk size begins with the size, and an extension continues it.
LEMMA SizeLine ==
    ASSUME NEW i \in Seq(Token), NEW h \in Nat, h + 1 \in DOMAIN i
    PROVE  /\ i[h + 1].kind = "size" => OnSizeLine(i, h + 1, i[h + 1].len)
           /\ \A size : OnSizeLine(i, h, size) /\ i[h + 1].kind = "ext"
                          => OnSizeLine(i, h + 1, size)
<1>1. DOMAIN i = 1..Len(i) /\ Len(i) \in Nat
  OBVIOUS
<1>2. ASSUME i[h + 1].kind = "size" PROVE OnSizeLine(i, h + 1, i[h + 1].len)
  <2>1. h + 1 \in Nat
    OBVIOUS
  <2> QED BY <1>1, <1>2, <2>1 DEF OnSizeLine
<1>3. ASSUME NEW size, OnSizeLine(i, h, size), i[h + 1].kind = "ext"
      PROVE  OnSizeLine(i, h + 1, size)
  <2>1. PICK s \in DOMAIN i : /\ s <= h /\ i[s].kind = "size" /\ i[s].len = size
                              /\ \A r \in DOMAIN i : s < r /\ r <= h => i[r].kind = "ext"
    BY <1>3 DEF OnSizeLine
  <2>2. s <= h + 1
    BY <1>1, <2>1
  <2>3. ASSUME NEW r \in DOMAIN i, s < r, r <= h + 1 PROVE i[r].kind = "ext"
    <3>1. r <= h \/ r = h + 1
      BY <1>1, <2>3
    <3> QED BY <1>3, <2>1, <2>3, <3>1
  <2> QED BY <2>1, <2>2, <2>3 DEF OnSizeLine
<1> QED BY <1>2, <1>3

\* The next j tokens are data: the data up to there is j more.
LEMMA MoreData ==
    ASSUME NEW i \in Seq(Token), NEW h \in Nat, NEW j \in Nat, NEW m,
           h + j <= Len(i), AllData(i, h, h + j, m)
    PROVE  Cardinality(UpTo(i, m, h + j)) = Cardinality(UpTo(i, m, h)) + j
<1> DEFINE S == UpTo(i, m, h)
           T == (h + 1)..(h + j)
<1>1. DOMAIN i = 1..Len(i) /\ Len(i) \in Nat
  OBVIOUS
<1>2. IsFiniteSet(S)
  <2>1. S \in SUBSET (1..Len(i))
    BY <1>1 DEF UpTo, DataOf
  <2>2. IsFiniteSet(1..Len(i))
    BY <1>1, FS_Interval
  <2> QED BY <2>1, <2>2, FS_Subset
<1>3. IsFiniteSet(T) /\ Cardinality(T) = j
  <2>1. h + 1 \in Int /\ h + j \in Int
    OBVIOUS
  <2>2. IsFiniteSet(T) /\ Cardinality(T) = IF h + 1 > h + j THEN 0 ELSE h + j - (h + 1) + 1
    BY <2>1, FS_Interval
  <2> QED BY <2>2
<1>4. S \cap T = {}
  BY <1>1 DEF UpTo, DataOf
<1>5. UpTo(i, m, h + j) = S \cup T
  <2>1. ASSUME NEW q \in T PROVE q \in DataOf(i, m) /\ q <= h + j
    <3>1. q \in DOMAIN i /\ h < q /\ q <= h + j
      BY <1>1
    <3> QED BY <3>1 DEF DataOf, AllData
  <2>2. ASSUME NEW q \in DataOf(i, m) PROVE q <= h + j <=> q <= h \/ q \in T
    <3>1. q \in 1..Len(i)
      BY <1>1 DEF DataOf
    <3> QED BY <1>1, <3>1
  <2> QED BY <2>1, <2>2 DEF UpTo
<1>6. Cardinality(S) \in Nat
  BY <1>2, FS_CardinalityType
<1>7. Cardinality(S \cup T) = Cardinality(S) + Cardinality(T) - Cardinality({})
  <2> HIDE DEF S, T
  <2>1. IsFiniteSet(S) /\ IsFiniteSet(T)
    BY <1>2, <1>3
  <2>2. Cardinality(S \cup T) = Cardinality(S) + Cardinality(T) - Cardinality(S \cap T)
    BY <2>1, FS_Union, Zenon
  <2> QED BY <1>4, <2>2, Zenon
<1>8. Cardinality({}) = 0
  BY FS_EmptySet
<1>9. Cardinality(S \cup T) = Cardinality(S) + j
  <2> HIDE DEF S, T
  <2> QED BY <1>3, <1>6, <1>7, <1>8
<1> QED BY <1>5, <1>9, Zenon

\* What mg_read appends to a body that is the data up to position h is the data behind it.
LEMMA AppendData ==
    ASSUME NEW i \in Seq(Token), NEW h \in Nat, NEW t \in Seq(1..Len(i)), Behind(t, h), NEW m,
           h + Len(t) <= Len(i), AllData(i, h, h + Len(t), m),
           NEW b \in Seq(1..Len(i)), IsBody(i, m, b), Len(b) = Cardinality(UpTo(i, m, h))
    PROVE  /\ Joined(b, t) \in Seq(1..Len(i)) /\ IsBody(i, m, Joined(b, t))
           /\ Len(Joined(b, t)) = Cardinality(UpTo(i, m, h + Len(t)))
<1>1. /\ b \o t \in Seq(1..Len(i)) /\ Len(b \o t) = Len(b) + Len(t)
      /\ \A k \in 1..(Len(b) + Len(t)) :
            (b \o t)[k] = IF k <= Len(b) THEN b[k] ELSE t[k - Len(b)]
  BY ConcatProperties
<1>2. PICK c : c = Joined(b, t)
  OBVIOUS
<1>3. /\ c \in Seq(1..Len(i)) /\ Len(c) = Len(b) + Len(t)
      /\ \A k \in 1..(Len(b) + Len(t)) : c[k] = IF k <= Len(b) THEN b[k] ELSE t[k - Len(b)]
  BY <1>1, <1>2, Zenon DEF Joined
<1>4. Len(b) \in Nat /\ Len(t) \in Nat /\ Len(i) \in Nat /\ DOMAIN i = 1..Len(i)
  OBVIOUS
<1>5. Len(c) = Cardinality(UpTo(i, m, h + Len(t)))
  BY <1>3, <1>4, MoreData
<1>6. ASSUME NEW k \in 1..Len(c)
      PROVE  c[k] \in DataOf(i, m) /\ Cardinality(UpTo(i, m, c[k])) = k
  <2>0. PICK lb \in Nat, lt \in Nat : lb = Len(b) /\ lt = Len(t) /\ k \in 1..(lb + lt)
    <3>1. Len(c) = Len(b) + Len(t)
      BY <1>3
    <3> QED BY <1>4, <3>1
  <2>1. CASE k <= Len(b)
    <3>1. k \in 1..Len(b) /\ c[k] = b[k]
      <4>1. k \in 1..lb
        BY <2>0, <2>1
      <4>2. k \in 1..(Len(b) + Len(t))
        BY <2>0
      <4> QED BY <1>3, <2>0, <2>1, <4>1, <4>2
    <3>2. b[k] \in DataOf(i, m) /\ Cardinality(UpTo(i, m, b[k])) = k
      BY <3>1, Zenon DEF IsBody
    <3> QED BY <3>1, <3>2, Zenon
  <2>2. CASE k > Len(b)
    <3>1. PICK j \in 1..Len(t) : j = k - Len(b)
      <4>1. k - lb \in 1..lt
        BY <2>0, <2>2, SMTT(60)
      <4> QED BY <2>0, <4>1
    <3>2. c[k] = t[j]
      <4>1. k \in 1..(Len(b) + Len(t)) /\ ~(k <= Len(b))
        BY <1>4, <2>0, <2>2
      <4>2. c[k] = t[k - Len(b)]
        BY <1>3, <4>1
      <4> QED BY <3>1, <4>2
    <3>3. t[j] = h + j
      BY <3>1, Zenon DEF Behind
    <3>4. j \in Nat /\ h + j <= Len(i) /\ h + j \in DOMAIN i /\ h < h + j /\ h + j <= h + Len(t)
      BY <1>4
    <3>5. AllData(i, h, h + j, m) /\ h + j \in DataOf(i, m)
      <4>1. ASSUME NEW p \in DOMAIN i, h < p, p <= h + j
            PROVE  i[p].kind = "data" /\ i[p].msg = m
        <5>1. p <= h + Len(t)
          BY <1>4, <3>4, <4>1
        <5> QED BY <4>1, <5>1 DEF AllData
      <4>2. h + j <= h + j
        BY <3>4
      <4>3. i[h + j].kind = "data" /\ i[h + j].msg = m
        BY <3>4, <4>1, <4>2
      <4> QED BY <3>4, <4>1, <4>3 DEF AllData, DataOf
    <3>6. Cardinality(UpTo(i, m, h + j)) = Len(b) + j
      BY <3>4, <3>5, MoreData
    <3> QED BY <1>4, <3>1, <3>2, <3>3, <3>5, <3>6
  <2> QED BY <1>3, <1>4, <2>1, <2>2
<1>7. IsBody(i, m, c)
  BY <1>6 DEF IsBody
<1> QED BY <1>2, <1>3, <1>5, <1>7

------------------------------------------------------------------------------
(* Steps.                                                                  *)

\* A step that reads n tokens and leaves the message where it is.
Moved(n) ==
    /\ n \in Nat /\ Here + n <= Len(input)
    /\ UNCHANGED <<input, buf, handled>>
    /\ conn'.request_len = conn.request_len /\ conn'.consumed = conn.consumed + n
    /\ received' = Base + Larger(data_len, Passed + n)

\* Such a step leaves the start of the message in its place and moves on by n; what is left to
\* show is how the state of the request changes.
LEMMA MovesOn ==
    ASSUME ConnInv, pc # "closed", NEW n, Moved(n)
    PROVE  /\ Base' = Base /\ Here' = Here + n /\ Current' = Current
           /\ WorkTypes' /\ BodyLength' /\ ChunkPlaces' /\ BodyPlaces' => ConnInv'
<1>1. /\ Len(input) \in Nat /\ data_len \in Nat /\ Passed \in Nat /\ Base \in Nat
      /\ Base + data_len <= received /\ received \in Nat /\ received <= Len(input)
      /\ Here = Base + Passed
  BY ConnFacts DEF Here
<1>2. n \in Nat /\ Here + n <= Len(input)
      /\ input' = input /\ buf' = buf /\ handled' = handled
      /\ received' = Base + Larger(data_len, Passed + n)
  BY DEF Moved
<1>3. Passed' = Passed + n
  <2>1. conn'.request_len = conn.request_len /\ conn'.consumed = conn.consumed + n
    BY DEF Moved
  <2>2. conn.request_len \in Nat /\ conn.consumed \in Nat
    BY ConnFacts
  <2> QED BY <1>2, <2>1, <2>2 DEF Passed
<1>4. data_len' = data_len
  BY <1>2 DEF data_len
<1>5. Base' = Base
  BY <1>1, <1>2, <1>3, <1>4 DEF Base, Larger
<1>6. Here' = Here + n
  <2>1. Here' = Base' + Passed'
    BY DEF Here
  <2> QED BY <1>1, <1>2, <1>3, <1>5, <2>1
<1>7. Current' = Current
  BY <1>2 DEF Current
<1>8. received' \in 0..Len(input')
  BY <1>1, <1>2 DEF Larger
<1>9. BufferPlaces'
  <2>1. BufferPlaces /\ conn'.request_len = conn.request_len
    BY DEF ConnInv, Moved
  <2>2. Behind(buf', Base')
    BY <1>2, <1>5, <2>1 DEF BufferPlaces
  <2> QED BY <1>1, <1>4, <1>5, <2>1, <2>2 DEF BufferPlaces
<1>10. MessageStarts'
  <2>1. Ends(input, Base, handled)
    BY DEF ConnInv, MessageStarts
  <2>2. Ends(input', Base', handled')
    BY <1>2, <1>5, <2>1
  <2> QED BY <2>2 DEF MessageStarts
<1>11. ASSUME WorkTypes' PROVE ConnTypeOK'
  <2>1. ConnTypeOK
    BY DEF ConnInv
  <2>2. WellFramed(input') /\ data_len' <= buf_size
    BY <1>2, <1>4, <2>1 DEF ConnTypeOK
  <2> QED BY <1>2, <1>8, <1>11, <2>1, <2>2 DEF ConnTypeOK
<1> QED BY <1>5, <1>6, <1>7, <1>9, <1>10, <1>11 DEF ConnInv

\* The parts of a request's state.
LEMMA ConnParts ==
    ASSUME NEW rl, NEW cl, NEW cs, NEW ch
    PROVE  /\ ConnOf(rl, cl, cs, ch).request_len = rl /\ ConnOf(rl, cl, cs, ch).content_len = cl
           /\ ConnOf(rl, cl, cs, ch).consumed = cs /\ ConnOf(rl, cl, cs, ch).is_chunked = ch
           /\ \A x : /\ [ConnOf(rl, cl, cs, ch) EXCEPT !.content_len = x] = ConnOf(rl, x, cs, ch)
                     /\ [ConnOf(rl, cl, cs, ch) EXCEPT !.consumed = x] = ConnOf(rl, cl, x, ch)
                     /\ [ConnOf(rl, cl, cs, ch) EXCEPT !.is_chunked = x] = ConnOf(rl, cl, cs, x)
           /\ rl \in Nat /\ cl \in Int /\ cs \in Nat /\ ch \in 0..4 =>
                ConnOf(rl, cl, cs, ch)
                  \in [request_len : Nat, content_len : Int, consumed : Nat, is_chunked : 0..4]
  BY DEF ConnOf

\* mg_read returns to the handler, or to the discarding of the body.
LEMMA Returns ==
    ASSUME NEW r, Return(r)
    PROVE  pc' \in {"handle", "discard", "next"} /\ result' = r
  BY DEF Return

\* The state of a request with framing counted as content.
LEMMA FramedIs ==
    ASSUME ConnInv, NEW tokens
    PROVE  /\ Framing = ConnOf(conn.request_len, conn.content_len + 1, conn.consumed,
                               conn.is_chunked)
           /\ Framed(tokens) = ConnOf(conn.request_len, conn.content_len + 1,
                                      conn.consumed + Len(tokens), conn.is_chunked)
<1>1. conn \in [request_len : Nat, content_len : Int, consumed : Nat, is_chunked : 0..4]
  BY DEF ConnInv, ConnTypeOK, WorkTypes
<1>2. Framing = ConnOf(conn.request_len, conn.content_len + 1, conn.consumed, conn.is_chunked)
  BY <1>1 DEF Framing, ConnOf
<1>3. Framed(tokens) = [Framing EXCEPT !.consumed = Framing.consumed + Len(tokens)]
  BY DEF Framed
<1> HIDE DEF Framing
<1> QED BY <1>2, <1>3 DEF ConnOf

\* Reading one token of framing: nothing comes, or the next token, and if it is framing
\* indeed it belongs to this message and is no data.
LEMMA FramingRead ==
    ASSUME ConnInv, InRequest, conn.is_chunked \in {1, 3}, conn.consumed = conn.content_len,
           NEW tokens \in mg_read_inner(Framing, 1), Receives(tokens),
           UNCHANGED <<input, buf, handled>>,
           conn'.request_len = conn.request_len, conn'.consumed = conn.consumed + Len(tokens)
    PROVE  /\ Moved(Len(tokens)) /\ Len(tokens) \in Nat /\ Len(tokens) <= 1
           /\ Kind(tokens) \in FramingKinds =>
                /\ Len(tokens) = 1 /\ tokens[1] = Here + 1 /\ Here + 1 \in DOMAIN input
                /\ input[Here + 1].kind = Kind(tokens) /\ input[Here + 1].msg = Current
                /\ UpTo(input, Current, Here + 1) = UpTo(input, Current, Here)
<1>0. /\ input \in Seq(Token) /\ Len(input) \in Nat /\ DOMAIN input = 1..Len(input) /\ Here \in Nat
      /\ conn.content_len \in Int /\ conn.consumed \in Nat /\ Passed \in Nat /\ data_len \in Nat
      /\ Base \in Nat /\ Here <= received /\ received <= Len(input) /\ received \in Nat
  BY ConnFacts
<1>1. /\ Framing.request_len = conn.request_len /\ Framing.consumed = conn.consumed
      /\ Framing.content_len = conn.content_len + 1 /\ Framing.content_len \in Int
  <2>1. Framing = ConnOf(conn.request_len, conn.content_len + 1, conn.consumed, conn.is_chunked)
    BY FramedIs
  <2> QED BY <1>0, <2>1, ConnParts
<1>2. /\ tokens \in Seq(1..Len(input)) /\ Len(tokens) \in Nat
      /\ Len(tokens) <= Wanted(Framing, 1) /\ Behind(tokens, Here)
      /\ Here + Len(tokens) <= Len(input)
      /\ received' = Base + Larger(data_len, Passed + Len(tokens))
  BY <1>1, ReadTokens
<1>3. Len(tokens) <= 1
  BY <1>0, <1>1, <1>2, SMTT(60) DEF Wanted, Smaller
<1>4. Moved(Len(tokens))
  BY <1>2 DEF Moved
<1>5. ASSUME Kind(tokens) \in FramingKinds
      PROVE  /\ Len(tokens) = 1 /\ tokens[1] = Here + 1 /\ Here + 1 \in DOMAIN input
             /\ input[Here + 1].kind = Kind(tokens) /\ input[Here + 1].msg = Current
             /\ UpTo(input, Current, Here + 1) = UpTo(input, Current, Here)
  <2>1. tokens # <<>> /\ Kind(tokens) = input[tokens[1]].kind
    BY <1>5 DEF Kind, FramingKinds
  <2>2. Len(tokens) = 1
    <3>1. Len(tokens) # 0
      BY <1>2, <2>1
    <3>2. PICK l \in Nat : l = Len(tokens)
      BY <1>2
    <3>3. l <= 1 /\ l # 0
      BY <1>3, <3>1, <3>2
    <3>4. l = 1
      BY <3>3
    <3> QED BY <3>2, <3>4
  <2>3. tokens[1] = Here + 1
    <3>1. 1 \in 1..Len(tokens)
      BY <2>2
    <3>2. Behind(tokens, Here)
      BY <1>2
    <3> QED BY <3>1, <3>2, Zenon DEF Behind
  <2>4. Here + 1 \in DOMAIN input /\ input[Here + 1].kind = Kind(tokens)
    BY <1>0, <1>2, <2>1, <2>2, <2>3
  <2>5. input[Here].msg = Current /\ Here \in DOMAIN input
    <3>1. conn.request_len > 0 /\ input[Here].msg = Current
      BY DEF ConnInv, BodyLength
    <3>2. Here > 0
      BY <1>0, <3>1, ConnFacts, SMTT(60) DEF Here, Passed
    <3> QED BY <1>0, <3>1, <3>2
  <2>6. WellFramed(input)
    BY DEF ConnInv, ConnTypeOK
  <2>7. input[Here + 1].msg = Current
    <3>1. input[Here + 1].kind \in FramingKinds
      BY <1>5, <2>4
    <3> HIDE DEF Here, Current
    <3> QED BY <1>0, <2>4, <2>5, <2>6, <3>1, FramingStays
  <2>8. UpTo(input, Current, Here + 1) = UpTo(input, Current, Here)
    <3>1. input[Here + 1].kind # "data"
      BY <1>5, <2>4 DEF FramingKinds
    <3> HIDE DEF Here, Current
    <3> QED BY <1>0, <3>1, NotData
  <2> QED BY <2>2, <2>3, <2>4, <2>7, <2>8
<1> QED BY <1>2, <1>3, <1>4, <1>5

\* A read that fails ends the body; the connection will be closed.
LEMMA Failed ==
    ASSUME ConnInv, InRequest, NEW n, NEW cl \in Int, Moved(n),
           conn' = ConnOf(conn.request_len, cl, conn.consumed + n, 2), conn.consumed + n <= cl,
           Return("error"), body' = body,
           call' \in [left : Nat, read : Nat, by : {"handler", "discard"}],
           line' \in [size : Nat, ext : BOOLEAN, left : Nat]
    PROVE  ConnInv'
<1>1. pc' \in {"handle", "discard", "next"}
  BY Returns
<1>2. pc # "closed" /\ n \in Nat /\ input' = input
  BY DEF InRequest, Moved
<1>3. /\ Current' = Current
      /\ WorkTypes' /\ BodyLength' /\ ChunkPlaces' /\ BodyPlaces' => ConnInv'
  BY <1>2, MovesOn
<1>4. /\ conn.request_len \in Nat /\ conn.consumed \in Nat /\ conn.request_len > 0
  BY ConnFacts DEF ConnInv, BodyLength
<1>5. /\ conn'.request_len = conn.request_len /\ conn'.content_len = cl
      /\ conn'.consumed = conn.consumed + n /\ conn'.is_chunked = 2
      /\ conn' \in [request_len : Nat, content_len : Int, consumed : Nat, is_chunked : 0..4]
  BY <1>2, <1>4, ConnParts
<1>6. WorkTypes'
  <2>1. body' \in Seq(1..Len(input'))
    BY <1>2 DEF ConnInv, ConnTypeOK, WorkTypes
  <2> QED BY <1>1, <1>5, <2>1 DEF WorkTypes
<1>7. BodyLength'
  BY <1>1, <1>4, <1>5, SMTT(60) DEF BodyLength
<1>8. ChunkPlaces'
  BY <1>1, <1>5 DEF ChunkPlaces
<1>9. BodyPlaces'
  <2>1. IsBody(input, Current, body)
    BY <1>2 DEF ConnInv, BodyPlaces
  <2>2. IsBody(input', Current', body')
    BY <1>2, <1>3, <2>1
  <2> QED BY <1>5, <2>2 DEF BodyPlaces
<1> QED BY <1>3, <1>6, <1>7, <1>8, <1>9

\* A step that reads framing and finds what it expects: x more tokens of data are announced,
\* the body goes on (1), its trailer does (3), or the message ends (4).
LEMMA FramingStep ==
    ASSUME ConnInv, InRequest, conn.is_chunked \in {1, 3}, conn.consumed = conn.content_len,
           NEW tokens \in mg_read_inner(Framing, 1), Receives(tokens),
           Kind(tokens) \in FramingKinds, UNCHANGED <<input, buf, handled, body, call>>,
           NEW x \in Nat, NEW ch \in {1, 3, 4},
           conn' = ConnOf(conn.request_len, conn.content_len + 1 + x,
                          conn.consumed + Len(tokens), ch),
           line' \in [size : Nat, ext : BOOLEAN, left : Nat],
           pc' \in {"handle", "mg_read", "crlf", "line", "trailer", "discard", "next"},
           ch = 1 => AllData(input, Here + 1, Here + 1 + x, Current),
           ch # 1 => x = 0,
           ch = 4 => result' # "error" /\ Ends(input, Here + 1, Current),
           pc' \in {"crlf", "line"} => ch = 1 /\ x = 0,
           pc' = "trailer" <=> ch = 3,
           pc' = "line" => line'.left = 0 /\ OnSizeLine(input, Here + 1, line'.size)
    PROVE  ConnInv'
<1>0. /\ conn.request_len \in Nat /\ conn.consumed \in Nat /\ conn.content_len \in Int
      /\ conn.request_len > 0 /\ Base \in Nat /\ Here \in Nat /\ pc # "closed"
      /\ Here = Base + (conn.request_len + conn.consumed)
  BY ConnFacts DEF ConnInv, BodyLength, InRequest, Here, Passed
<1>1. /\ conn'.request_len = conn.request_len /\ conn'.content_len = conn.content_len + 1 + x
      /\ conn'.consumed = conn.consumed + Len(tokens) /\ conn'.is_chunked = ch
  BY ConnParts
<1>2. /\ Moved(Len(tokens)) /\ Len(tokens) = 1
      /\ input[Here + 1].msg = Current /\ UpTo(input, Current, Here + 1) = UpTo(input, Current, Here)
  BY <1>1, FramingRead
<1>3. /\ Base' = Base /\ Here' = Here + 1 /\ Current' = Current
      /\ WorkTypes' /\ BodyLength' /\ ChunkPlaces' /\ BodyPlaces' => ConnInv'
  BY <1>0, <1>2, MovesOn
<1>4. conn' \in [request_len : Nat, content_len : Int, consumed : Nat, is_chunked : 0..4]
  <2>1. conn.content_len + 1 + x \in Int /\ conn.consumed + Len(tokens) \in Nat /\ ch \in 0..4
    BY <1>0, <1>2
  <2> QED BY <1>0, <2>1 DEF ConnOf
<1>5. WorkTypes'
  <2>1. body' \in Seq(1..Len(input')) /\ call' \in [left : Nat, read : Nat, by : {"handler",
                                                    "discard"}]
    BY DEF ConnInv, ConnTypeOK, WorkTypes
  <2> QED BY <1>4, <2>1 DEF WorkTypes
<1>6. conn'.consumed <= conn'.content_len /\ (ch # 1 => conn'.consumed = conn'.content_len)
      /\ (pc' \in {"crlf", "line"} => conn'.consumed = conn'.content_len)
  BY <1>0, <1>1, <1>2
<1>7. BodyLength'
  <2>1. Here + 1 + x = Base + conn'.request_len + conn'.content_len
    <3>1. PICK rl \in Nat, cs \in Nat, b \in Nat, h \in Nat :
             rl = conn.request_len /\ cs = conn.consumed /\ b = Base /\ h = Here
      BY <1>0
    <3>2. h = b + (rl + cs) /\ conn'.request_len = rl /\ conn'.content_len = cs + 1 + x
      BY <1>0, <1>1, <3>1
    <3>3. h + 1 + x = b + rl + (cs + 1 + x)
      BY <3>2
    <3> QED BY <3>1, <3>2, <3>3
  <2>2. input'[Here'].msg = Current'
    BY <1>2, <1>3
  <2>3. ch = 1 => AllData(input', Here', Base' + conn'.request_len + conn'.content_len, Current')
    BY <1>3, <2>1
  <2>4. ch = 4 => result' # "error" /\ Ends(input', Here', Current')
    BY <1>3
  <2> QED BY <1>0, <1>1, <1>6, <2>2, <2>3, <2>4, SMTT(60) DEF BodyLength
<1>8. ChunkPlaces'
  <2>1. pc' = "line" => line'.left = 0 /\ OnSizeLine(input', Here', line'.size)
    BY <1>3
  <2> QED BY <1>1, <1>6, <2>1 DEF ChunkPlaces
<1>9. BodyPlaces'
  <2>1. IsBody(input, Current, body) /\ Len(body) = Cardinality(UpTo(input, Current, Here))
    <3>1. conn.is_chunked # 2
      OBVIOUS
    <3>2. BodyPlaces
      BY DEF ConnInv
    <3> QED BY <1>0, <3>1, <3>2 DEF BodyPlaces
  <2>2. input' = input /\ body' = body /\ Current' = Current
    BY <1>3
  <2>3. UpTo(input', Current', Here') = UpTo(input, Current, Here)
    BY <1>2, <1>3, <2>2
  <2>4. IsBody(input', Current', body') /\ Len(body') = Cardinality(UpTo(input', Current', Here'))
    BY <2>1, <2>2, <2>3
  <2> QED BY <2>4 DEF BodyPlaces
<1> QED BY <1>3, <1>5, <1>7, <1>8, <1>9

\* A step that reads framing and does not find what it expects.
LEMMA FramingFails ==
    ASSUME ConnInv, InRequest, conn.is_chunked \in {1, 3}, conn.consumed = conn.content_len,
           NEW tokens \in mg_read_inner(Framing, 1), Receives(tokens),
           UNCHANGED <<input, buf, handled, body, call, line>>, Fail(Framed(tokens))
    PROVE  ConnInv'
<1>0. conn.request_len \in Nat /\ conn.consumed \in Nat /\ conn.content_len \in Int
  BY ConnFacts
<1>1. conn' = ConnOf(conn.request_len, conn.content_len + 1, conn.consumed + Len(tokens), 2)
  <2>1. Framed(tokens) = ConnOf(conn.request_len, conn.content_len + 1,
                                conn.consumed + Len(tokens), conn.is_chunked)
    BY FramedIs
  <2>2. conn' = [Framed(tokens) EXCEPT !.is_chunked = 2]
    BY DEF Fail
  <2> QED BY <2>1, <2>2 DEF ConnOf
<1>2. conn'.request_len = conn.request_len /\ conn'.consumed = conn.consumed + Len(tokens)
  BY <1>1, ConnParts
<1>3. Moved(Len(tokens)) /\ Len(tokens) \in Nat /\ Len(tokens) <= 1
  BY <1>2, FramingRead
<1>4. conn.content_len + 1 \in Int /\ conn.consumed + Len(tokens) <= conn.content_len + 1
  BY <1>0, <1>3
<1>5. /\ call' \in [left : Nat, read : Nat, by : {"handler", "discard"}]
      /\ line' \in [size : Nat, ext : BOOLEAN, left : Nat] /\ body' = body
  BY DEF ConnInv, ConnTypeOK, WorkTypes
<1>6. Return("error")
  BY DEF Fail
<1> QED BY <1>1, <1>3, <1>4, <1>5, <1>6, Failed

\* Between a position and itself there is no data.
LEMMA NoDataLeft ==
    ASSUME NEW i \in Seq(Token), NEW h \in Nat, NEW m
    PROVE  AllData(i, h, h + 0, m)
<1>1. DOMAIN i = 1..Len(i) /\ Len(i) \in Nat
  OBVIOUS
<1>2. \A p \in 1..Len(i) : ~(h < p /\ p <= h + 0)
  BY <1>1
<1> QED BY <1>1, <1>2 DEF AllData

\* Where the steps in a chunked body start from.
LEMMA InChunkedBody ==
    ASSUME ConnInv, \/ pc \in {"crlf", "line", "trailer"}
                    \/ InChunked /\ conn.consumed = conn.content_len
    PROVE  /\ InRequest /\ conn.is_chunked = (IF pc = "trailer" THEN 3 ELSE 1)
           /\ conn.consumed = conn.content_len
           /\ Here \in Nat /\ input \in Seq(Token) /\ WellFramed(input) /\ Current \in Nat
           /\ line \in [size : Nat, ext : BOOLEAN, left : Nat] /\ line.size \in Nat
           /\ conn.content_len \in Int
<1>1. InRequest /\ conn.is_chunked = (IF pc = "trailer" THEN 3 ELSE 1)
      /\ conn.consumed = conn.content_len
  <2>1. ChunkPlaces
    BY DEF ConnInv
  <2>2. CASE pc = "trailer"
    BY <2>1, <2>2 DEF ChunkPlaces, InRequest
  <2>3. CASE pc \in {"crlf", "line"}
    BY <2>1, <2>3 DEF ChunkPlaces, InRequest
  <2>4. CASE InChunked /\ conn.consumed = conn.content_len
    BY <2>4 DEF InChunked, InRequest
  <2> QED BY <2>2, <2>3, <2>4
<1>2. line \in [size : Nat, ext : BOOLEAN, left : Nat] /\ line.size \in Nat /\ WellFramed(input)
  BY DEF ConnInv, ConnTypeOK, WorkTypes
<1> QED BY <1>1, <1>2, ConnFacts

\* The framing that is read counts as content, and with it what is announced.
LEMMA FramedAs ==
    ASSUME ConnInv, NEW tokens
    PROVE  /\ Framed(tokens) = ConnOf(conn.request_len, conn.content_len + 1 + 0,
                                      conn.consumed + Len(tokens), conn.is_chunked)
           /\ \A ch : [Framed(tokens) EXCEPT !.is_chunked = ch]
                        = ConnOf(conn.request_len, conn.content_len + 1 + 0,
                                 conn.consumed + Len(tokens), ch)
           /\ \A x \in Nat : [Framed(tokens) EXCEPT !.content_len = @ + x]
                        = ConnOf(conn.request_len, conn.content_len + 1 + x,
                                 conn.consumed + Len(tokens), conn.is_chunked)
<1>1. PICK cl \in Int : cl = conn.content_len + 1 /\ cl = conn.content_len + 1 + 0
  BY ConnFacts, SMTT(60)
<1>2. PICK c : c = Framed(tokens) /\ c = ConnOf(conn.request_len, cl, conn.consumed + Len(tokens),
                                               conn.is_chunked)
  BY <1>1, FramedIs
<1>3. \A ch : [c EXCEPT !.is_chunked = ch]
                = ConnOf(conn.request_len, cl, conn.consumed + Len(tokens), ch)
  BY <1>2 DEF ConnOf
<1>4. \A x \in Nat : [c EXCEPT !.content_len = @ + x]
                = ConnOf(conn.request_len, cl + x, conn.consumed + Len(tokens), conn.is_chunked)
  BY <1>2 DEF ConnOf
<1> QED BY <1>1, <1>2, <1>3, <1>4

\* The CRLF behind a chunk.
LEMMA ChunkEndStep ==
    ASSUME ConnInv, ChunkEnd PROVE ConnInv'
<1>1. pc = "crlf" /\ UNCHANGED <<input, buf, call, line, body, handled, stop_flag>>
  BY DEF ChunkEnd
<1>2. PICK tokens \in mg_read_inner(Framing, 1) :
         /\ Receives(tokens)
         /\ IF Kind(tokens) = "crlf"
            THEN conn' = Framed(tokens) /\ pc' = "mg_read" /\ UNCHANGED result
            ELSE Fail(Framed(tokens))
  BY DEF ChunkEnd
<1>3. /\ InRequest /\ conn.is_chunked = 1 /\ conn.consumed = conn.content_len
      /\ Here \in Nat /\ input \in Seq(Token)
      /\ line' \in [size : Nat, ext : BOOLEAN, left : Nat]
  BY <1>1, InChunkedBody
<1>4. CASE Kind(tokens) = "crlf"
  <2>1. conn' = ConnOf(conn.request_len, conn.content_len + 1 + 0,
                 conn.consumed + Len(tokens), 1)
    BY <1>2, <1>3, <1>4, FramedAs
  <2>2. AllData(input, Here + 1, Here + 1 + 0, Current)
    BY <1>3, NoDataLeft
  <2>3. Kind(tokens) \in FramingKinds
    BY <1>4 DEF FramingKinds
  <2>4. pc' = "mg_read" /\ 0 \in Nat
    BY <1>2, <1>4
  <2> QED BY <1>1, <1>2, <1>3, <2>1, <2>2, <2>3, <2>4, FramingStep
<1>5. CASE Kind(tokens) # "crlf"
  BY <1>1, <1>2, <1>3, <1>5, FramingFails
<1> QED BY <1>4, <1>5

\* The digits of a chunk size.
LEMMA ChunkSizeStep ==
    ASSUME ConnInv, ChunkSize PROVE ConnInv'
<1>1. /\ InChunked /\ conn.consumed = conn.content_len
      /\ UNCHANGED <<input, buf, call, body, handled, stop_flag>>
  BY DEF ChunkSize
<1>2. PICK tokens \in mg_read_inner(Framing, 1) :
         /\ Receives(tokens)
         /\ IF Kind(tokens) = "size"
            THEN /\ line' = [size |-> input[tokens[1]].len, ext |-> FALSE, left |-> 0]
                 /\ conn' = Framed(tokens)
                 /\ pc' = "line"
                 /\ UNCHANGED result
            ELSE Fail(Framed(tokens)) /\ UNCHANGED line
  BY DEF ChunkSize
<1>3. /\ InRequest /\ conn.is_chunked = 1 /\ conn.consumed = conn.content_len
      /\ Here \in Nat /\ input \in Seq(Token)
  <2>1. pc # "trailer"
    BY <1>1 DEF InChunked
  <2> QED BY <1>1, <2>1, InChunkedBody
<1>4. CASE Kind(tokens) = "size"
  <2>1. conn' = ConnOf(conn.request_len, conn.content_len + 1 + 0,
                 conn.consumed + Len(tokens), 1)
    BY <1>2, <1>3, <1>4, FramedAs
  <2>2. AllData(input, Here + 1, Here + 1 + 0, Current)
    BY <1>3, NoDataLeft
  <2>3. Kind(tokens) \in FramingKinds
    BY <1>4 DEF FramingKinds
  <2>4. pc' = "line" /\ 0 \in Nat
    BY <1>2, <1>4
  <2>5. tokens[1] = Here + 1 /\ Here + 1 \in DOMAIN input /\ input[Here + 1].kind = "size"
    <3>1. conn'.request_len = conn.request_len /\ conn'.consumed = conn.consumed + Len(tokens)
      BY <2>1, ConnParts
    <3> QED BY <1>1, <1>2, <1>3, <1>4, <2>3, <3>1, FramingRead
  <2>6. line' = [size |-> input[Here + 1].len, ext |-> FALSE, left |-> 0]
    BY <1>2, <1>4, <2>5
  <2>7. input[Here + 1].len \in Nat /\ OnSizeLine(input, Here + 1, input[Here + 1].len)
    <3> HIDE DEF Here
    <3> QED BY <1>3, <2>5, TokenParts, SizeLine
  <2>8. /\ line' \in [size : Nat, ext : BOOLEAN, left : Nat] /\ line'.left = 0
        /\ OnSizeLine(input, Here + 1, line'.size)
    BY <2>6, <2>7
  <2> QED BY <1>1, <1>2, <1>3, <2>1, <2>2, <2>3, <2>4, <2>8, FramingStep
<1>5. CASE Kind(tokens) # "size"
  BY <1>1, <1>2, <1>3, <1>5, FramingFails
<1> QED BY <1>4, <1>5

\* The rest of the line with a chunk size.
LEMMA ChunkLineStep ==
    ASSUME ConnInv, ChunkLine PROVE ConnInv'
<1>1. pc = "line" /\ UNCHANGED <<input, buf, call, body, handled, stop_flag>>
  BY DEF ChunkLine
<1>2. PICK tokens \in mg_read_inner(Framing, 1) :
         /\ Receives(tokens)
         /\ \/ /\ Kind(tokens) = "eol"
               /\ ChunkAppend(Framed(tokens))
               /\ UNCHANGED <<line, result>>
            \/ /\ Kind(tokens) = "ext"
               /\ line' = [line EXCEPT !.ext = TRUE, !.left = input[tokens[1]].len]
               /\ conn' = Framed(tokens)
               /\ UNCHANGED <<pc, result>>
            \/ /\ Kind(tokens) \notin {"eol", "ext"}
               /\ IF tokens = <<>> /\ line.ext /\ line.left > 0
                  THEN /\ line' = [size |-> line.left, ext |-> FALSE, left |-> 0]
                       /\ conn' = Framed(tokens)
                       /\ UNCHANGED <<pc, result>>
                  ELSE Fail(Framed(tokens)) /\ UNCHANGED line
  BY DEF ChunkLine
<1>3. /\ InRequest /\ conn.is_chunked = 1 /\ conn.consumed = conn.content_len
      /\ Here \in Nat /\ input \in Seq(Token) /\ WellFramed(input) /\ Current \in Nat
      /\ line \in [size : Nat, ext : BOOLEAN, left : Nat] /\ line.size \in Nat
  BY <1>1, InChunkedBody
<1>4. line.left = 0 /\ OnSizeLine(input, Here, line.size)
  BY <1>1 DEF ConnInv, ChunkPlaces
<1>5. ASSUME Kind(tokens) \in FramingKinds, NEW x \in Nat, NEW ch \in {1, 3},
             conn' = ConnOf(conn.request_len, conn.content_len + 1 + x,
                            conn.consumed + Len(tokens), ch)
      PROVE  /\ tokens[1] = Here + 1 /\ Here + 1 \in DOMAIN input
             /\ input[Here + 1].kind = Kind(tokens) /\ input[Here + 1].msg = Current
  <2>1. conn'.request_len = conn.request_len /\ conn'.consumed = conn.consumed + Len(tokens)
    BY <1>5, ConnParts
  <2> QED BY <1>1, <1>2, <1>3, <1>5, <2>1, FramingRead
<1>6. CASE Kind(tokens) = "eol" /\ ChunkAppend(Framed(tokens)) /\ UNCHANGED <<line, result>>
  <2>1. Kind(tokens) \in FramingKinds
    BY <1>6 DEF FramingKinds
  <2>2. CASE line.size = 0
    <3>1. /\ conn' = ConnOf(conn.request_len, conn.content_len + 1 + 0,
                 conn.consumed + Len(tokens), 3)
          /\ pc' = "trailer" /\ 0 \in Nat
      BY <1>6, <2>2, FramedAs DEF ChunkAppend
    <3> QED BY <1>1, <1>2, <1>3, <1>6, <2>1, <3>1, FramingStep
  <2>3. CASE line.size # 0
    <3>1. /\ conn' = ConnOf(conn.request_len, conn.content_len + 1 + line.size,
                            conn.consumed + Len(tokens), 1)
          /\ pc' = "mg_read"
      BY <1>3, <1>6, <2>3, FramedAs DEF ChunkAppend
    <3>2. /\ Here + 1 \in DOMAIN input /\ input[Here + 1].kind = "eol" /\ input[Here + 1].msg = Current
      BY <1>3, <1>5, <1>6, <2>1, <3>1
    <3>3. AllData(input, Here + 1, Here + 1 + line.size, Current)
      <4> HIDE DEF Here, Current
      <4> QED BY <1>3, <1>4, <3>2, LineData
    <3> QED BY <1>1, <1>2, <1>3, <1>6, <2>1, <3>1, <3>3, FramingStep
  <2> QED BY <2>2, <2>3
<1>7. CASE /\ Kind(tokens) = "ext"
           /\ line' = [line EXCEPT !.ext = TRUE, !.left = input[tokens[1]].len]
           /\ conn' = Framed(tokens)
           /\ UNCHANGED <<pc, result>>
  <2>1. Kind(tokens) \in FramingKinds
    BY <1>7 DEF FramingKinds
  <2>2. conn' = ConnOf(conn.request_len, conn.content_len + 1 + 0,
                 conn.consumed + Len(tokens), 1)
    BY <1>3, <1>7, FramedAs
  <2>3. /\ tokens[1] = Here + 1 /\ Here + 1 \in DOMAIN input /\ input[Here + 1].kind = "ext"
    BY <1>5, <1>7, <2>1, <2>2
  <2>4. input[Here + 1].len = 0
    BY <1>3, <2>3 DEF WellFramed
  <2>5. line' \in [size : Nat, ext : BOOLEAN,
                   left : Nat] /\ line'.left = 0 /\ line'.size = line.size
    <3>1. line' = [line EXCEPT !.ext = TRUE, !.left = 0]
      BY <1>7, <2>3, <2>4
    <3>2. line' = [size |-> line.size, ext |-> TRUE, left |-> 0]
      BY <1>3, <3>1
    <3> QED BY <1>3, <3>2
  <2>6. OnSizeLine(input, Here + 1, line.size)
    <3> HIDE DEF Here
    <3> QED BY <1>3, <1>4, <2>3, SizeLine
  <2>7. AllData(input, Here + 1, Here + 1 + 0, Current) /\ 0 \in Nat
    BY <1>3, NoDataLeft
  <2>8. pc' = "line"
    BY <1>1, <1>7
  <2> QED BY <1>1, <1>2, <1>3, <2>1, <2>2, <2>5, <2>6, <2>7, <2>8, FramingStep
<1>8. CASE Fail(Framed(tokens)) /\ UNCHANGED line
  BY <1>1, <1>2, <1>3, <1>8, FramingFails
<1> QED BY <1>2, <1>4, <1>6, <1>7, <1>8

\* The trailer of a chunked body.
LEMMA TrailerStep ==
    ASSUME ConnInv, Trailer PROVE ConnInv'
<1>1. pc = "trailer" /\ UNCHANGED <<input, buf, call, line, body, handled, stop_flag>>
  BY DEF Trailer
<1>2. PICK tokens \in mg_read_inner(Framing, 1) :
         /\ Receives(tokens)
         /\ \/ /\ Kind(tokens) = "trailer"
               /\ conn' = Framed(tokens)
               /\ UNCHANGED <<pc, result>>
            \/ /\ Kind(tokens) = "final"
               /\ conn' = [Framed(tokens) EXCEPT !.is_chunked = 4]
               /\ Return(IF call.read > 0 THEN "data" ELSE "end")
            \/ /\ Kind(tokens) \notin {"trailer", "final"}
               /\ Fail(Framed(tokens))
  BY DEF Trailer
<1>3. /\ InRequest /\ conn.is_chunked = 3 /\ conn.consumed = conn.content_len
      /\ Here \in Nat /\ input \in Seq(Token) /\ WellFramed(input) /\ Current \in Nat
      /\ line' \in [size : Nat, ext : BOOLEAN, left : Nat] /\ 0 \in Nat
  BY <1>1, InChunkedBody
<1>4. CASE Kind(tokens) = "trailer" /\ conn' = Framed(tokens) /\ UNCHANGED <<pc, result>>
  <2>1. conn' = ConnOf(conn.request_len, conn.content_len + 1 + 0,
                 conn.consumed + Len(tokens), 3)
    BY <1>3, <1>4, FramedAs
  <2>2. Kind(tokens) \in FramingKinds /\ pc' = "trailer"
    BY <1>1, <1>4 DEF FramingKinds
  <2> QED BY <1>1, <1>2, <1>3, <2>1, <2>2, FramingStep
<1>5. CASE /\ Kind(tokens) = "final"
           /\ conn' = [Framed(tokens) EXCEPT !.is_chunked = 4]
           /\ Return(IF call.read > 0 THEN "data" ELSE "end")
  <2>1. conn' = ConnOf(conn.request_len, conn.content_len + 1 + 0,
                 conn.consumed + Len(tokens), 4)
    BY <1>5, FramedAs
  <2>2. Kind(tokens) \in FramingKinds
    BY <1>5 DEF FramingKinds
  <2>3. pc' \in {"handle", "discard", "next"} /\ result' # "error"
    BY <1>5 DEF Return
  <2>4. Here + 1 \in DOMAIN input /\ input[Here + 1].kind = "final" /\ input[Here + 1].msg = Current
    <3>1. conn'.request_len = conn.request_len /\ conn'.consumed = conn.consumed + Len(tokens)
      BY <2>1, ConnParts
    <3> QED BY <1>1, <1>2, <1>3, <1>5, <2>2, <3>1, FramingRead
  <2>5. Ends(input, Here + 1, Current)
    <3> HIDE DEF Here, Current
    <3> QED BY <1>3, <2>4, FinalEnds
  <2> QED BY <1>1, <1>2, <1>3, <2>1, <2>2, <2>3, <2>5, FramingStep, SMTT(60)
<1>6. CASE Fail(Framed(tokens))
  BY <1>1, <1>2, <1>3, <1>6, FramingFails
<1> QED BY <1>2, <1>4, <1>5, <1>6

\* A step that only goes on to another place in the handling of a request.
LEMMA Kept ==
    ASSUME ConnInv, InRequest, pc # "trailer",
           UNCHANGED <<input, received, buf, conn, line, body, handled>>,
           pc' \in {"handle", "mg_read", "discard", "next"},
           call' \in [left : Nat, read : Nat, by : {"handler", "discard"}],
           conn.is_chunked = 4 => result' # "error"
    PROVE  ConnInv'
<1>0. /\ Passed \in Nat /\ data_len \in Nat /\ Base \in Nat /\ Here \in Nat /\ Len(input) \in Nat
      /\ received = Base + Larger(data_len, Passed) /\ Here <= received /\ received <= Len(input)
      /\ received \in Nat /\ conn.consumed \in Nat /\ pc # "closed"
  BY ConnFacts DEF InRequest
<1>1. Moved(0)
  <2>1. Passed + 0 = Passed /\ conn.consumed + 0 = conn.consumed /\ Here + 0 <= Len(input)
    BY <1>0
  <2> QED BY <1>0, <2>1 DEF Moved
<1>2. /\ Base' = Base /\ Here' = Here /\ Current' = Current
      /\ WorkTypes' /\ BodyLength' /\ ChunkPlaces' /\ BodyPlaces' => ConnInv'
  <2>1. Here + 0 = Here
    BY <1>0
  <2> QED BY <1>0, <1>1, <2>1, MovesOn
<1>3. WorkTypes'
  BY DEF ConnInv, ConnTypeOK, WorkTypes
<1>4. BodyLength'
  <2>1. BodyLength
    BY DEF ConnInv
  <2>2. conn.is_chunked = 0 => HeaderAt(input', Base' + conn'.request_len, Current', conn'.content_len)
    BY <1>2, <2>1 DEF BodyLength
  <2>3. conn.is_chunked \in {1, 3} => input'[Here'].msg = Current'
    BY <1>2, <2>1 DEF BodyLength
  <2>4. conn.is_chunked = 1 =>
           AllData(input', Here', Base' + conn'.request_len + conn'.content_len, Current')
    BY <1>2, <2>1 DEF BodyLength
  <2>5. conn.is_chunked = 4 => Ends(input', Here', Current')
    BY <1>2, <2>1 DEF BodyLength
  <2>6. conn'.request_len > 0 /\ conn'.consumed <= conn'.content_len
    BY <2>1 DEF BodyLength
  <2> QED BY <2>2, <2>3, <2>4, <2>5, <2>6 DEF BodyLength
<1>5. ChunkPlaces'
  BY DEF ConnInv, ChunkPlaces, InRequest
<1>6. BodyPlaces'
  <2>1. BodyPlaces
    BY DEF ConnInv
  <2>2. /\ IsBody(input', Current', body')
        /\ conn.is_chunked # 2 => Len(body') = Cardinality(UpTo(input', Current', Here'))
    BY <1>0, <1>2, <2>1 DEF BodyPlaces
  <2> QED BY <2>2 DEF BodyPlaces
<1> QED BY <1>2, <1>3, <1>4, <1>5, <1>6

\* mg_read is called.
LEMMA MgReadStep ==
    ASSUME ConnInv, MgRead \/ Discard PROVE ConnInv'
<1>1. PICK len \in Nat, by \in {"handler", "discard"} : CallMgRead(len, by)
  BY ConnectionAssumption DEF MgRead, Discard
<1>2. pc \in {"handle", "discard"}
  BY DEF MgRead, Discard
<1>3. /\ call' = [left |-> len, read |-> 0, by |-> by] /\ pc' = "mg_read"
      /\ UNCHANGED <<input, received, buf, conn, line, body, result, handled>>
  BY <1>1 DEF CallMgRead
<1>4. InRequest /\ pc # "trailer"
  BY <1>2 DEF InRequest
<1>5. conn.is_chunked = 4 => result' # "error"
  BY <1>3, <1>4 DEF ConnInv, BodyLength
<1> QED BY <1>3, <1>4, <1>5, Kept

\* The handler returns.
LEMMA HandlerReturnsStep ==
    ASSUME ConnInv, HandlerReturns PROVE ConnInv'
<1>1. /\ pc = "handle" /\ pc' \in {"discard", "next"}
      /\ UNCHANGED <<input, received, buf, conn, call, line, body, result, handled>>
  BY DEF HandlerReturns
<1>2. InRequest
  BY <1>1 DEF InRequest
<1>3. call' \in [left : Nat, read : Nat, by : {"handler", "discard"}]
  BY <1>1 DEF ConnInv, ConnTypeOK, WorkTypes
<1>4. conn.is_chunked = 4 => result' # "error"
  BY <1>1, <1>2 DEF ConnInv, BodyLength
<1> QED BY <1>1, <1>2, <1>3, <1>4, Kept

\* mg_read returns from a chunked body without reading.
LEMMA ChunkedReturnStep ==
    ASSUME ConnInv, ChunkedReturn PROVE ConnInv'
<1>1. /\ pc = "mg_read"
      /\ UNCHANGED <<input, received, buf, conn, call, line, body, handled>>
  BY DEF ChunkedReturn
<1>2. InRequest
  BY <1>1 DEF InRequest
<1>3. call' \in [left : Nat, read : Nat, by : {"handler", "discard"}]
  BY <1>1 DEF ConnInv, ConnTypeOK, WorkTypes
<1>4. PICK r : Return(r) /\ (conn.is_chunked = 4 => r # "error")
  BY DEF ChunkedReturn
<1>5. pc' \in {"handle", "discard", "next"} /\ result' = r
  BY <1>4, Returns
<1> QED BY <1>1, <1>2, <1>3, <1>4, <1>5, Kept

\* The connection is closed.
LEMMA ClosingStep ==
    ASSUME ConnInv, ReadMessageFails \/ BadRequest \/ LastRequest PROVE ConnInv'
<1>1. /\ pc' = "closed" /\ handled' = handled + 1
      /\ UNCHANGED <<input, received, buf, conn, call, line, body>>
  BY DEF ReadMessageFails, BadRequest, LastRequest
<1>2. ConnTypeOK'
  <2>1. ConnTypeOK
    BY DEF ConnInv
  <2>2. WellFramed(input') /\ data_len' <= buf_size /\ handled' \in Nat
    BY <1>1, <2>1 DEF ConnTypeOK, data_len
  <2>3. WorkTypes'
    BY <1>1, <2>1 DEF ConnTypeOK, WorkTypes
  <2> QED BY <1>1, <2>1, <2>2, <2>3 DEF ConnTypeOK
<1>3. BufferPlaces'
  <2>1. Base' = Base /\ data_len' = data_len
    BY <1>1 DEF Base, Passed, data_len
  <2> QED BY <1>1, <2>1 DEF ConnInv, BufferPlaces
<1>4. MessageStarts' /\ BodyLength' /\ ChunkPlaces' /\ BodyPlaces'
  BY <1>1 DEF MessageStarts, BodyLength, ChunkPlaces, BodyPlaces, InRequest
<1> QED BY <1>2, <1>3, <1>4 DEF ConnInv

\* The end of the data that is announced, in a body of either kind.
DataEnd == Base + conn.request_len + conn.content_len

\* Up to there the input is data of this message.
LEMMA DataAhead ==
    ASSUME ConnInv, InRequest, conn.is_chunked \in {0, 1}
    PROVE  /\ AllData(input, Here, DataEnd, Current)
           /\ conn.consumed <= conn.content_len /\ conn.content_len \in Nat
           /\ DataEnd \in Nat /\ DataEnd = Here + (conn.content_len - conn.consumed)
<1>0. /\ conn.request_len \in Nat /\ conn.consumed \in Nat /\ conn.content_len \in Int
      /\ Base \in Nat /\ Here \in Nat /\ Current \in Nat /\ input \in Seq(Token)
      /\ Base + data_len <= received /\ data_len \in Nat
      /\ received \in Nat /\ received <= Len(input) /\ Len(input) \in Nat
      /\ Here = Base + (conn.request_len + conn.consumed)
  BY ConnFacts DEF Here, Passed
<1>1. /\ BodyLength /\ conn.request_len > 0 /\ conn.consumed <= conn.content_len
      /\ conn.request_len <= data_len /\ WellFramed(input)
  BY DEF ConnInv, BodyLength, BufferPlaces, ConnTypeOK
<1>2. PICK rl \in Nat, cs \in Nat, cl \in Nat :
         rl = conn.request_len /\ cs = conn.consumed /\ cl = conn.content_len
  BY <1>0, <1>1
<1>3. DataEnd \in Nat /\ DataEnd = Here + (cl - cs) /\ DataEnd = Base + rl + cl
  <2>1. DataEnd = Base + rl + cl /\ Here = Base + (rl + cs)
    BY <1>0, <1>2 DEF DataEnd
  <2>2. PICK b \in Nat, h \in Nat : b = Base /\ h = Here
    BY <1>0
  <2>3. b + rl + cl \in Nat /\ (h = b + (rl + cs) => b + rl + cl = h + (cl - cs))
    OBVIOUS
  <2> QED BY <2>1, <2>2, <2>3
<1>4. AllData(input, Here, DataEnd, Current)
  <2>1. CASE conn.is_chunked = 1
    <3> HIDE DEF Here, Base, Current
    <3> QED BY <1>1, <2>1 DEF BodyLength, DataEnd
  <2>2. CASE conn.is_chunked = 0
    <3>1. PICK e \in DOMAIN input : e = Base + rl
      <4>1. Base + rl \in 1..Len(input)
        <5> HIDE DEF Base, data_len
        <5> QED BY <1>0, <1>1, <1>2, SMTT(60)
      <4> QED BY <1>0, <4>1
    <3>2. HeaderAt(input, e, Current, cl)
      BY <1>1, <1>2, <2>2, <3>1 DEF BodyLength
    <3>3. AllData(input, e, e + cl, Current)
      <4> HIDE DEF Current
      <4> QED BY <1>0, <1>1, <1>2, <3>2, BodyEnds
    <3>4. e <= Here /\ e + cl = DataEnd /\ e \in Nat
      <4>1. e = Base + rl /\ Here = Base + (rl + cs) /\ DataEnd = Base + rl + cl
        BY <1>0, <1>2, <1>3, <3>1
      <4>2. PICK b \in Nat : b = Base
        BY <1>0
      <4>3. b + rl \in Nat /\ b + rl <= b + (rl + cs)
        OBVIOUS
      <4> QED BY <4>1, <4>2, <4>3
    <3>5. AllData(input, e, DataEnd, Current)
      BY <3>3, <3>4
    <3>6. ASSUME NEW p \in DOMAIN input, Here < p, p <= DataEnd
          PROVE  input[p].kind = "data" /\ input[p].msg = Current
      <4>1. p \in Nat
        BY <1>0
      <4>2. e < p
        <5> HIDE DEF Here
        <5> QED BY <1>0, <3>4, <3>6, <4>1
      <4> QED BY <3>5, <3>6, <4>2 DEF AllData
    <3> QED BY <3>6 DEF AllData
  <2> QED BY <2>1, <2>2
<1> QED BY <1>2, <1>1, <1>3, <1>4

\* mg_read_inner with the body: what it returns is data that continues the body.
LEMMA DataRead ==
    ASSUME ConnInv, InRequest, conn.is_chunked \in {0, 1},
           NEW tokens \in mg_read_inner(conn, call.left), Receives(tokens),
           UNCHANGED <<input, buf, handled>>, body' = Joined(body, tokens),
           conn'.request_len = conn.request_len, conn'.consumed = conn.consumed + Len(tokens)
    PROVE  /\ Moved(Len(tokens)) /\ Len(tokens) \in Nat /\ Len(tokens) <= call.left
           /\ conn.consumed + Len(tokens) <= conn.content_len
           /\ body' \in Seq(1..Len(input)) /\ IsBody(input, Current, body')
           /\ Len(body') = Cardinality(UpTo(input, Current, Here + Len(tokens)))
           /\ AllData(input, Here + Len(tokens), DataEnd, Current)
           /\ Len(tokens) > 0 => input[Here + Len(tokens)].msg = Current
<1>0. /\ input \in Seq(Token) /\ Len(input) \in Nat /\ DOMAIN input = 1..Len(input) /\ Here \in Nat
      /\ conn.content_len \in Int /\ conn.consumed \in Nat /\ call.left \in Nat /\ pc # "closed"
  BY ConnFacts DEF InRequest
<1>1. /\ tokens \in Seq(1..Len(input)) /\ Len(tokens) \in Nat
      /\ Len(tokens) <= Wanted(conn, call.left) /\ Behind(tokens, Here)
      /\ Here + Len(tokens) <= Len(input)
      /\ received' = Base + Larger(data_len, Passed + Len(tokens))
  BY <1>0, ReadTokens
<1>2. PICK n \in Nat : n = Len(tokens)
  BY <1>1
<1>3. /\ AllData(input, Here, DataEnd, Current)
      /\ conn.consumed <= conn.content_len /\ DataEnd \in Nat
      /\ DataEnd = Here + (conn.content_len - conn.consumed)
  BY DataAhead
<1>4. n <= call.left /\ conn.consumed + n <= conn.content_len /\ Here + n <= DataEnd
  <2>1. n <= Wanted(conn, call.left)
    BY <1>1, <1>2
  <2> HIDE DEF Here, DataEnd
  <2> QED BY <1>0, <1>3, <2>1, SMTT(60) DEF Wanted, Smaller
<1>5. Moved(n)
  BY <1>1, <1>2 DEF Moved
<1>6. AllData(input, Here, Here + n, Current) /\ AllData(input, Here + n, DataEnd, Current)
  <2>1. ASSUME NEW p \in DOMAIN input, Here < p, p <= DataEnd
        PROVE  input[p].kind = "data" /\ input[p].msg = Current
    BY <1>3, <2>1 DEF AllData
  <2> HIDE DEF Here, DataEnd, Current
  <2>2. ASSUME NEW p \in DOMAIN input PROVE /\ p <= Here + n => p <= DataEnd
                                            /\ Here + n < p => Here < p
    BY <1>0, <1>3, <1>4, SMTT(60)
  <2> QED BY <2>1, <2>2 DEF AllData
<1>7. /\ Joined(body, tokens) \in Seq(1..Len(input)) /\ IsBody(input, Current, Joined(body, tokens))
      /\ Len(Joined(body, tokens)) = Cardinality(UpTo(input, Current, Here + Len(tokens)))
  <2>1. body \in Seq(1..Len(input))
    BY DEF ConnInv, ConnTypeOK, WorkTypes
  <2>2. conn.is_chunked # 2
    OBVIOUS
  <2>3. BodyPlaces
    BY DEF ConnInv
  <2>4. IsBody(input, Current, body) /\ Len(body) = Cardinality(UpTo(input, Current, Here))
    BY <1>0, <2>2, <2>3 DEF BodyPlaces
  <2>5. AllData(input, Here, Here + Len(tokens), Current)
    BY <1>2, <1>6
  <2>6. /\ tokens \in Seq(1..Len(input)) /\ Behind(tokens, Here)
        /\ Here + Len(tokens) <= Len(input) /\ input \in Seq(Token) /\ Here \in Nat
    BY <1>0, <1>1
  <2> HIDE DEF Here, Current
  <2> QED BY <2>1, <2>4, <2>5, <2>6, AppendData
<1>8. n > 0 => input[Here + n].msg = Current
  <2>1. SUFFICES ASSUME n > 0 PROVE input[Here + n].msg = Current
    OBVIOUS
  <2> HIDE DEF Here, Current
  <2>2. Here + n \in DOMAIN input /\ Here < Here + n /\ Here + n <= Here + n
    BY <1>0, <1>1, <1>2, <2>1
  <2> QED BY <1>6, <2>2 DEF AllData
<1> QED BY <1>2, <1>4, <1>5, <1>6, <1>7, <1>8

\* A step that reads some of the body.
LEMMA DataStep ==
    ASSUME ConnInv, InRequest, NEW ch \in {0, 1}, conn.is_chunked = ch,
           NEW tokens \in mg_read_inner(conn, call.left), Receives(tokens),
           UNCHANGED <<input, buf, line, handled>>, body' = Joined(body, tokens),
           conn' = ConnOf(conn.request_len, conn.content_len, conn.consumed + Len(tokens), ch),
           call' \in [left : Nat, read : Nat, by : {"handler", "discard"}],
           pc' \in {"handle", "mg_read", "crlf", "discard", "next"},
           ch = 1 => Len(tokens) > 0,
           pc' = "crlf" => ch = 1 /\ conn'.consumed = conn'.content_len
    PROVE  ConnInv'
<1>0. /\ conn.request_len \in Nat /\ conn.consumed \in Nat /\ conn.content_len \in Int
      /\ conn.request_len > 0 /\ Base \in Nat /\ Here \in Nat /\ pc # "closed" /\ BodyLength
  BY ConnFacts DEF ConnInv, BodyLength, InRequest
<1>1. /\ conn'.request_len = conn.request_len /\ conn'.content_len = conn.content_len
      /\ conn'.consumed = conn.consumed + Len(tokens) /\ conn'.is_chunked = ch
  BY ConnParts
<1>2. /\ Moved(Len(tokens)) /\ Len(tokens) \in Nat
      /\ conn.consumed + Len(tokens) <= conn.content_len
      /\ body' \in Seq(1..Len(input)) /\ IsBody(input, Current, body')
      /\ Len(body') = Cardinality(UpTo(input, Current, Here + Len(tokens)))
      /\ AllData(input, Here + Len(tokens), DataEnd, Current)
      /\ Len(tokens) > 0 => input[Here + Len(tokens)].msg = Current
  BY <1>1, DataRead
<1>3. /\ Base' = Base /\ Here' = Here + Len(tokens) /\ Current' = Current
      /\ WorkTypes' /\ BodyLength' /\ ChunkPlaces' /\ BodyPlaces' => ConnInv'
  BY <1>0, <1>2, MovesOn
<1>4. conn' \in [request_len : Nat, content_len : Int, consumed : Nat, is_chunked : 0..4]
  <2>1. conn.consumed + Len(tokens) \in Nat /\ ch \in 0..4
    BY <1>0, <1>2, SMTT(60)
  <2> QED BY <1>0, <2>1 DEF ConnOf
<1>5. WorkTypes'
  <2>1. body' \in Seq(1..Len(input')) /\ line' \in [size : Nat, ext : BOOLEAN, left : Nat]
    BY <1>2 DEF ConnInv, ConnTypeOK, WorkTypes
  <2> QED BY <1>4, <2>1 DEF WorkTypes
<1>6. BodyLength'
  <2>1. conn'.request_len > 0 /\ conn'.consumed <= conn'.content_len
    BY <1>0, <1>1, <1>2
  <2>2. ch = 0 => HeaderAt(input', Base' + conn'.request_len, Current', conn'.content_len)
    <3>1. ch = 0 => HeaderAt(input, Base + conn.request_len, Current, conn.content_len)
      BY <1>0 DEF BodyLength
    <3> QED BY <1>1, <1>3, <3>1
  <2>3. ch = 1 => input'[Here'].msg = Current'
    BY <1>2, <1>3
  <2>4. AllData(input', Here', Base' + conn'.request_len + conn'.content_len, Current')
    BY <1>1, <1>2, <1>3 DEF DataEnd
  <2> QED BY <1>1, <2>1, <2>2, <2>3, <2>4 DEF BodyLength
<1>7. ChunkPlaces'
  BY <1>1 DEF ChunkPlaces
<1>8. BodyPlaces'
  <2>1. IsBody(input', Current', body') /\ Len(body') = Cardinality(UpTo(input', Current', Here'))
    BY <1>2, <1>3
  <2> QED BY <2>1 DEF BodyPlaces
<1> QED BY <1>3, <1>5, <1>6, <1>7, <1>8

\* A body that is not chunked.
LEMMA ReadBodyStep ==
    ASSUME ConnInv, ReadBody PROVE ConnInv'
<1>1. /\ pc = "mg_read" /\ conn.is_chunked = 0 /\ 0 \in {0, 1}
      /\ UNCHANGED <<input, buf, call, line, handled>>
  BY DEF ReadBody
<1>2. PICK tokens \in mg_read_inner(conn, call.left) :
         /\ Receives(tokens)
         /\ conn' = [conn EXCEPT !.consumed = @ + Len(tokens)]
         /\ body' = Joined(body, tokens)
         /\ \E r : Return(r)
  BY DEF ReadBody, Joined
<1>3. InRequest
  BY <1>1 DEF InRequest
<1>4. conn' = ConnOf(conn.request_len, conn.content_len, conn.consumed + Len(tokens), 0)
  <2>1. conn \in [request_len : Nat, content_len : Int, consumed : Nat, is_chunked : 0..4]
    BY DEF ConnInv, ConnTypeOK, WorkTypes
  <2> QED BY <1>1, <1>2, <2>1 DEF ConnOf
<1>5. pc' \in {"handle", "discard", "next"}
  BY <1>2, Returns
<1>6. call' \in [left : Nat, read : Nat, by : {"handler", "discard"}]
  BY <1>1 DEF ConnInv, ConnTypeOK, WorkTypes
<1> QED BY <1>1, <1>2, <1>3, <1>4, <1>5, <1>6, DataStep

\* The data of a chunk.
LEMMA ChunkDataStep ==
    ASSUME ConnInv, ChunkData PROVE ConnInv'
<1>1. /\ pc = "mg_read" /\ conn.is_chunked = 1 /\ 1 \in {0, 1}
      /\ UNCHANGED <<input, buf, line, handled>>
  BY DEF ChunkData, InChunked
<1> DEFINE C(tokens) == [conn EXCEPT !.consumed = @ + Len(tokens)]
<1>2. PICK tokens \in mg_read_inner(conn, call.left) :
         /\ Receives(tokens)
         /\ body' = Joined(body, tokens)
         /\ call' = [call EXCEPT !.left = @ - Len(tokens), !.read = @ + Len(tokens)]
         /\ IF tokens = <<>> THEN Fail(C(tokens))
            ELSE /\ conn' = C(tokens)
                 /\ pc' = IF C(tokens).consumed = C(tokens).content_len THEN "crlf" ELSE pc
                 /\ UNCHANGED result
  BY DEF ChunkData, Joined
<1>3. InRequest
  BY <1>1 DEF InRequest
<1>4. C(tokens) = ConnOf(conn.request_len, conn.content_len, conn.consumed + Len(tokens), 1)
  <2>1. conn \in [request_len : Nat, content_len : Int, consumed : Nat, is_chunked : 0..4]
    BY DEF ConnInv, ConnTypeOK, WorkTypes
  <2> QED BY <1>1, <2>1 DEF ConnOf
<1> HIDE DEF C
<1>5. conn'.request_len = conn.request_len /\ conn'.consumed = conn.consumed + Len(tokens)
  <2>1. conn' = C(tokens) \/ conn' = [C(tokens) EXCEPT !.is_chunked = 2]
    BY <1>2 DEF Fail
  <2> QED BY <1>4, <2>1 DEF ConnOf
<1>6. /\ Moved(Len(tokens)) /\ Len(tokens) \in Nat /\ Len(tokens) <= call.left
      /\ conn.consumed + Len(tokens) <= conn.content_len
  BY <1>1, <1>2, <1>3, <1>5, DataRead
<1>7. call' \in [left : Nat, read : Nat, by : {"handler", "discard"}]
  <2>1. PICK l \in Nat, r \in Nat, n \in Nat, by \in {"handler", "discard"} :
           /\ n = Len(tokens) /\ n <= l
           /\ call = [left |-> l, read |-> r, by |-> by]
    BY <1>6 DEF ConnInv, ConnTypeOK, WorkTypes
  <2>2. call' = [left |-> l - n, read |-> r + n, by |-> by]
    BY <1>2, <2>1
  <2>3. l - n \in Nat /\ r + n \in Nat
    BY <2>1
  <2> QED BY <2>2, <2>3
<1>8. CASE tokens = <<>>
  <2>1. conn' = ConnOf(conn.request_len, conn.content_len, conn.consumed + Len(tokens), 2)
    BY <1>2, <1>4, <1>8 DEF Fail, ConnOf
  <2>2. body' = body
    <3>1. body \in Seq(1..Len(input))
      BY DEF ConnInv, ConnTypeOK, WorkTypes
    <3> QED BY <1>2, <1>8, <3>1 DEF Joined
  <2>3. Return("error")
    BY <1>2, <1>8 DEF Fail
  <2>4. conn.content_len \in Int /\ line' \in [size : Nat, ext : BOOLEAN, left : Nat]
    BY <1>1, ConnFacts DEF ConnInv, ConnTypeOK, WorkTypes
  <2> QED BY <1>3, <1>6, <1>7, <2>1, <2>2, <2>3, <2>4, Failed
<1>9. CASE tokens # <<>>
  <2>1. conn' = ConnOf(conn.request_len, conn.content_len, conn.consumed + Len(tokens), 1)
    BY <1>2, <1>4, <1>9
  <2>2. /\ pc' \in {"mg_read", "crlf"}
        /\ pc' = "crlf" => conn'.consumed = conn'.content_len
    BY <1>1, <1>2, <1>9
  <2>3. Len(tokens) > 0
    <3>1. tokens \in Seq(1..Len(input))
      <4>1. conn.content_len \in Int /\ call.left \in Nat
        BY ConnFacts
      <4> QED BY <1>2, <4>1, ReadTokens
    <3> QED BY <1>6, <1>9, <3>1
  <2> QED BY <1>1, <1>2, <1>3, <1>7, <2>1, <2>2, <2>3, DataStep
<1> QED BY <1>8, <1>9

\* While a header is read, the buffer ends where the socket is.
LEMMA Reading ==
    ASSUME ConnInv, pc = "read"
    PROVE  /\ conn = NoRequest /\ body = <<>> /\ Passed = 0 /\ received = Base + data_len
           /\ Base = received - data_len
<1>1. conn = NoRequest /\ body = <<>>
  BY DEF ConnInv, BodyLength
<1>2. Passed = 0
  BY <1>1 DEF Passed, NoRequest
<1>3. Base \in Nat /\ data_len \in Nat /\ received = Base + Larger(data_len, Passed)
  BY ConnFacts
<1>4. Larger(data_len, 0) = data_len
  BY <1>3 DEF Larger
<1>5. received = Base + data_len
  BY <1>2, <1>3, <1>4
<1>6. PICK b \in Nat, d \in Nat : b = Base /\ d = data_len
  BY <1>3
<1>7. Base = received - data_len
  <2>1. b = (b + d) - d
    OBVIOUS
  <2> QED BY <1>5, <1>6, <2>1
<1> QED BY <1>1, <1>2, <1>5, <1>7

\* A part of a header comes.
LEMMA ReadMessageStep ==
    ASSUME ConnInv, ReadMessage PROVE ConnInv'
<1>1. PICK n \in 1..(buf_size - data_len) :
         /\ received + n <= Len(input)
         /\ buf' = Joined(buf, FromSocket(received, n))
         /\ received' = received + n
  BY DEF ReadMessage, Joined, FromSocket
<1>2. pc = "read" /\ UNCHANGED <<input, conn, pc, call, line, body, handled>>
  BY DEF ReadMessage
<1>3. conn = NoRequest /\ body = <<>> /\ Passed = 0 /\ received = Base + data_len
  BY <1>2, Reading
<1>4. /\ Len(input) \in Nat /\ received \in Nat /\ received <= Len(input) /\ data_len \in Nat
      /\ Base \in Nat /\ buf_size \in Nat /\ n \in Nat /\ data_len = Len(buf)
      /\ buf \in Seq(1..Len(input)) /\ Behind(buf, Base)
  BY ConnFacts, ConnectionAssumption DEF ConnInv, ConnTypeOK, BufferPlaces, data_len
<1>5. Takes(Len(input), buf, Base, received, n, buf')
  <2>1. n <= Len(input) - received
    BY <1>1, <1>4
  <2>2. Base + Len(buf) <= received /\ received = Base + Len(buf)
    BY <1>3, <1>4
  <2> QED BY <1>1, <1>4, <2>1, <2>2 DEF Takes
<1>6. Taken(Len(input), buf, Base, received, n, buf')
  BY <1>5, ThenFromSocket, Zenon
<1>7. buf' \in Seq(1..Len(input)) /\ Len(buf') = data_len + n /\ Behind(buf', Base)
  BY <1>4, <1>6 DEF Taken
<1>8. data_len' = data_len + n
  BY <1>7 DEF data_len
<1>9. Base' = Base
  <2>1. Passed' = 0
    BY <1>2, <1>3 DEF Passed
  <2>2. Base' = received + n - Larger(data_len + n, 0)
    <3>1. received' = received + n
      BY <1>1
    <3> QED BY <1>4, <1>8, <2>1, <3>1 DEF Base, Larger
  <2>3. PICK b \in Nat, d \in Nat : b = Base /\ d = data_len
    BY <1>4
  <2>4. b + d + n - Larger(d + n, 0) = b /\ received = b + d
    BY <1>3, <1>4, <2>3 DEF Larger
  <2> QED BY <2>2, <2>3, <2>4
<1>10. ConnTypeOK'
  <2>1. ConnTypeOK
    BY DEF ConnInv
  <2>2. WellFramed(input') /\ input' \in Inputs /\ handled' \in Nat /\ WorkTypes'
    BY <1>2, <2>1 DEF ConnTypeOK, WorkTypes
  <2>3. received' \in 0..Len(input') /\ data_len' <= buf_size
    BY <1>1, <1>2, <1>4, <1>8
  <2> QED BY <1>2, <1>7, <2>2, <2>3 DEF ConnTypeOK
<1>11. BufferPlaces'
  <2>1. conn'.request_len <= data_len'
    BY <1>2, <1>3, <1>4, <1>8 DEF NoRequest
  <2>2. Behind(buf', Base')
    BY <1>7, <1>9
  <2> QED BY <1>4, <1>9, <2>1, <2>2 DEF BufferPlaces
<1>12. MessageStarts'
  <2>1. Ends(input, Base, handled)
    BY <1>2 DEF ConnInv, MessageStarts
  <2>2. Ends(input', Base', handled')
    BY <1>2, <1>9, <2>1
  <2> QED BY <2>2 DEF MessageStarts
<1>13. BodyLength' /\ ChunkPlaces'
  BY <1>2, <1>3 DEF BodyLength, ChunkPlaces, InRequest
<1>14. BodyPlaces'
  <2>1. IsBody(input', Current', body')
    <3>1. IsBody(input, Current, body)
      BY <1>2 DEF ConnInv, BodyPlaces
    <3>2. Current' = Current
      BY <1>2 DEF Current
    <3> QED BY <1>2, <3>1, <3>2
  <2> QED BY <1>2, <2>1 DEF BodyPlaces, InRequest
<1> QED BY <1>10, <1>11, <1>12, <1>13, <1>14 DEF ConnInv

\* A header is complete and the request is valid.
LEMMA GetRequestStep ==
    ASSUME ConnInv, GetRequest PROVE ConnInv'
<1>1. PICK n \in HeaderEnds :
         /\ IsHeaderLen(n)
         /\ input[buf[n]].kind # "bad"
         /\ conn' = [request_len |-> n, consumed |-> 0, content_len |-> input[buf[n]].len,
                     is_chunked |-> IF input[buf[n]].kind = "endc" THEN 1 ELSE 0]
  BY DEF GetRequest
<1>2. /\ pc = "read" /\ pc' = "handle"
      /\ UNCHANGED <<input, received, buf, call, line, body, handled>>
  BY DEF GetRequest
<1>3. conn = NoRequest /\ body = <<>> /\ Passed = 0 /\ Base = received - data_len
  BY <1>2, Reading
<1>4. /\ Len(input) \in Nat /\ DOMAIN input = 1..Len(input) /\ data_len \in Nat
      /\ Base \in Nat /\ data_len = Len(buf) /\ input \in Seq(Token) /\ WellFramed(input)
      /\ buf \in Seq(1..Len(input)) /\ Behind(buf, Base) /\ handled \in Nat /\ Current = handled + 1
  BY ConnFacts DEF ConnInv, ConnTypeOK, BufferPlaces, data_len, Current
<1>5. /\ n \in 1..data_len /\ n \in Nat /\ n > 0 /\ n <= data_len
      /\ input[buf[n]].kind \in {"end", "endc", "bad"}
  BY <1>4 DEF HeaderEnds
<1>6. \A k \in 1..data_len : buf[k] = Base + k /\ Base + k \in DOMAIN input
  <2>1. \A k \in 1..Len(buf) : buf[k] = Base + k
    BY <1>4, Zenon DEF Behind
  <2>2. \A k \in 1..Len(buf) : buf[k] \in 1..Len(input)
    BY <1>4
  <2> QED BY <1>4, <2>1, <2>2
<1>7. PICK e \in DOMAIN input : e = Base + n /\ buf[n] = e
  BY <1>5, <1>6
<1>8. input[e].kind \in {"end", "endc"} /\ input[e].len \in Nat
  BY <1>1, <1>4, <1>5, <1>7, TokenParts
<1>9. input[e].msg = Current /\ UpTo(input, Current, e) = {}
  <2>1. \A k \in 1..(n - 1) : input[Base + k].kind \notin HeaderKinds
    <3>1. SUFFICES ASSUME NEW k \in 1..(n - 1), input[Base + k].kind \in HeaderKinds
                   PROVE  FALSE
      OBVIOUS
    <3>2. k \in 1..data_len /\ k < n
      BY <1>4, <1>5
    <3>3. k \in HeaderEnds
      BY <1>6, <3>1, <3>2 DEF HeaderEnds, HeaderKinds
    <3>4. n <= k
      BY <1>1, <3>3 DEF IsHeaderLen
    <3> QED BY <1>5, <3>2, <3>4
  <2>2. Ends(input, Base, handled)
    BY <1>2 DEF ConnInv, MessageStarts
  <2>3. Base + n \in DOMAIN input
    BY <1>7
  <2>4. input[Base + n].msg = handled + 1 /\ UpTo(input, handled + 1, Base + n) = {}
    <3> HIDE DEF Base
    <3> QED BY <1>4, <1>5, <2>1, <2>2, <2>3, HeaderFirst
  <2> QED BY <1>4, <1>7, <2>4
<1>10. PICK ch \in {0, 1} : /\ conn' = ConnOf(n, input[e].len, 0, ch)
                            /\ ch = 1 <=> input[e].kind = "endc"
  BY <1>1, <1>7 DEF ConnOf
<1>11. /\ conn'.request_len = n /\ conn'.content_len = input[e].len /\ conn'.consumed = 0
       /\ conn'.is_chunked = ch
  BY <1>10, ConnParts
<1>12. data_len' = data_len /\ Base' = Base /\ Here' = e /\ Current' = Current
  <2>1. data_len' = data_len
    BY <1>2 DEF data_len
  <2>2. Passed' = n
    BY <1>5, <1>11 DEF Passed
  <2>3. Larger(data_len, n) = data_len
    BY <1>4, <1>5 DEF Larger
  <2>4. Base' = Base
    <3>1. Base' = received - Larger(data_len, n)
      BY <1>2, <2>1, <2>2 DEF Base
    <3> QED BY <1>3, <2>3, <3>1
  <2>5. Here' = e
    BY <1>7, <2>2, <2>4 DEF Here
  <2>6. Current' = Current
    BY <1>2 DEF Current
  <2> QED BY <2>1, <2>4, <2>5, <2>6
<1>13. ConnTypeOK'
  <2>1. ConnTypeOK
    BY DEF ConnInv
  <2>2. conn' \in [request_len : Nat, content_len : Int, consumed : Nat, is_chunked : 0..4]
    BY <1>5, <1>8, <1>10 DEF ConnOf
  <2>3. WorkTypes'
    BY <1>2, <2>1, <2>2 DEF ConnTypeOK, WorkTypes
  <2>4. WellFramed(input') /\ data_len' <= buf_size
    BY <1>2, <1>12, <2>1 DEF ConnTypeOK
  <2> QED BY <1>2, <2>1, <2>3, <2>4 DEF ConnTypeOK
<1>14. BufferPlaces'
  <2>1. Behind(buf', Base')
    BY <1>2, <1>4, <1>12
  <2> QED BY <1>4, <1>5, <1>11, <1>12, <2>1 DEF BufferPlaces
<1>15. MessageStarts'
  <2>1. Ends(input, Base, handled)
    BY <1>2 DEF ConnInv, MessageStarts
  <2>2. Ends(input', Base', handled')
    BY <1>2, <1>12, <2>1
  <2> QED BY <2>2 DEF MessageStarts
<1>16. BodyLength'
  <2>1. conn'.request_len > 0 /\ conn'.consumed <= conn'.content_len
    BY <1>5, <1>8, <1>11
  <2>2. ch = 0 => HeaderAt(input', Base' + conn'.request_len, Current', conn'.content_len)
    <3>1. ch = 0 => HeaderAt(input, e, Current, input[e].len)
      BY <1>8, <1>9, <1>10 DEF HeaderAt
    <3> QED BY <1>2, <1>7, <1>11, <1>12, <3>1
  <2>3. input'[Here'].msg = Current'
    BY <1>2, <1>9, <1>12
  <2>4. ch = 1 => AllData(input', Here', Base' + conn'.request_len + conn'.content_len, Current')
    <3>1. ch = 1 => input[e].len = 0
      BY <1>4, <1>10 DEF WellFramed
    <3>2. e \in Nat /\ AllData(input, e, e + 0, Current)
      BY <1>4, NoDataLeft
    <3> QED BY <1>2, <1>7, <1>11, <1>12, <3>1, <3>2
  <2> QED BY <1>2, <1>11, <2>1, <2>2, <2>3, <2>4 DEF BodyLength
<1>17. ChunkPlaces'
  BY <1>2, <1>11 DEF ChunkPlaces
<1>18. BodyPlaces'
  <2>1. IsBody(input, Current, body)
    BY <1>2 DEF ConnInv, BodyPlaces
  <2>2. IsBody(input', Current', body')
    BY <1>2, <1>12, <2>1
  <2>3. UpTo(input', Current', Here') = {}
    BY <1>2, <1>9, <1>12
  <2>4. Len(body') = Cardinality(UpTo(input', Current', Here'))
    <3>1. Cardinality({}) = 0 /\ Len(<<>>) = 0
      BY FS_EmptySet
    <3> QED BY <1>2, <1>3, <2>3, <3>1
  <2> QED BY <2>2, <2>4 DEF BodyPlaces
<1> QED BY <1>13, <1>14, <1>15, <1>16, <1>17, <1>18 DEF ConnInv

\* The next request is read: what is left of this one is in the buffer before it, or nowhere.
LEMMA KeepAliveStep ==
    ASSUME ConnInv, KeepAlive PROVE ConnInv'
<1>1. /\ pc = "next" /\ pc' = "read" /\ Discardable
      /\ buf' = SubSeq(buf, discard_len + 1, data_len)
      /\ conn' = NoRequest /\ body' = <<>> /\ handled' = handled + 1
      /\ UNCHANGED <<input, received, call, line>>
  BY DEF KeepAlive
<1>2. InRequest /\ pc # "closed"
  BY <1>1 DEF InRequest
<1>3. /\ Len(input) \in Nat /\ DOMAIN input = 1..Len(input) /\ data_len \in Nat
      /\ Base \in Nat /\ data_len = Len(buf) /\ input \in Seq(Token) /\ WellFramed(input)
      /\ buf \in Seq(1..Len(input)) /\ Behind(buf, Base) /\ handled \in Nat /\ Current = handled + 1
      /\ received \in Nat /\ received <= Len(input) /\ Current \in Nat
      /\ Base + data_len <= received /\ received = Base + Larger(data_len, Passed)
      /\ data_len <= buf_size
  BY ConnFacts DEF ConnInv, ConnTypeOK, BufferPlaces, data_len, Current
<1>4. PICK rl \in Nat, cl \in Nat, cs \in Nat :
         /\ rl = conn.request_len /\ cl = conn.content_len /\ cs = conn.consumed
         /\ cs <= cl /\ rl > 0 /\ rl <= data_len
         /\ cs = cl \/ rl + cl <= data_len
         /\ Passed = rl + cs
  <2>1. conn.request_len \in Nat /\ conn.content_len \in Int /\ conn.consumed \in Nat
    BY ConnFacts
  <2>2. BodyLength /\ ChunkPlaces /\ BufferPlaces
    BY DEF ConnInv
  <2>3. conn.consumed <= conn.content_len /\ conn.request_len > 0 /\ conn.request_len <= data_len
    BY <1>2, <2>2 DEF BodyLength, BufferPlaces
  <2>4. conn.consumed = conn.content_len \/ conn.request_len + conn.content_len <= data_len
    BY <1>1, <1>2, <2>2 DEF Discardable, ChunkPlaces
  <2>5. conn.content_len \in Nat
    BY <2>1, <2>3
  <2> QED BY <2>1, <2>3, <2>4, <2>5 DEF Passed
<1>5. PICK E \in Nat : E = Base + rl + cl
  BY <1>3
<1>6. PICK x \in Nat : x = discard_len /\ x = Smaller(rl + cl, data_len)
  BY <1>3, <1>4 DEF discard_len, Smaller
<1>7. /\ x <= data_len /\ data_len - x \in Nat /\ (x < data_len => Base + x = E)
      /\ received - (data_len - x) = E
  <2>1. PICK b \in Nat, d \in Nat, r \in Nat : b = Base /\ d = data_len /\ r = received
    BY <1>3
  <2>2. /\ x <= d /\ d - x \in Nat /\ (x < d => b + x = b + rl + cl)
        /\ r - (d - x) = b + rl + cl
    <3>1. r = b + Larger(d, rl + cs) /\ x = Smaller(rl + cl, d)
      BY <1>3, <1>4, <1>6, <2>1
    <3>2. cs <= cl /\ (cs = cl \/ rl + cl <= d)
      BY <1>4, <2>1
    <3> QED BY <3>1, <3>2 DEF Larger, Smaller
  <2> QED BY <1>5, <2>1, <2>2
<1>8. /\ buf' \in Seq(1..Len(input)) /\ Len(buf') = data_len - x /\ Behind(buf', E)
  <2>1. buf' = SubSeq(buf, x + 1, data_len)
    BY <1>1, <1>6
  <2>2. data_len <= Len(buf) /\ Len(input) \in Nat /\ Base \in Nat /\ data_len \in Nat
    BY <1>3
  <2>3. buf \in Seq(1..Len(input)) /\ Behind(buf, Base)
    BY <1>3
  <2>4. /\ SubSeq(buf, x + 1, data_len) \in Seq(1..Len(input))
        /\ Len(SubSeq(buf, x + 1, data_len)) = IF x < data_len THEN data_len - x ELSE 0
        /\ Behind(SubSeq(buf, x + 1, data_len), Base + x)
    <3> HIDE DEF Base, data_len
    <3> QED BY <2>2, <2>3, BufferPart
  <2>5. Len(buf') = data_len - x
    <3>1. Len(buf') = IF x < data_len THEN data_len - x ELSE 0
      BY <2>1, <2>4
    <3> HIDE DEF data_len
    <3> QED BY <1>3, <1>7, <3>1
  <2>6. Behind(buf', E)
    <3>1. CASE x < data_len
      BY <1>7, <2>1, <2>4, <3>1
    <3>2. CASE ~(x < data_len)
      <4>1. Len(buf') = 0
        BY <2>1, <2>4, <3>2
      <4> QED BY <4>1 DEF Behind
    <3> QED BY <3>1, <3>2
  <2> QED BY <2>1, <2>4, <2>5, <2>6
<1>9. data_len' = data_len - x /\ Base' = E
  <2>1. data_len' = data_len - x
    BY <1>8 DEF data_len
  <2>2. Passed' = 0
    BY <1>1 DEF Passed, NoRequest
  <2>3. Base' = received - Larger(data_len - x, 0)
    BY <1>1, <2>1, <2>2 DEF Base
  <2>4. Larger(data_len - x, 0) = data_len - x
    BY <1>7 DEF Larger
  <2> QED BY <1>7, <2>1, <2>3, <2>4
<1>10. Ends(input, E, Current)
  <2>1. BodyLength /\ ChunkPlaces
    BY DEF ConnInv
  <2>2. conn.is_chunked \in {0, 4}
    BY <1>1 DEF Discardable
  <2>3. CASE conn.is_chunked = 4
    <3>1. Ends(input, Here, Current) /\ cs = cl
      BY <1>2, <1>4, <2>1, <2>3 DEF BodyLength, ChunkPlaces
    <3>2. Here = Base + (rl + cs)
      BY <1>4 DEF Here
    <3>3. PICK b \in Nat : b = Base
      BY <1>3
    <3>4. b + (rl + cl) = b + rl + cl
      OBVIOUS
    <3>5. Here = E
      BY <1>5, <3>1, <3>2, <3>3, <3>4
    <3> QED BY <3>1, <3>5
  <2>4. CASE conn.is_chunked = 0
    <3>1. HeaderAt(input, Base + rl, Current, cl)
      BY <1>2, <1>4, <2>1, <2>4 DEF BodyLength
    <3>2. PICK e \in DOMAIN input : e = Base + rl
      <4>1. Base + rl \in 1..Len(input)
        <5> HIDE DEF Base, data_len
        <5> QED BY <1>3, <1>4, SMTT(60)
      <4> QED BY <1>3, <4>1
    <3>3. Ends(input, e + cl, Current)
      <4> HIDE DEF Current
      <4> QED BY <1>3, <3>1, <3>2, BodyEnds
    <3> QED BY <1>5, <3>2, <3>3
  <2> QED BY <2>2, <2>3, <2>4
<1>11. ConnTypeOK'
  <2>1. ConnTypeOK
    BY DEF ConnInv
  <2>2. conn' \in [request_len : Nat, content_len : Int, consumed : Nat, is_chunked : 0..4]
    BY <1>1 DEF NoRequest
  <2>3. WorkTypes'
    BY <1>1, <2>1, <2>2 DEF ConnTypeOK, WorkTypes
  <2>4. data_len' <= buf_size
    <3>1. PICK d \in Nat : d = data_len
      BY <1>3
    <3>2. buf_size \in Nat /\ d <= buf_size /\ d - x <= buf_size
      BY <1>3, <3>1, ConnectionAssumption
    <3> QED BY <1>9, <3>1, <3>2
  <2>5. WellFramed(input') /\ input' \in Inputs /\ handled' \in Nat /\ received' \in 0..Len(input')
    BY <1>1, <2>1 DEF ConnTypeOK
  <2> QED BY <1>1, <1>8, <2>3, <2>4, <2>5 DEF ConnTypeOK
<1>12. BufferPlaces'
  <2>1. Behind(buf', Base')
    BY <1>8, <1>9
  <2>2. conn'.request_len <= data_len'
    BY <1>1, <1>7, <1>9 DEF NoRequest
  <2> QED BY <1>9, <2>1, <2>2 DEF BufferPlaces
<1>13. MessageStarts'
  <2>1. Ends(input', Base', handled')
    BY <1>1, <1>3, <1>9, <1>10
  <2> QED BY <2>1 DEF MessageStarts
<1>14. BodyLength' /\ ChunkPlaces'
  BY <1>1 DEF BodyLength, ChunkPlaces, InRequest
<1>15. BodyPlaces'
  <2>1. IsBody(input', Current', <<>>)
    BY DEF IsBody
  <2> QED BY <1>1, <2>1 DEF BodyPlaces, InRequest
<1> QED BY <1>11, <1>12, <1>13, <1>14, <1>15 DEF ConnInv

\* The invariant says nothing of stop_flag.
LEMMA SameConnection ==
    ASSUME ConnInv,
           UNCHANGED <<input, received, buf, conn, pc, call, line, body, result, handled>>
    PROVE  ConnInv'
<1>1. data_len' = data_len /\ Passed' = Passed /\ Current' = Current
  BY DEF data_len, Passed, Current
<1>2. Base' = Base
  BY <1>1 DEF Base
<1>3. Here' = Here
  BY <1>1, <1>2 DEF Here
<1>4. ConnTypeOK' /\ BufferPlaces' /\ MessageStarts'
  BY <1>1, <1>2 DEF ConnInv, ConnTypeOK, WorkTypes, BufferPlaces, MessageStarts
<1>5. BodyLength'
  BY <1>1, <1>2, <1>3 DEF ConnInv, BodyLength, InRequest
<1>6. ChunkPlaces' /\ BodyPlaces'
  BY <1>1, <1>3 DEF ConnInv, ChunkPlaces, BodyPlaces, InRequest
<1> QED BY <1>4, <1>5, <1>6 DEF ConnInv

\* The invariant holds at first.
LEMMA ConnInit ==
    ASSUME \A i \in Inputs : WellFramed(i), Init
    PROVE  ConnInv
<1>1. /\ input \in Inputs /\ received = 0 /\ buf = <<>> /\ conn = NoRequest /\ pc = "read"
      /\ call = [left |-> 0, read |-> 0, by |-> "handler"]
      /\ line = [size |-> 0, ext |-> FALSE, left |-> 0] /\ body = <<>> /\ handled = 0
  BY DEF Init
<1>2. input \in Seq(Token) /\ WellFramed(input) /\ Len(input) \in Nat /\ buf_size \in Nat
      /\ DOMAIN input = 1..Len(input)
  BY <1>1, ConnectionAssumption
<1>3. data_len = 0 /\ Passed = 0
  BY <1>1 DEF data_len, Passed, NoRequest
<1>4. Base = 0
  BY <1>1, <1>3 DEF Base, Larger
<1>5. ConnTypeOK
  BY <1>1, <1>2, <1>3 DEF ConnTypeOK, WorkTypes, NoRequest
<1>6. BufferPlaces
  BY <1>1, <1>3, <1>4 DEF BufferPlaces, Behind, NoRequest
<1>7. MessageStarts
  <2>1. ASSUME NEW p \in DOMAIN input
        PROVE  /\ p <= 0 => input[p].msg <= 0
               /\ p > 0 => input[p].msg > 0
               /\ p = 0 + 1 => input[p].msg = 0 + 1
    <3>1. input[p] \in Token /\ p \in Nat /\ p > 0
      BY <1>2
    <3>2. input[p].msg \in Nat \ {0}
      BY <3>1 DEF Token
    <3>3. p = 1 => input[p].msg = 1
      <4>1. input # <<>>
        BY <1>2
      <4> QED BY <1>2, <4>1 DEF WellFramed
    <3> QED BY <3>1, <3>2, <3>3
  <2> QED BY <1>1, <1>4, <2>1 DEF MessageStarts, Ends
<1>8. BodyLength /\ ChunkPlaces
  BY <1>1 DEF BodyLength, ChunkPlaces, InRequest
<1>9. BodyPlaces
  <2>1. IsBody(input, Current, <<>>)
    BY DEF IsBody
  <2> QED BY <1>1, <2>1 DEF BodyPlaces, InRequest
<1> QED BY <1>5, <1>6, <1>7, <1>8, <1>9 DEF ConnInv

\* Every step keeps the invariant.
LEMMA ConnNext ==
    ASSUME ConnInv, [Next]_vars
    PROVE  ConnInv'
<1>1. CASE WorkerStep
  BY <1>1, ReadMessageStep, ClosingStep, GetRequestStep, MgReadStep, ReadBodyStep,
     ChunkedReturnStep, ChunkDataStep, ChunkEndStep, ChunkSizeStep, ChunkLineStep, TrailerStep,
     HandlerReturnsStep, KeepAliveStep DEF WorkerStep
<1>2. CASE Stop \/ Closed \/ UNCHANGED vars
  <2>1. UNCHANGED <<input, received, buf, conn, pc, call, line, body, result, handled>>
    BY <1>2 DEF Stop, Closed, vars
  <2> QED BY <2>1, SameConnection
<1> QED BY <1>1, <1>2 DEF Next

\* The invariant implies the properties.
LEMMA ConnImplies ==
    ASSUME ConnInv
    PROVE  InSync /\ BodyDelivered
<1>0. /\ input \in Seq(Token) /\ Len(input) \in Nat /\ DOMAIN input = 1..Len(input)
      /\ Base \in Nat /\ handled \in Nat /\ Current = handled + 1 /\ Current \in Nat
      /\ received \in Nat /\ data_len \in Nat /\ received <= Len(input)
  BY ConnFacts DEF Current
<1>1. InSync
  <2>1. SUFFICES ASSUME pc = "read"
                 PROVE  /\ received - data_len + 1 = Start(Current)
                        /\ \A k \in 1..data_len : buf[k] = received - data_len + k
    BY <1>0 DEF InSync
  <2>2. received = Base + data_len /\ Base = received - data_len
    BY <2>1, Reading
  <2>3. \A k \in 1..data_len : buf[k] = received - data_len + k
    <3>1. Behind(buf, Base)
      BY DEF ConnInv, BufferPlaces
    <3>2. \A k \in 1..data_len : buf[k] = Base + k
      BY <3>1, Zenon DEF Behind, data_len
    <3> QED BY <2>2, <3>2
  <2>4. Ends(input, Base, handled)
    BY <2>1 DEF ConnInv, MessageStarts
  <2>5. PICK b \in Nat : b = Base /\ b <= Len(input)
    BY <1>0, <2>2
  <2>6. \A p \in DOMAIN input : /\ p <= b => input[p].msg <= handled
                                /\ p = b + 1 => input[p].msg = Current
    BY <1>0, <2>4, <2>5 DEF Ends
  <2>7. ASSUME NEW p \in DOMAIN input, input[p].msg = Current PROVE b + 1 <= p
    <3>1. p \in Nat /\ ~(p <= b)
      BY <1>0, <2>6, <2>7
    <3> QED BY <3>1
  <2>8. Start(Current) = b + 1
    <3>1. CASE \E p \in DOMAIN input : input[p].msg = Current
      <4>1. PICK q \in DOMAIN input : q = b + 1
        BY <1>0, <2>7, <3>1
      <4>2. input[q].msg = Current
        BY <2>6, <4>1
      <4> DEFINE First(p) == /\ input[p].msg = Current
                             /\ \A r \in DOMAIN input : input[r].msg = Current => p <= r
      <4>3. First(q)
        BY <2>7, <4>1, <4>2
      <4>4. \A p \in DOMAIN input : First(p) => p = q
        <5>1. \A p \in DOMAIN input : First(p) => p <= q /\ q <= p
          BY <2>7, <4>1, <4>2
        <5> QED BY <1>0, <5>1
      <4>5. Start(Current) = CHOOSE p \in DOMAIN input : First(p)
        BY <3>1 DEF Start
      <4> HIDE DEF First
      <4>6. (CHOOSE p \in DOMAIN input : First(p)) = q
        BY <4>3, <4>4
      <4> QED BY <4>1, <4>5, <4>6
    <3>2. CASE ~ \E p \in DOMAIN input : input[p].msg = Current
      <4>1. b + 1 \notin DOMAIN input
        BY <2>6, <3>2, SMTT(60)
      <4>2. b = Len(input)
        <5>1. PICK l \in Nat : l = Len(input) /\ b + 1 \notin 1..l /\ b <= l
          BY <1>0, <2>5, <4>1
        <5>2. b = l
          BY <5>1
        <5> QED BY ONLY <5>1, <5>2, Zenon
      <4>3. Start(Current) = Len(input) + 1
        BY <3>2 DEF Start
      <4> QED BY <4>2, <4>3
    <3> QED BY <3>1, <3>2
  <2> QED BY <2>2, <2>3, <2>5, <2>8
<1>2. BodyExact
  <2>1. SUFFICES ASSUME pc # "closed"
                 PROVE  \A k \in 1..Len(body) :
                           /\ body[k] \in Data(Current)
                           /\ Cardinality({p \in Data(Current) : p <= body[k]}) = k
    BY <1>0 DEF BodyExact
  <2>2. IsBody(input, Current, body)
    BY <2>1 DEF ConnInv, BodyPlaces
  <2> QED BY <2>2 DEF IsBody, UpTo, DataOf, Data
<1>3. EndIsComplete
  <2>1. SUFFICES ASSUME InRequest, conn.is_chunked = 4
                 PROVE  /\ Len(body) = Cardinality(Data(Current)) /\ conn.consumed = conn.content_len
                        /\ result # "error"
    BY <1>0 DEF EndIsComplete, InRequest
  <2>2. result # "error" /\ Ends(input, Here, Current) /\ conn.consumed = conn.content_len
    BY <2>1 DEF ConnInv, BodyLength, ChunkPlaces
  <2>3. Len(body) = Cardinality(UpTo(input, Current, Here))
    BY <2>1 DEF ConnInv, BodyPlaces, InRequest
  <2>4. UpTo(input, Current, Here) = Data(Current)
    <3>1. ASSUME NEW p \in DOMAIN input, input[p].msg = Current PROVE p <= Here
      <4>1. Here \in Nat /\ p \in Nat
        BY <1>0, ConnFacts
      <4>2. ~(p > Here)
        <5>1. p > Here => input[p].msg > Current
          BY <2>2, <3>1 DEF Ends
        <5> QED BY <1>0, <3>1, <5>1
      <4> QED BY <4>1, <4>2
    <3> QED BY <3>1 DEF UpTo, DataOf, Data
  <2> QED BY <2>2, <2>3, <2>4
<1> QED BY <1>1, <1>2, <1>3 DEF BodyDelivered

\* In every behaviour a request is read from where the one before it ends, for any sequence of
\* well framed messages, any sizes of the buffer and of reads, whatever the handlers read, and
\* wherever a client or a stop breaks off (process_new_connection, mg_read).
THEOREM RequestsInSync ==
    ASSUME \A i \in Inputs : WellFramed(i)
    PROVE  Spec => []InSync
<1>1. Init => ConnInv
  BY ConnInit
<1>2. ConnInv /\ [Next]_vars => ConnInv'
  BY ConnNext
<1>3. ConnInv => InSync
  BY ConnImplies
<1> QED BY <1>1, <1>2, <1>3, PTL DEF Spec

\* In every behaviour mg_read delivers the body of its request from its beginning, in order and
\* without framing, and tells its end when all of it was delivered (mg_read, mg_read_inner).
THEOREM BodiesAreDelivered ==
    ASSUME \A i \in Inputs : WellFramed(i)
    PROVE  Spec => []BodyDelivered
<1>1. Init => ConnInv
  BY ConnInit
<1>2. ConnInv /\ [Next]_vars => ConnInv'
  BY ConnNext
<1>3. ConnInv => BodyDelivered
  BY ConnImplies
<1> QED BY <1>1, <1>2, <1>3, PTL DEF Spec

-----------------------------------------------------------------------------
(* WebSocket *)

WsByte   == Nat \X Nat
WsPhases == {"idle", "loop", "frame", "overflow", "reply", "callback", "close"}
WsStates == [phase : WsPhases, must_close : BOOLEAN, stop_flag : BOOLEAN,
             in_websocket_handling : BOOLEAN, ping_count : Nat]
Placed   == [op : Opcodes, size : Nat, place : Nat, header_len : {2, 3}]
MessagesRead == [op : Opcodes \cup {"none"}, want : Nat, bytes : Seq(WsByte), frame : Nat]

WsTypeOK ==
    /\ ws \in WsStates
    /\ stream \in Seq(Placed) /\ wire \in Seq(WsByte)
    /\ pulled \in Nat /\ pulled <= Len(wire)
    /\ queue \in Seq(WsByte) /\ data \in MessagesRead /\ wsHandled \in Nat

\* Where a frame ends.
EndOf(n) == IF n = 0 THEN 0 ELSE stream[n].place + stream[n].header_len + stream[n].size

\* The frames stand one behind the other.
StreamLaid ==
    /\ Len(wire) = EndOf(Len(stream))
    /\ \A n \in 1..Len(stream) :
          /\ stream[n].place = EndOf(n - 1) /\ EndOf(n) <= Len(wire)
          /\ \A k \in 1..(stream[n].header_len + stream[n].size) :
                wire[stream[n].place + k] = <<n, k>>

\* The queue is what was received behind this place.
QueueAt(place) ==
    /\ Len(queue) = pulled - place
    /\ \A i \in 1..Len(queue) : queue[i] = wire[place + i]

\* The message in the overflow case is the start of the next frame's payload, and all that
\* was received.
MessageAt(n) ==
    /\ data.frame = n /\ data.want = stream[n].size
    /\ Len(data.bytes) <= data.want
    /\ pulled = stream[n].place + stream[n].header_len + Len(data.bytes)
    /\ \A i \in 1..Len(data.bytes) : data.bytes[i] = <<n, stream[n].header_len + i>>

\* Where the reader is in the stream.
ReaderPlaces ==
    /\ ws.phase = "idle" => /\ stream = <<>> /\ wire = <<>> /\ pulled = 0 /\ queue = <<>>
                            /\ wsHandled = 0
    /\ ws.phase \in {"loop", "reply"} => wsHandled <= Len(stream) /\ QueueAt(EndOf(wsHandled))
    /\ ws.phase = "frame" => wsHandled < Len(stream) /\ QueueAt(EndOf(wsHandled + 1))
    /\ ws.phase = "overflow" => wsHandled < Len(stream) /\ MessageAt(wsHandled + 1)

ReadInv == WsTypeOK /\ StreamLaid /\ ReaderPlaces /\ FrameExact

\* The writer that holds the mutex is the one inside of a frame; the worker writes only its
\* replies.
WritersInv ==
    /\ writer \in [WsWriters \cup {0} -> {"idle", "lock", "header", "data"}]
    /\ \A w \in WsWriters \cup {0} : writer[w] \in {"header", "data"} <=> mutex = w
    /\ ws.phase # "reply" => writer[0] = "idle"
    /\ FramesWhole

WsInv == ReadInv /\ WritersInv

\* No frame, and nobody writes.
LEMMA WsInitInv == WsInit => WsInv
<1> SUFFICES ASSUME WsInit PROVE WsInv
  OBVIOUS
<1>1. ws \in WsStates /\ ws.phase = "idle"
  BY DEF WsInit, WsStates, WsPhases
<1>2. data \in MessagesRead
  BY DEF WsInit, MessagesRead, NoData
<1>3. /\ stream = <<>> /\ wire = <<>> /\ queue = <<>> /\ pulled = 0 /\ wsHandled = 0
      /\ stream \in Seq(Placed) /\ wire \in Seq(WsByte) /\ queue \in Seq(WsByte)
      /\ Len(wire) = 0 /\ Len(stream) = 0
  BY DEF WsInit
<1>4. ReadInv
  BY <1>1, <1>2, <1>3 DEF ReadInv, WsTypeOK, StreamLaid, EndOf, ReaderPlaces, FrameExact
<1>5. WritersInv
  BY WebSocketAssumption DEF WsInit, WritersInv, FramesWhole
<1> QED BY <1>4, <1>5 DEF WsInv

\* The worker moves on without the stream, or leaves the loop.
LEMMA ReaderMoves ==
    ASSUME ReadInv, UNCHANGED inVars, ws' \in WsStates,
           \/ ws'.phase = ws.phase
           \/ ws'.phase \in {"callback", "close"}
           \/ ws.phase = "idle" /\ ws'.phase = "loop"
           \/ {ws.phase, ws'.phase} = {"loop", "reply"}
    PROVE  ReadInv'
<1>1. WsTypeOK' /\ StreamLaid'
  BY DEF ReadInv, WsTypeOK, inVars, StreamLaid, EndOf
<1>2. CASE ws'.phase = ws.phase
  BY <1>1, <1>2 DEF ReadInv, inVars, ReaderPlaces, QueueAt, MessageAt, EndOf, FrameExact, Payload
<1>3. CASE ws'.phase \in {"callback", "close"}
  BY <1>1, <1>3 DEF ReadInv, ReaderPlaces, FrameExact
<1>4. CASE ws.phase = "idle" /\ ws'.phase = "loop"
  <2>1. Len(stream) = 0 /\ Len(queue) = 0
    BY <1>4 DEF ReadInv, ReaderPlaces
  <2> QED BY <1>1, <1>4, <2>1 DEF ReadInv, inVars, ReaderPlaces, FrameExact, QueueAt, EndOf
<1>5. CASE {ws.phase, ws'.phase} = {"loop", "reply"}
  <2>1. ws.phase \in {"loop", "reply"} /\ ws'.phase \in {"loop", "reply"}
    BY <1>5
  <2>2. wsHandled' <= Len(stream') /\ QueueAt(EndOf(wsHandled))'
    BY <2>1 DEF ReadInv, inVars, ReaderPlaces, QueueAt, EndOf
  <2> QED BY <1>1, <2>1, <2>2 DEF ReadInv, ReaderPlaces, FrameExact
<1> QED BY <1>2, <1>3, <1>4, <1>5

\* The same for the writers.
LEMMA WritersStay ==
    ASSUME WritersInv, UNCHANGED outVars, ws'.phase # "reply" => writer[0] = "idle"
    PROVE  WritersInv'
BY DEF WritersInv, outVars, FramesWhole

\* The fields of the connection's state after a step of one of its threads.
LEMMA StateFields ==
    ASSUME ws \in WsStates, NEW p \in WsPhases, NEW b \in BOOLEAN, NEW n \in Nat
    PROVE  /\ [ws EXCEPT !.phase = p] \in WsStates /\ [ws EXCEPT !.phase = p].phase = p
           /\ Leave(ws) \in WsStates /\ Leave(ws).phase = "callback"
           /\ LET w == [ws EXCEPT !.phase = p, !.in_websocket_handling = b, !.ping_count = n]
              IN  w \in WsStates /\ w.phase = p
           /\ LET w == [ws EXCEPT !.phase = p, !.must_close = b]
              IN  w \in WsStates /\ w.phase = p
           /\ LET w == [ws EXCEPT !.ping_count = n, !.phase = p]
              IN  w \in WsStates /\ w.phase = p
           /\ LET w == [ws EXCEPT !.phase = p, !.ping_count = n]
              IN  w \in WsStates /\ w.phase = p
           /\ LET w == [ws EXCEPT !.ping_count = n]
              IN  w \in WsStates /\ w.phase = ws.phase
           /\ LET w == [ws EXCEPT !.must_close = b]
              IN  w \in WsStates /\ w.phase = ws.phase
           /\ LET w == [ws EXCEPT !.stop_flag = b]
              IN  w \in WsStates /\ w.phase = ws.phase
<1>1. /\ [ws EXCEPT !.phase = p] \in WsStates /\ [ws EXCEPT !.phase = p].phase = p
  BY DEF WsStates, WsPhases
<1>2. Leave(ws) \in WsStates /\ Leave(ws).phase = "callback"
  BY DEF WsStates, WsPhases, Leave
<1>3. LET w == [ws EXCEPT !.phase = p, !.in_websocket_handling = b, !.ping_count = n]
      IN  w \in WsStates /\ w.phase = p
  BY DEF WsStates
<1>4. LET w == [ws EXCEPT !.phase = p, !.must_close = b] IN w \in WsStates /\ w.phase = p
  BY DEF WsStates
<1>5. LET w == [ws EXCEPT !.ping_count = n, !.phase = p] IN w \in WsStates /\ w.phase = p
  BY DEF WsStates
<1>6. LET w == [ws EXCEPT !.phase = p, !.ping_count = n] IN w \in WsStates /\ w.phase = p
  BY DEF WsStates
<1>7. LET w == [ws EXCEPT !.ping_count = n] IN w \in WsStates /\ w.phase = ws.phase
  BY DEF WsStates
<1>8. LET w == [ws EXCEPT !.must_close = b] IN w \in WsStates /\ w.phase = ws.phase
  BY DEF WsStates
<1>9. LET w == [ws EXCEPT !.stop_flag = b] IN w \in WsStates /\ w.phase = ws.phase
  BY DEF WsStates
<1> QED BY <1>1, <1>2, <1>3, <1>4, <1>5, <1>6, <1>7, <1>8, <1>9, Zenon

\* A piece of a sequence of bytes.
LEMMA Piece ==
    ASSUME NEW s \in Seq(WsByte), NEW a \in Nat, NEW b \in Nat, b <= Len(s)
    PROVE  /\ SubSeq(s, a + 1, b) \in Seq(WsByte)
           /\ Len(SubSeq(s, a + 1, b)) = IF a < b THEN b - a ELSE 0
           /\ \A i \in 1..(b - a) : SubSeq(s, a + 1, b)[i] = s[a + i]
<1>1. \A i \in (a + 1)..b : s[i] \in WsByte
  <2>1. SUFFICES ASSUME NEW i \in (a + 1)..b PROVE s[i] \in WsByte
    OBVIOUS
  <2>2. i \in 1..Len(s)
    OBVIOUS
  <2> QED BY <2>2, ElementOfSeq
<1>2. a + 1 \in Int /\ b \in Int
  OBVIOUS
<1>3. /\ SubSeq(s, a + 1, b) \in Seq(WsByte)
      /\ Len(SubSeq(s, a + 1, b)) = IF a + 1 <= b THEN b - (a + 1) + 1 ELSE 0
      /\ \A i \in 1..(b - (a + 1) + 1) : SubSeq(s, a + 1, b)[i] = s[a + 1 + i - 1]
  BY <1>1, <1>2, SubSeqProperties
<1>4. \A i \in 1..(b - a) : SubSeq(s, a + 1, b)[i] = s[a + i]
  <2>1. b - (a + 1) + 1 = b - a
    OBVIOUS
  <2>2. ASSUME NEW i \in 1..(b - a) PROVE a + 1 + i - 1 = a + i
    OBVIOUS
  <2> QED BY <1>3, <2>1, <2>2
<1>5. (IF a + 1 <= b THEN b - (a + 1) + 1 ELSE 0) = IF a < b THEN b - a ELSE 0
  OBVIOUS
<1> QED BY <1>3, <1>4, <1>5

\* A message becomes a frame.
LEMMA FrameFields ==
    ASSUME NEW m \in WsMessages, NEW k \in Nat
    PROVE  NewFrame(m, k) \in Placed /\ NewFrame(m, k).place = k
<1>1. m \in [op : Opcodes, size : Nat]
  BY WebSocketAssumption
<1>2. NewFrame(m, k).header_len \in {2, 3} /\ NewFrame(m, k).place = k
  BY DEF NewFrame
<1>3. NewFrame(m, k) \in Placed
  <2>1. m.op \in Opcodes /\ m.size \in Nat /\ (IF m.size > 1 THEN 3 ELSE 2) \in {2, 3}
    BY <1>1
  <2> QED BY <2>1 DEF NewFrame, Placed
<1> QED BY <1>2, <1>3

\* The peer's next frame stands behind the others.
LEMMA PeerInv == ReadInv /\ PeerSends => ReadInv'
<1> SUFFICES ASSUME ReadInv, PeerSends PROVE ReadInv'
  OBVIOUS
<1>1. PICK m \in WsMessages : FrameSent(NewFrame(m, Len(wire)))
  BY DEF PeerSends
<1>t. /\ stream \in Seq(Placed) /\ wire \in Seq(WsByte) /\ Len(wire) \in Nat
      /\ Len(stream) \in Nat
  BY DEF ReadInv, WsTypeOK
<1>2. PICK f \in Placed : f.place = Len(wire) /\ FrameSent(f)
  BY <1>1, <1>t, FrameFields
<1>n. PICK n \in Nat : n = Len(stream) + 1
  BY <1>t
<1> DEFINE new == FrameBytes(f, n)
<1>3. stream' = Append(stream, f) /\ wire' = wire \o new
  BY <1>2, <1>n DEF FrameSent
<1>4. f.header_len \in {2, 3} /\ f.size \in Nat
  BY <1>2 DEF Placed
<1>5. /\ new \in Seq(WsByte) /\ Len(new) = f.header_len + f.size
      /\ \A k \in 1..(f.header_len + f.size) : new[k] = <<n, k>>
  <2> DEFINE l == f.header_len + f.size
  <2>1. l \in Nat /\ n \in Nat
    BY <1>4
  <2> HIDE DEF l
  <2>2. \A k \in 1..l : <<n, k>> \in WsByte
    BY <2>1 DEF WsByte
  <2>3. [k \in 1..l |-> <<n, k>>] \in [1..l -> WsByte]
    BY <2>2
  <2>4. new = [k \in 1..l |-> <<n, k>>]
    BY DEF l, FrameBytes
  <2>5. ASSUME NEW s \in [1..l -> WsByte] PROVE s \in Seq(WsByte) /\ Len(s) = l
    BY <2>1
  <2> QED BY <2>3, <2>4, <2>5 DEF l
<1> HIDE DEF new
<1>6. /\ wire' \in Seq(WsByte) /\ Len(wire') = Len(wire) + f.header_len + f.size
      /\ \A i \in 1..Len(wire) : wire'[i] = wire[i]
      /\ \A k \in 1..(f.header_len + f.size) : wire'[Len(wire) + k] = <<n, k>>
  <2>1. /\ wire' \in Seq(WsByte) /\ Len(wire') = Len(wire) + Len(new)
        /\ \A i \in 1..Len(wire) + Len(new) :
              wire'[i] = IF i <= Len(wire) THEN wire[i] ELSE new[i - Len(wire)]
    BY <1>3, <1>5, <1>t, ConcatProperties
  <2>2. \A i \in 1..Len(wire) : wire'[i] = wire[i]
    BY <1>4, <1>5, <1>t, <2>1
  <2>3. ASSUME NEW k \in 1..(f.header_len + f.size) PROVE wire'[Len(wire) + k] = <<n, k>>
    <3>1. Len(wire) + k \in 1..Len(wire) + Len(new) /\ ~(Len(wire) + k <= Len(wire))
          /\ Len(wire) + k - Len(wire) = k
      BY <1>4, <1>5, <1>t
    <3> QED BY <1>5, <2>1, <3>1, SMTT(40)
  <2>4. Len(wire') = Len(wire) + f.header_len + f.size
    <3>1. Len(wire') = Len(wire) + (f.header_len + f.size)
      BY <1>5, <2>1
    <3>2. f.header_len \in Nat /\ f.size \in Nat /\ Len(wire) \in Nat
      BY <1>4, <1>t
    <3> QED BY ONLY <3>1, <3>2
  <2> QED BY <2>1, <2>2, <2>3, <2>4
<1>7. /\ stream' \in Seq(Placed) /\ Len(stream') = n /\ stream'[n] = f
      /\ \A i \in 1..Len(stream) : stream'[i] = stream[i]
  BY <1>2, <1>3, <1>n, <1>t
<1>8. /\ ws' = ws /\ pulled' = pulled /\ queue' = queue /\ data' = data /\ wsHandled' = wsHandled
      /\ ws.phase = "loop"
  BY DEF PeerSends
<1>9. \A i \in 0..Len(stream) : EndOf(i)' = EndOf(i)
  BY <1>7, <1>t DEF EndOf
<1>10. WsTypeOK'
  BY <1>4, <1>6, <1>7, <1>8, <1>t DEF ReadInv, WsTypeOK
<1>11. StreamLaid'
  <2>1. Len(wire) = EndOf(Len(stream))
    BY DEF ReadInv, StreamLaid
  <2>2. (Len(wire) = EndOf(Len(stream)))'
    BY <1>2, <1>n, <1>4, <1>6, <1>7, <1>t DEF EndOf
  <2>3. ASSUME NEW i \in 1..Len(stream)
        PROVE  /\ stream'[i].place = EndOf(i - 1)' /\ EndOf(i)' <= Len(wire')
               /\ \A k \in 1..(stream'[i].header_len + stream'[i].size) :
                     wire'[stream'[i].place + k] = <<i, k>>
    <3>1. stream'[i] = stream[i] /\ EndOf(i - 1)' = EndOf(i - 1) /\ EndOf(i)' = EndOf(i)
      <4>1. i - 1 \in 0..Len(stream) /\ i \in 0..Len(stream)
        BY <1>t
      <4> QED BY <1>7, <1>9, <4>1
    <3>2. /\ stream[i].place = EndOf(i - 1) /\ EndOf(i) <= Len(wire) /\ stream[i].place \in Nat
          /\ \A k \in 1..(stream[i].header_len + stream[i].size) :
                wire[stream[i].place + k] = <<i, k>>
          /\ stream[i].header_len \in {2, 3} /\ stream[i].size \in Nat
      <4>1. stream[i] \in Placed
        BY <1>t
      <4> QED BY <4>1 DEF ReadInv, StreamLaid, Placed
    <3>3. ASSUME NEW k \in 1..(stream[i].header_len + stream[i].size)
          PROVE  stream[i].place + k \in 1..Len(wire)
      BY <1>t, <3>2, SMTT(40) DEF EndOf
    <3>4. EndOf(i)' <= Len(wire')
      <4>1. EndOf(i) \in Nat
        BY <3>2, SMTT(40) DEF EndOf
      <4> QED BY <1>4, <1>6, <1>t, <3>1, <3>2, <4>1, SMTT(40)
    <3> QED BY <1>6, <3>1, <3>2, <3>3, <3>4
  <2>4. /\ stream'[n].place = EndOf(n - 1)' /\ EndOf(n)' <= Len(wire')
        /\ \A k \in 1..(stream'[n].header_len + stream'[n].size) :
              wire'[stream'[n].place + k] = <<n, k>>
    <3>1. n - 1 = Len(stream) /\ n - 1 \in 0..Len(stream)
      BY <1>t, <1>n
    <3>2. EndOf(n - 1)' = Len(wire)
      BY <1>9, <2>1, <3>1
    <3>3. EndOf(n)' <= Len(wire')
      BY <1>2, <1>n, <1>4, <1>6, <1>7, <1>t DEF EndOf
    <3> QED BY <1>2, <1>6, <1>7, <3>2, <3>3
  <2>5. ASSUME NEW i \in 1..Len(stream') PROVE i \in 1..Len(stream) \/ i = n
    BY <1>7, <1>n, <1>t
  <2> QED BY <2>2, <2>3, <2>4, <2>5 DEF StreamLaid
<1>12. wsHandled' <= Len(stream') /\ QueueAt(EndOf(wsHandled))'
  <2>1. EndOf(wsHandled) \in Nat /\ wsHandled \in 0..Len(stream)
    <3>1. wsHandled \in Nat /\ wsHandled <= Len(stream)
      BY <1>8 DEF ReadInv, WsTypeOK, ReaderPlaces
    <3>2. CASE wsHandled = 0
      BY <3>2, <1>t DEF EndOf
    <3>3. CASE wsHandled # 0
      <4>1. wsHandled \in 1..Len(stream)
        BY <3>1, <3>3, <1>t
      <4>2. stream[wsHandled] \in Placed
        BY <4>1, <1>t
      <4> QED BY <4>1, <4>2, <3>3, <1>t, SMTT(40) DEF EndOf, Placed
    <3> QED BY <3>2, <3>3
  <2>2. EndOf(wsHandled)' = EndOf(wsHandled)
    <3>1. EndOf(wsHandled') = EndOf(wsHandled)
      BY <1>8
    <3> QED BY <1>8, <1>9, <2>1 DEF EndOf
  <2>3. /\ Len(queue) = pulled - EndOf(wsHandled) /\ Len(queue) \in Nat
        /\ pulled <= Len(wire) /\ pulled \in Nat
        /\ \A i \in 1..Len(queue) : queue[i] = wire[EndOf(wsHandled) + i]
    BY <1>8 DEF ReadInv, WsTypeOK, ReaderPlaces, QueueAt
  <2>4. ASSUME NEW i \in 1..Len(queue) PROVE EndOf(wsHandled) + i \in 1..Len(wire)
    BY <2>1, <2>3, <1>t
  <2>5. QueueAt(EndOf(wsHandled))'
    BY <1>6, <1>8, <2>2, <2>3, <2>4 DEF QueueAt
  <2> QED BY <1>7, <1>8, <1>n, <1>t, <2>1, <2>5
<1> QED BY <1>8, <1>10, <1>11, <1>12 DEF ReadInv, ReaderPlaces, FrameExact

\* A frame of the stream.
LEMMA FrameInStream ==
    ASSUME ReadInv, NEW n \in 1..Len(stream)
    PROVE  /\ stream[n].place \in Nat /\ stream[n].header_len \in {2, 3} /\ stream[n].size \in Nat
           /\ stream[n].op \in Opcodes
           /\ EndOf(n - 1) = stream[n].place
           /\ EndOf(n) = stream[n].place + stream[n].header_len + stream[n].size
           /\ EndOf(n) \in Nat /\ EndOf(n) <= Len(wire)
           /\ \A k \in 1..(stream[n].header_len + stream[n].size) :
                 wire[stream[n].place + k] = <<n, k>>
<1>1. stream \in Seq(Placed) /\ Len(stream) \in Nat
  BY DEF ReadInv, WsTypeOK
<1>2. stream[n] \in Placed
  BY <1>1
<1>3. /\ stream[n].place \in Nat /\ stream[n].header_len \in {2, 3} /\ stream[n].size \in Nat
      /\ stream[n].op \in Opcodes
  BY <1>2 DEF Placed
<1>4. /\ EndOf(n) = stream[n].place + stream[n].header_len + stream[n].size
      /\ EndOf(n) \in Nat
  BY <1>1, <1>3, SMTT(40) DEF EndOf
<1> QED BY <1>3, <1>4 DEF ReadInv, StreamLaid

\* What is in front of the queue when the loop looks at it: the next frame, from its start.
LEMMA FrontOfQueue ==
    ASSUME ReadInv, ws.phase = "loop", Len(queue) # 0
    PROVE  /\ wsHandled + 1 \in 1..Len(stream) /\ queue[1][1] = wsHandled + 1
           /\ pulled = stream[wsHandled + 1].place + Len(queue)
           /\ \A i \in 1..Len(queue) : queue[i] = wire[stream[wsHandled + 1].place + i]
           /\ \A i \in 1..Len(queue) :
                 i <= stream[wsHandled + 1].header_len + stream[wsHandled + 1].size =>
                     queue[i] = <<wsHandled + 1, i>>
<1>1. /\ wsHandled \in Nat /\ wsHandled <= Len(stream) /\ Len(stream) \in Nat /\ Len(wire) \in Nat
      /\ pulled \in Nat /\ pulled <= Len(wire) /\ Len(queue) \in Nat
      /\ Len(queue) = pulled - EndOf(wsHandled)
      /\ \A i \in 1..Len(queue) : queue[i] = wire[EndOf(wsHandled) + i]
      /\ Len(wire) = EndOf(Len(stream))
  BY DEF ReadInv, WsTypeOK, ReaderPlaces, QueueAt, StreamLaid
<1>2. wsHandled # Len(stream)
  <2> SUFFICES ASSUME wsHandled = Len(stream) PROVE FALSE
    OBVIOUS
  <2>1. EndOf(wsHandled) = Len(wire)
    BY <1>1
  <2> QED BY <1>1, <2>1
<1>n. PICK n \in Nat : n = wsHandled + 1
  BY <1>1
<1>3. n \in 1..Len(stream) /\ n - 1 = wsHandled
  BY <1>1, <1>2, <1>n
<1>4. /\ stream[n].place \in Nat /\ stream[n].header_len \in {2, 3} /\ stream[n].size \in Nat
      /\ EndOf(n - 1) = stream[n].place
      /\ \A k \in 1..(stream[n].header_len + stream[n].size) : wire[stream[n].place + k] = <<n, k>>
  BY <1>3, FrameInStream
<1>5. EndOf(wsHandled) = stream[n].place
  BY <1>3, <1>4
<1>6. pulled = stream[n].place + Len(queue)
  BY <1>1, <1>4, <1>5
<1>7. \A i \in 1..Len(queue) : queue[i] = wire[stream[n].place + i]
  BY <1>1, <1>5
<1>8. \A i \in 1..Len(queue) : i <= stream[n].header_len + stream[n].size => queue[i] = <<n, i>>
  <2>1. PICK l \in Nat : l = stream[n].header_len + stream[n].size
    BY <1>4
  <2>2. \A k \in 1..l : wire[stream[n].place + k] = <<n, k>>
    BY <1>4, <2>1
  <2>3. \A i \in 1..Len(queue) : i <= l => i \in 1..l
    BY <1>1
  <2> QED BY <1>7, <2>1, <2>2, <2>3
<1>9. queue[1][1] = n
  <2>1. 1 \in 1..Len(queue) /\ 1 <= stream[n].header_len + stream[n].size
    <3>1. stream[n].header_len \in Nat /\ stream[n].header_len >= 2 /\ stream[n].size \in Nat
      BY <1>4
    <3>2. Len(queue) \in Nat /\ Len(queue) # 0
      BY <1>1
    <3> QED BY ONLY <3>1, <3>2
  <2>2. queue[1] = <<n, 1>>
    BY <1>8, <2>1
  <2> QED BY <2>2
<1> QED BY <1>n, <1>3, <1>6, <1>7, <1>8, <1>9

\* The message that is read.
LEMMA MessageFields ==
    ASSUME NEW op \in Opcodes, NEW want \in Nat, NEW n \in Nat, NEW bytes \in Seq(WsByte)
    PROVE  LET d == [op |-> op, want |-> want, frame |-> n, bytes |-> bytes]
           IN  /\ d \in MessagesRead
               /\ d.op = op /\ d.want = want /\ d.frame = n /\ d.bytes = bytes
BY DEF MessagesRead

\* A whole frame is taken from the queue.
LEMMA FrameFromQueueInv == ReadInv /\ FrameFromQueue => ReadInv'
<1> SUFFICES ASSUME ReadInv, FrameFromQueue PROVE ReadInv'
  OBVIOUS
<1>1. ws.phase = "loop" /\ HeaderComplete
  BY DEF FrameFromQueue, Looping
<1>t. /\ queue \in Seq(WsByte) /\ Len(queue) \in Nat /\ Len(stream) \in Nat /\ wsHandled \in Nat
      /\ ws \in WsStates
  BY DEF ReadInv, WsTypeOK
<1>2. Len(queue) >= 2 /\ HeaderLen = stream[queue[1][1]].header_len
  <2>1. Len(queue) < 2 => HeaderLen = 0
    BY DEF HeaderLen
  <2> QED BY <1>1, <1>t, <2>1 DEF HeaderComplete, HeaderLen
<1>n. PICK n \in Nat : n = wsHandled + 1
  BY <1>t
<1>3. /\ n \in 1..Len(stream) /\ queue[1][1] = n
      /\ pulled = stream[n].place + Len(queue)
      /\ \A i \in 1..Len(queue) : queue[i] = wire[stream[n].place + i]
      /\ \A i \in 1..Len(queue) : i <= stream[n].header_len + stream[n].size => queue[i] = <<n, i>>
  <2>1. Len(queue) # 0
    BY <1>2, <1>t
  <2> QED BY <1>1, <1>n, <2>1, FrontOfQueue
<1>4. /\ stream[n].place \in Nat /\ stream[n].header_len \in {2, 3} /\ stream[n].size \in Nat
      /\ stream[n].op \in Opcodes
      /\ EndOf(n) = stream[n].place + stream[n].header_len + stream[n].size
      /\ EndOf(n) \in Nat
  BY <1>3, FrameInStream
<1>5. PICK h \in Nat, s \in Nat : h = stream[n].header_len /\ s = stream[n].size /\ h \in {2, 3}
  BY <1>4
<1>6. /\ h + s <= Len(queue)
      /\ data' = [op |-> stream[n].op, want |-> s, frame |-> n, bytes |-> SubSeq(queue, h + 1, h + s)]
      /\ queue' = SubSeq(queue, h + s + 1, Len(queue))
      /\ ws' = [ws EXCEPT !.phase = "frame"]
      /\ UNCHANGED <<stream, wire, pulled, wsHandled>>
  BY <1>2, <1>3, <1>5 DEF FrameFromQueue
<1>7. PICK b \in Seq(WsByte) : /\ b = SubSeq(queue, h + 1, h + s) /\ Len(b) = s
                               /\ \A i \in 1..s : b[i] = <<n, h + i>>
  <2>1. PICK c \in Nat : c = h + s
    OBVIOUS
  <2>2. c <= Len(queue) /\ queue \in Seq(WsByte)
    BY <1>6, <1>t, <2>1
  <2>4. /\ SubSeq(queue, h + 1, c) \in Seq(WsByte)
        /\ Len(SubSeq(queue, h + 1, c)) = IF h < c THEN c - h ELSE 0
        /\ \A i \in 1..(c - h) : SubSeq(queue, h + 1, c)[i] = queue[h + i]
    BY <2>2, Piece
  <2>5. (IF h < c THEN c - h ELSE 0) = s /\ c - h = s
    BY <2>1
  <2>3. \A i \in 1..s : queue[h + i] = <<n, h + i>>
    <3>1. ASSUME NEW i \in 1..s PROVE h + i \in 1..Len(queue) /\ h + i <= h + s
      BY <1>6, <1>t
    <3> QED BY <1>3, <1>5, <3>1
  <2> QED BY <2>1, <2>3, <2>4, <2>5
<1>8. /\ data' \in MessagesRead /\ data'.frame = n /\ data'.bytes = b
  <2>1. data' = [op |-> stream[n].op, want |-> s, frame |-> n, bytes |-> b]
    BY <1>6, <1>7
  <2> QED BY <1>4, <2>1, MessageFields
<1>9. ws' \in WsStates /\ ws'.phase = "frame"
  <2>1. "frame" \in WsPhases /\ TRUE \in BOOLEAN /\ 0 \in Nat
    BY DEF WsPhases
  <2> QED BY <1>6, <1>t, <2>1, StateFields, Zenon
<1>10. /\ queue' \in Seq(WsByte) /\ Len(queue') = pulled - EndOf(n)
       /\ \A i \in 1..Len(queue') : queue'[i] = wire[EndOf(n) + i]
  <2>1. PICK a \in Nat : a = h + s
    OBVIOUS
  <2>0. a <= Len(queue) /\ Len(queue) <= Len(queue) /\ queue' = SubSeq(queue, a + 1, Len(queue))
    BY <1>6, <1>t, <2>1
  <2>2. /\ queue' \in Seq(WsByte)
        /\ Len(queue') = IF a < Len(queue) THEN Len(queue) - a ELSE 0
        /\ \A i \in 1..(Len(queue) - a) : queue'[i] = queue[a + i]
    <3>1. a \in Nat /\ Len(queue) \in Nat /\ queue \in Seq(WsByte)
      BY <1>t
    <3> QED BY <2>0, <3>1, Piece, ZenonT(60)
  <2>3. Len(queue') = Len(queue) - a
    BY <1>t, <2>0, <2>2
  <2>4. EndOf(n) = stream[n].place + a
    <3>1. EndOf(n) = stream[n].place + h + s /\ stream[n].place \in Nat
      BY <1>4, <1>5
    <3> QED BY <2>1, <3>1
  <2>5. ASSUME NEW i \in 1..Len(queue') PROVE queue'[i] = wire[EndOf(n) + i]
    <3>1. a + i \in 1..Len(queue) /\ stream[n].place + (a + i) = EndOf(n) + i
      <4>1. stream[n].place \in Nat /\ Len(queue') = Len(queue) - a /\ EndOf(n) = stream[n].place + a
        BY <1>4, <2>3, <2>4
      <4>2. i \in 1..(Len(queue) - a) /\ Len(queue) \in Nat
        BY <4>1, <1>t
      <4>3. a + i \in 1..Len(queue)
        BY ONLY <4>2, a \in Nat
      <4>4. stream[n].place + (a + i) = stream[n].place + a + i
        BY ONLY <4>1, <4>2, a \in Nat
      <4> QED BY <4>1, <4>3, <4>4
    <3> QED BY <1>3, <2>2, <2>3, <3>1
  <2>6. Len(queue') = pulled - EndOf(n)
    <3>1. stream[n].place \in Nat /\ pulled = stream[n].place + Len(queue)
      BY <1>3, <1>4
    <3> QED BY ONLY <1>t, <2>3, <2>4, <3>1, a \in Nat
  <2> QED BY <2>2, <2>5, <2>6
<1>11. b = [k \in 1..s |-> <<n, h + k>>]
  <2>1. b \in [1..s -> WsByte]
    BY <1>7, LenProperties
  <2> QED BY <1>7, <2>1
<1>12. FrameExact'
  BY <1>n, <1>5, <1>6, <1>8, <1>11 DEF FrameExact, Payload
<1>13. WsTypeOK' /\ StreamLaid'
  BY <1>6, <1>8, <1>9, <1>10 DEF ReadInv, WsTypeOK, StreamLaid, EndOf
<1>14. ReaderPlaces'
  <2>1. (wsHandled < Len(stream))'
    BY <1>n, <1>3, <1>6, <1>t
  <2>2. QueueAt(EndOf(wsHandled + 1))'
    BY <1>n, <1>6, <1>10 DEF QueueAt, EndOf
  <2> QED BY <1>9, <2>1, <2>2 DEF ReaderPlaces
<1> QED BY <1>12, <1>13, <1>14 DEF ReadInv

\* The start of a frame is in the queue and the rest must be received ("Overflow case").
LEMMA FrameOverflowsInv == ReadInv /\ FrameOverflows => ReadInv'
<1> SUFFICES ASSUME ReadInv, FrameOverflows PROVE ReadInv'
  OBVIOUS
<1>1. ws.phase = "loop" /\ HeaderComplete
  BY DEF FrameOverflows, Looping
<1>t. /\ queue \in Seq(WsByte) /\ Len(queue) \in Nat /\ Len(stream) \in Nat /\ wsHandled \in Nat
      /\ ws \in WsStates
  BY DEF ReadInv, WsTypeOK
<1>2. Len(queue) >= 2 /\ HeaderLen = stream[queue[1][1]].header_len
      /\ Len(queue) >= stream[queue[1][1]].header_len
  <2>1. Len(queue) < 2 => HeaderLen = 0
    BY DEF HeaderLen
  <2> QED BY <1>1, <1>t, <2>1 DEF HeaderComplete, HeaderLen
<1>n. PICK n \in Nat : n = wsHandled + 1
  BY <1>t
<1>3. /\ n \in 1..Len(stream) /\ queue[1][1] = n
      /\ pulled = stream[n].place + Len(queue)
      /\ \A i \in 1..Len(queue) : i <= stream[n].header_len + stream[n].size => queue[i] = <<n, i>>
  <2>1. Len(queue) # 0
    BY <1>2, <1>t
  <2> QED BY <1>1, <1>n, <2>1, FrontOfQueue
<1>4. /\ stream[n].place \in Nat /\ stream[n].header_len \in {2, 3} /\ stream[n].size \in Nat
      /\ stream[n].op \in Opcodes
  BY <1>3, FrameInStream
<1>5. PICK h \in Nat, s \in Nat, l \in Nat :
        h = stream[n].header_len /\ s = stream[n].size /\ h \in {2, 3} /\ l = Len(queue)
  BY <1>4, <1>t
<1>6. /\ s + h > l /\ h <= l
      /\ data' = [op |-> stream[n].op, want |-> s, frame |-> n, bytes |-> SubSeq(queue, h + 1, l)]
      /\ ws' = [ws EXCEPT !.phase = "overflow"]
      /\ UNCHANGED <<stream, wire, pulled, queue, wsHandled>>
  BY <1>2, <1>3, <1>5 DEF FrameOverflows
<1>7. PICK b \in Seq(WsByte) : /\ b = SubSeq(queue, h + 1, l) /\ Len(b) = l - h
                               /\ \A i \in 1..(l - h) : b[i] = <<n, h + i>>
  <2>1. /\ SubSeq(queue, h + 1, l) \in Seq(WsByte)
        /\ Len(SubSeq(queue, h + 1, l)) = IF h < l THEN l - h ELSE 0
        /\ \A i \in 1..(l - h) : SubSeq(queue, h + 1, l)[i] = queue[h + i]
    <3>1. l <= Len(queue)
      BY <1>5
    <3> QED BY <1>t, <3>1, Piece
  <2>2. (IF h < l THEN l - h ELSE 0) = l - h
    BY <1>6
  <2>3. \A i \in 1..(l - h) : queue[h + i] = <<n, h + i>>
    <3>1. ASSUME NEW i \in 1..(l - h) PROVE h + i \in 1..l /\ h + i <= h + s
      BY <1>6
    <3> QED BY <1>3, <1>5, <3>1
  <2> QED BY <2>1, <2>2, <2>3
<1>8. /\ data' \in MessagesRead /\ data'.frame = n /\ data'.want = s /\ data'.bytes = b
  <2>1. data' = [op |-> stream[n].op, want |-> s, frame |-> n, bytes |-> b]
    BY <1>6, <1>7
  <2> QED BY <1>4, <2>1, MessageFields
<1>9. ws' \in WsStates /\ ws'.phase = "overflow"
  <2>1. "overflow" \in WsPhases /\ TRUE \in BOOLEAN /\ 0 \in Nat
    BY DEF WsPhases
  <2> QED BY <1>6, <1>t, <2>1, StateFields, Zenon
<1>10. WsTypeOK' /\ StreamLaid' /\ FrameExact'
  BY <1>6, <1>8, <1>9 DEF ReadInv, WsTypeOK, StreamLaid, EndOf, FrameExact
<1>11. MessageAt(wsHandled + 1)'
  <2>1. Len(b) <= s /\ pulled = stream[n].place + h + Len(b)
    <3>1. Len(b) = l - h /\ h <= l /\ s + h > l
      BY <1>6, <1>7
    <3>2. pulled = stream[n].place + l /\ stream[n].place \in Nat
      BY <1>3, <1>4, <1>5
    <3> QED BY <3>1, <3>2
  <2> QED BY <1>n, <1>5, <1>6, <1>7, <1>8, <2>1, ZenonT(60) DEF MessageAt
<1>12. (wsHandled < Len(stream))'
  BY <1>n, <1>3, <1>6, <1>t
<1> QED BY <1>9, <1>10, <1>11, <1>12 DEF ReadInv, ReaderPlaces

\* Bytes of the stream that were not received yet.
LEMMA RestBytes ==
    ASSUME ReadInv, NEW n \in 1..Len(Rest)
    PROVE  /\ pulled + n \in Nat /\ pulled + n <= Len(wire) /\ n \in Nat
           /\ SubSeq(Rest, 1, n) \in Seq(WsByte) /\ Len(SubSeq(Rest, 1, n)) = n
           /\ \A i \in 1..n : SubSeq(Rest, 1, n)[i] = wire[pulled + i]
<1>1. /\ wire \in Seq(WsByte) /\ Len(wire) \in Nat /\ pulled \in Nat /\ pulled <= Len(wire)
  BY DEF ReadInv, WsTypeOK
<1>2. PICK r \in Seq(WsByte) : /\ r = Rest
                               /\ Len(r) = IF pulled < Len(wire) THEN Len(wire) - pulled ELSE 0
                               /\ \A i \in 1..(Len(wire) - pulled) : r[i] = wire[pulled + i]
  <2>1. Len(wire) <= Len(wire)
    BY <1>1
  <2> QED BY <1>1, <2>1, Piece DEF Rest
<1>3. n \in 1..Len(r) /\ Len(r) = Len(wire) - pulled /\ n \in Nat
  BY <1>1, <1>2
<1>4. /\ SubSeq(r, 0 + 1, n) \in Seq(WsByte)
      /\ Len(SubSeq(r, 0 + 1, n)) = IF 0 < n THEN n - 0 ELSE 0
      /\ \A i \in 1..(n - 0) : SubSeq(r, 0 + 1, n)[i] = r[0 + i]
  <2>1. n <= Len(r) /\ 0 \in Nat
    BY <1>3
  <2> QED BY <1>3, <2>1, Piece
<1>5. /\ SubSeq(r, 1, n) \in Seq(WsByte) /\ Len(SubSeq(r, 1, n)) = n
      /\ \A i \in 1..n : SubSeq(r, 1, n)[i] = r[i]
  <2>1. 0 + 1 = 1 /\ (IF 0 < n THEN n - 0 ELSE 0) = n /\ n - 0 = n
    BY <1>3
  <2>2. \A i \in 1..n : 0 + i = i
    BY <1>3
  <2> QED BY <1>4, <2>1, <2>2
<1>6. \A i \in 1..n : r[i] = wire[pulled + i]
  BY <1>1, <1>2, <1>3
<1> QED BY <1>1, <1>2, <1>3, <1>5, <1>6

\* Bytes behind bytes.
LEMMA BytesJoined ==
    ASSUME NEW s \in Seq(WsByte), NEW t \in Seq(WsByte)
    PROVE  /\ s \o t \in Seq(WsByte) /\ Len(s \o t) = Len(s) + Len(t)
           /\ \A i \in 1..Len(s) : (s \o t)[i] = s[i]
           /\ \A i \in 1..Len(t) : (s \o t)[Len(s) + i] = t[i]
<1>1. /\ s \o t \in Seq(WsByte) /\ Len(s \o t) = Len(s) + Len(t)
      /\ \A i \in 1..Len(s) + Len(t) :
            (s \o t)[i] = IF i <= Len(s) THEN s[i] ELSE t[i - Len(s)]
  BY ConcatProperties
<1>2. Len(s) \in Nat /\ Len(t) \in Nat
  OBVIOUS
<1>3. ASSUME NEW i \in 1..Len(t) PROVE (s \o t)[Len(s) + i] = t[i]
  <2>1. Len(s) + i \in 1..Len(s) + Len(t) /\ ~(Len(s) + i <= Len(s)) /\ Len(s) + i - Len(s) = i
    BY <1>2
  <2> QED BY <1>1, <2>1
<1>4. ASSUME NEW i \in 1..Len(s) PROVE (s \o t)[i] = s[i]
  BY <1>1, <1>2
<1> QED BY <1>1, <1>3, <1>4

\* The rest of the message, or a part of it, is received.
LEMMA OverflowPullInv == ReadInv /\ OverflowPull => ReadInv'
<1> SUFFICES ASSUME ReadInv, OverflowPull PROVE ReadInv'
  OBVIOUS
<1>1. PICK n \in 1..Len(Rest) : /\ n <= data.want - Len(data.bytes)
                                /\ data' = [data EXCEPT !.bytes = @ \o SubSeq(Rest, 1, n)]
                                /\ pulled' = pulled + n
  BY DEF OverflowPull
<1>2. ws.phase = "overflow" /\ UNCHANGED <<ws, stream, wire, queue, wsHandled>>
  BY DEF OverflowPull
<1>t. /\ data \in MessagesRead /\ data.bytes \in Seq(WsByte) /\ Len(data.bytes) \in Nat
      /\ data.want \in Nat /\ wsHandled \in Nat /\ Len(stream) \in Nat /\ pulled \in Nat
  BY DEF ReadInv, WsTypeOK, MessagesRead
<1>f. PICK f \in Nat : f = wsHandled + 1
  BY <1>t
<1>3. /\ pulled' \in Nat /\ pulled' <= Len(wire) /\ n \in Nat
      /\ SubSeq(Rest, 1, n) \in Seq(WsByte) /\ Len(SubSeq(Rest, 1, n)) = n
      /\ \A i \in 1..n : SubSeq(Rest, 1, n)[i] = wire[pulled + i]
  BY <1>1, RestBytes
<1>r. PICK r \in Seq(WsByte) : /\ r = SubSeq(Rest, 1, n) /\ Len(r) = n
                               /\ \A i \in 1..n : r[i] = wire[pulled + i]
  BY <1>3
<1>s. PICK s0 \in Seq(WsByte) : s0 = data.bytes
  BY <1>t
<1>4. PICK b \in Seq(WsByte) : /\ b = data.bytes \o SubSeq(Rest, 1, n) /\ Len(b) = Len(data.bytes) + n
                               /\ \A i \in 1..Len(data.bytes) : b[i] = data.bytes[i]
                               /\ \A i \in 1..n : b[Len(data.bytes) + i] = wire[pulled + i]
  <2>1. /\ s0 \o r \in Seq(WsByte) /\ Len(s0 \o r) = Len(s0) + Len(r)
        /\ \A i \in 1..Len(s0) : (s0 \o r)[i] = s0[i]
        /\ \A i \in 1..Len(r) : (s0 \o r)[Len(s0) + i] = r[i]
    BY BytesJoined
  <2>2. s0 \o r = data.bytes \o SubSeq(Rest, 1, n)
    BY <1>r, <1>s
  <2>3. Len(s0 \o r) = Len(data.bytes) + n
    BY <1>r, <1>s, <2>1
  <2>4. \A i \in 1..Len(data.bytes) : (s0 \o r)[i] = data.bytes[i]
    BY <1>s, <2>1
  <2>5. \A i \in 1..n : (s0 \o r)[Len(data.bytes) + i] = wire[pulled + i]
    BY <1>r, <1>s, <2>1
  <2> QED BY <2>1, <2>2, <2>3, <2>4, <2>5, Zenon
<1>5. /\ data' \in MessagesRead /\ data'.frame = data.frame /\ data'.want = data.want
      /\ data'.bytes = b
  <2>1. data' = [data EXCEPT !.bytes = b]
    BY <1>1, <1>4, <1>t DEF MessagesRead
  <2> QED BY <1>t, <2>1 DEF MessagesRead
<1>6. f \in 1..Len(stream) /\ MessageAt(f) /\ wsHandled < Len(stream)
  BY <1>2, <1>f, <1>t DEF ReadInv, ReaderPlaces
<1>7. /\ stream[f].place \in Nat /\ stream[f].header_len \in {2, 3} /\ stream[f].size \in Nat
      /\ \A k \in 1..(stream[f].header_len + stream[f].size) : wire[stream[f].place + k] = <<f, k>>
  BY <1>6, FrameInStream
<1>8. PICK p \in Nat, h \in Nat, s \in Nat, l \in Nat :
        /\ p = stream[f].place /\ h = stream[f].header_len /\ s = stream[f].size
        /\ l = Len(data.bytes)
  BY <1>7, <1>t
<1>9. /\ data.frame = f /\ data.want = s /\ l <= s /\ pulled = p + h + l /\ n <= s - l
      /\ \A i \in 1..l : data.bytes[i] = <<f, h + i>>
      /\ \A k \in 1..(h + s) : wire[p + k] = <<f, k>>
  BY <1>1, <1>6, <1>7, <1>8 DEF MessageAt
<1>10. \A i \in 1..(l + n) : b[i] = <<f, h + i>>
  <2>1. SUFFICES ASSUME NEW i \in 1..(l + n) PROVE b[i] = <<f, h + i>>
    OBVIOUS
  <2>2. CASE i <= l
    <3>1. i \in 1..l
      BY <2>2
    <3> QED BY <1>4, <1>8, <1>9, <3>1
  <2>3. CASE i > l
    <3>1. PICK j \in 1..n : j = i - l
      BY <1>3, <2>3
    <3>2. i = l + j /\ pulled + j = p + (h + i) /\ h + i \in 1..(h + s)
      BY <1>3, <1>9, <3>1
    <3>3. b[l + j] = wire[pulled + j]
      BY <1>4, <1>8
    <3>4. wire[p + (h + i)] = <<f, h + i>>
      BY <1>9, <3>2
    <3> QED BY <3>2, <3>3, <3>4
  <2> QED BY <2>2, <2>3
<1>11. WsTypeOK' /\ StreamLaid' /\ FrameExact'
  BY <1>2, <1>3, <1>5 DEF ReadInv, WsTypeOK, StreamLaid, EndOf, FrameExact
<1>12. MessageAt(wsHandled + 1)'
  <2>1. Len(b) = l + n /\ l + n <= s /\ pulled' = p + h + (l + n)
    <3>1. Len(b) = l + n
      BY <1>4, <1>8
    <3>2. n \in Nat /\ n <= s - l /\ pulled = p + h + l /\ pulled' = pulled + n
      BY <1>1, <1>3, <1>9
    <3> QED BY <3>1, <3>2
  <2> QED BY <1>2, <1>f, <1>5, <1>8, <1>9, <1>10, <2>1 DEF MessageAt
<1> QED BY <1>2, <1>6, <1>11, <1>12 DEF ReadInv, ReaderPlaces

\* More bytes are received into the queue.
LEMMA PullInv == ReadInv /\ Pull => ReadInv'
<1> SUFFICES ASSUME ReadInv, Pull PROVE ReadInv'
  OBVIOUS
<1>1. PICK n \in 1..Len(Rest) : queue' = queue \o SubSeq(Rest, 1, n) /\ pulled' = pulled + n
  BY DEF Pull
<1>2. /\ ws.phase = "loop" /\ UNCHANGED <<stream, wire, data, wsHandled>>
      /\ ws' = [ws EXCEPT !.ping_count = 0]
  BY DEF Pull, Looping
<1>t. /\ queue \in Seq(WsByte) /\ Len(queue) \in Nat /\ wsHandled \in Nat /\ Len(stream) \in Nat
      /\ pulled \in Nat /\ ws \in WsStates
  BY DEF ReadInv, WsTypeOK
<1>3. /\ pulled' \in Nat /\ pulled' <= Len(wire) /\ n \in Nat
      /\ SubSeq(Rest, 1, n) \in Seq(WsByte) /\ Len(SubSeq(Rest, 1, n)) = n
      /\ \A i \in 1..n : SubSeq(Rest, 1, n)[i] = wire[pulled + i]
  BY <1>1, RestBytes
<1>r. PICK r \in Seq(WsByte) : /\ r = SubSeq(Rest, 1, n) /\ Len(r) = n
                               /\ \A i \in 1..n : r[i] = wire[pulled + i]
  BY <1>3
<1>4. /\ queue' \in Seq(WsByte) /\ Len(queue') = Len(queue) + n
      /\ \A i \in 1..Len(queue) : queue'[i] = queue[i]
      /\ \A i \in 1..n : queue'[Len(queue) + i] = wire[pulled + i]
  <2>1. /\ queue \o r \in Seq(WsByte) /\ Len(queue \o r) = Len(queue) + Len(r)
        /\ \A i \in 1..Len(queue) : (queue \o r)[i] = queue[i]
        /\ \A i \in 1..Len(r) : (queue \o r)[Len(queue) + i] = r[i]
    BY <1>t, BytesJoined
  <2>2. queue' = queue \o r
    BY <1>1, <1>r
  <2> QED BY <1>r, <2>1, <2>2
<1>5. ws' \in WsStates /\ ws'.phase = "loop"
  <2>1. 0 \in Nat /\ "loop" \in WsPhases /\ TRUE \in BOOLEAN
    BY DEF WsPhases
  <2> QED BY <1>2, <1>t, <2>1, StateFields, Zenon
<1>6. /\ wsHandled <= Len(stream) /\ Len(queue) = pulled - EndOf(wsHandled)
      /\ \A i \in 1..Len(queue) : queue[i] = wire[EndOf(wsHandled) + i]
  BY <1>2 DEF ReadInv, ReaderPlaces, QueueAt
<1>7. EndOf(wsHandled) \in Nat
  <2>1. CASE wsHandled = 0
    BY <2>1 DEF EndOf
  <2>2. CASE wsHandled # 0
    <3>1. wsHandled \in 1..Len(stream)
      BY <1>6, <1>t, <2>2
    <3> QED BY <3>1, FrameInStream
  <2> QED BY <2>1, <2>2
<1>e. PICK e \in Nat : e = EndOf(wsHandled)
  BY <1>7
<1>8. Len(queue') = pulled' - e
  BY <1>1, <1>3, <1>4, <1>6, <1>e, <1>t, SMTT(40)
<1>9. ASSUME NEW i \in 1..Len(queue') PROVE queue'[i] = wire[e + i]
  <2>1. CASE i <= Len(queue)
    <3>1. i \in 1..Len(queue)
      BY <1>t, <2>1
    <3>2. queue'[i] = queue[i]
      BY <1>4, <3>1
    <3>3. queue[i] = wire[e + i]
      BY <1>6, <1>e, <3>1
    <3> QED BY <3>2, <3>3
  <2>2. CASE i > Len(queue)
    <3>0. PICK q \in Nat : q = Len(queue) /\ i \in 1..(q + n) /\ i > q /\ q = pulled - e
      <4>1. Len(queue') = Len(queue) + n /\ Len(queue) = pulled - e
        BY <1>4, <1>6, <1>e
      <4> QED BY <1>t, <2>2, <4>1
    <3>1. PICK j \in 1..n : j = i - q
      BY <1>3, <3>0
    <3>2. i = Len(queue) + j /\ pulled + j = e + i
      <4>1. i \in Nat /\ pulled \in Nat /\ j \in Nat /\ j = i - q /\ q = pulled - e /\ q = Len(queue)
        <5>1. n \in Nat /\ pulled \in Nat
          BY <1>t
        <5>2. j \in Nat /\ i \in Nat
          BY ONLY <5>1, <3>0, <3>1, q \in Nat, j \in 1..n
        <5>3. j = i - q /\ q = pulled - e /\ q = Len(queue)
          BY <3>0, <3>1, Zenon
        <5> QED BY <5>1, <5>2, <5>3, Zenon
      <4> QED BY ONLY <4>1, e \in Nat, q \in Nat
    <3> QED BY <1>4, <3>2
  <2> QED BY <1>t, <2>1, <2>2
<1>10. QueueAt(EndOf(wsHandled))'
  BY <1>2, <1>e, <1>8, <1>9 DEF QueueAt, EndOf
<1>11. WsTypeOK' /\ StreamLaid' /\ FrameExact'
  BY <1>2, <1>3, <1>4, <1>5 DEF ReadInv, WsTypeOK, StreamLaid, EndOf, FrameExact
<1> QED BY <1>2, <1>5, <1>6, <1>10, <1>11 DEF ReadInv, ReaderPlaces

\* The message is complete; nothing is left in the queue.
LEMMA OverflowDoneInv == ReadInv /\ OverflowDone => ReadInv'
<1> SUFFICES ASSUME ReadInv, OverflowDone PROVE ReadInv'
  OBVIOUS
<1>1. /\ ws.phase = "overflow" /\ Len(data.bytes) = data.want /\ queue' = <<>>
      /\ ws' = [ws EXCEPT !.phase = "frame"] /\ UNCHANGED <<stream, wire, pulled, data, wsHandled>>
  BY DEF OverflowDone
<1>t. /\ data.bytes \in Seq(WsByte) /\ data.want \in Nat /\ wsHandled \in Nat /\ Len(stream) \in Nat
      /\ pulled \in Nat /\ ws \in WsStates
  BY DEF ReadInv, WsTypeOK, MessagesRead
<1>n. PICK n \in Nat : n = wsHandled + 1
  BY <1>t
<1>2. n \in 1..Len(stream) /\ MessageAt(n) /\ wsHandled < Len(stream)
  BY <1>1, <1>n, <1>t DEF ReadInv, ReaderPlaces
<1>3. /\ stream[n].place \in Nat /\ stream[n].header_len \in {2, 3} /\ stream[n].size \in Nat
      /\ EndOf(n) = stream[n].place + stream[n].header_len + stream[n].size
  BY <1>2, FrameInStream
<1>4. pulled = EndOf(n)
  BY <1>1, <1>2, <1>3 DEF MessageAt
<1>5. ws' \in WsStates /\ ws'.phase = "frame"
  <2>1. "frame" \in WsPhases /\ TRUE \in BOOLEAN /\ 0 \in Nat
    BY DEF WsPhases
  <2> QED BY <1>1, <1>t, <2>1, StateFields, Zenon
<1>6. /\ data.frame = n /\ data.bytes = Payload(n)
  <2>1. PICK h \in Nat, s \in Nat : h = stream[n].header_len /\ s = stream[n].size
    BY <1>3
  <2>2. /\ data.frame = n /\ Len(data.bytes) = s
        /\ \A i \in 1..s : data.bytes[i] = <<n, h + i>>
    BY <1>1, <1>2, <2>1 DEF MessageAt
  <2>3. data.bytes \in [1..s -> WsByte]
    BY <1>t, <2>2, LenProperties
  <2>4. data.bytes = [k \in 1..s |-> <<n, h + k>>]
    BY <2>2, <2>3
  <2> QED BY <2>1, <2>2, <2>4 DEF Payload
<1>7. FrameExact'
  BY <1>n, <1>1, <1>6 DEF FrameExact, Payload
<1>8. queue' \in Seq(WsByte) /\ Len(queue') = 0
  BY <1>1
<1>9. WsTypeOK' /\ StreamLaid'
  BY <1>1, <1>5, <1>8 DEF ReadInv, WsTypeOK, StreamLaid, EndOf
<1>10. QueueAt(EndOf(wsHandled + 1))'
  <2>1. Len(queue') = pulled - EndOf(n)
    BY <1>4, <1>8, <1>t
  <2> QED BY <1>n, <1>1, <1>8, <2>1 DEF QueueAt, EndOf
<1> QED BY <1>1, <1>2, <1>5, <1>7, <1>9, <1>10 DEF ReadInv, ReaderPlaces

\* The frame is handled and the next one is expected.
LEMMA HandleFrameInv == WsInv /\ HandleFrame => WsInv'
<1> SUFFICES ASSUME WsInv, HandleFrame PROVE WsInv'
  OBVIOUS
<1>1. /\ ws.phase = "frame" /\ writer[0] = "idle" /\ wsHandled' = wsHandled + 1 /\ data' = NoData
      /\ UNCHANGED <<stream, wire, pulled, queue, mutex, lastPart>>
  BY DEF HandleFrame
<1>t. wsHandled \in Nat /\ Len(stream) \in Nat /\ ws \in WsStates
  BY DEF WsInv, ReadInv, WsTypeOK
<1>2. /\ ws' \in WsStates /\ ws'.phase \in {"loop", "reply", "callback"}
      /\ \/ writer' = writer
         \/ writer' = [writer EXCEPT ![0] = "lock"] /\ ws'.phase = "reply"
  <2>1. {"loop", "reply"} \subseteq WsPhases /\ 0 \in Nat /\ TRUE \in BOOLEAN
    BY DEF WsPhases
  <2>2. CASE ws' = [ws EXCEPT !.ping_count = 0, !.phase = "loop"] /\ writer' = writer
    <3>1. "loop" \in WsPhases
      BY <2>1
    <3>2. LET w == [ws EXCEPT !.ping_count = 0, !.phase = "loop"]
          IN  w \in WsStates /\ w.phase = "loop"
      BY <1>t, <2>1, <3>1, StateFields, Zenon
    <3> QED BY <2>2, <3>2, Zenon
  <2>3. CASE ws' = [ws EXCEPT !.phase = "reply"] /\ writer' = [writer EXCEPT ![0] = "lock"]
    BY <1>t, <2>1, <2>3, StateFields, Zenon
  <2>4. CASE ws' = [ws EXCEPT !.phase = "loop"] /\ writer' = writer
    BY <1>t, <2>1, <2>4, StateFields, Zenon
  <2>5. CASE ws' = Leave(ws) /\ writer' = writer
    BY <1>t, <2>1, <2>5, StateFields, Zenon
  <2> QED BY <2>2, <2>3, <2>4, <2>5 DEF HandleFrame
<1>3. data' \in MessagesRead
  BY <1>1 DEF MessagesRead, NoData
<1>4. wsHandled < Len(stream) /\ QueueAt(EndOf(wsHandled + 1))
  BY <1>1 DEF WsInv, ReadInv, ReaderPlaces
<1>5. WsTypeOK' /\ StreamLaid' /\ FrameExact'
  <2>1. WsTypeOK'
    BY <1>1, <1>2, <1>3, <1>t DEF WsInv, ReadInv, WsTypeOK
  <2>2. StreamLaid'
    BY <1>1 DEF WsInv, ReadInv, StreamLaid, EndOf
  <2>3. FrameExact'
    BY <1>2 DEF FrameExact
  <2> QED BY <2>1, <2>2, <2>3
<1>6. (wsHandled <= Len(stream))' /\ QueueAt(EndOf(wsHandled))'
  BY <1>1, <1>4, <1>t DEF QueueAt, EndOf
<1>7. ReadInv'
  BY <1>2, <1>5, <1>6 DEF ReadInv, ReaderPlaces
<1>8. WritersInv'
  <2>1. WritersInv /\ 0 \notin WsWriters
    BY WebSocketAssumption DEF WsInv
  <2> QED BY <1>1, <1>2, <2>1 DEF WritersInv, FramesWhole
<1> QED BY <1>7, <1>8 DEF WsInv

\* The loop is left, for whatever reason; the reply is written.
LEMMA LeavesInv ==
    ASSUME WsInv, UNCHANGED inVars, UNCHANGED outVars,
           \/ ws' = Leave(ws) /\ (ws.phase = "reply" => writer[0] = "idle")
           \/ ws' = [ws EXCEPT !.phase = "loop"] /\ ws.phase = "reply" /\ writer[0] = "idle"
    PROVE  WsInv'
<1>t. ws \in WsStates
  BY DEF WsInv, ReadInv, WsTypeOK
<1>1. CASE ws' = Leave(ws)
  <2>1. ws' \in WsStates /\ ws'.phase = "callback"
    <3>1. "loop" \in WsPhases /\ TRUE \in BOOLEAN /\ 0 \in Nat
      BY DEF WsPhases
    <3> QED BY <1>1, <1>t, <3>1, StateFields, Zenon
  <2>2. ReadInv'
    BY <2>1, ReaderMoves DEF WsInv
  <2>3. writer[0] = "idle"
    BY <1>1, <1>t, <2>1 DEF WsInv, WritersInv
  <2> QED BY <2>2, <2>3, WritersStay DEF WsInv
<1>2. CASE ws' = [ws EXCEPT !.phase = "loop"] /\ ws.phase = "reply" /\ writer[0] = "idle"
  <2>1. ws' \in WsStates /\ ws'.phase = "loop"
    <3>1. "loop" \in WsPhases /\ TRUE \in BOOLEAN /\ 0 \in Nat
      BY DEF WsPhases
    <3> QED BY <1>2, <1>t, <3>1, StateFields, Zenon
  <2>2. ReadInv'
    BY <1>2, <2>1, ReaderMoves DEF WsInv
  <2> QED BY <1>2, <2>2, WritersStay DEF WsInv
<1> QED BY <1>1, <1>2

\* The steps of the connection's state alone.
LEMMA StateInv ==
    ASSUME WsInv, HandshakeFails \/ Handshake \/ AppClose \/ WsStop \/ WsRestart \/ CloseHandler
    PROVE  WsInv'
<1>t. ws \in WsStates /\ ws.ping_count \in Nat
  BY DEF WsInv, ReadInv, WsTypeOK, WsStates
<1>p. /\ "loop" \in WsPhases /\ "close" \in WsPhases
      /\ TRUE \in BOOLEAN /\ FALSE \in BOOLEAN /\ 0 \in Nat
  BY DEF WsPhases
<1>1. UNCHANGED inVars /\ UNCHANGED outVars
  BY DEF HandshakeFails, Handshake, AppClose, WsStop, WsRestart, CloseHandler
<1>2. CASE HandshakeFails \/ CloseHandler
  <2>1. ws' = [ws EXCEPT !.phase = "close"] /\ ws.phase # "reply"
    BY <1>2 DEF HandshakeFails, CloseHandler
  <2>2. ws' \in WsStates /\ ws'.phase = "close"
    BY <1>t, <1>p, <2>1, StateFields, Zenon
  <2>3. writer[0] = "idle"
    BY <2>1 DEF WsInv, WritersInv
  <2> QED BY <1>1, <2>2, <2>3, ReaderMoves, WritersStay DEF WsInv
<1>3. CASE Handshake
  <2>1. /\ ws' = [ws EXCEPT !.phase = "loop", !.in_websocket_handling = TRUE, !.ping_count = 0]
        /\ ws.phase = "idle"
    BY <1>3 DEF Handshake
  <2>2. LET w == [ws EXCEPT !.phase = "loop", !.in_websocket_handling = TRUE, !.ping_count = 0]
        IN  w \in WsStates /\ w.phase = "loop"
    BY <1>t, <1>p, StateFields, Zenon
  <2>3. ws' \in WsStates /\ ws'.phase = "loop"
    BY <2>1, <2>2, Zenon
  <2>4. writer[0] = "idle"
    BY <2>1 DEF WsInv, WritersInv
  <2> QED BY <1>1, <2>1, <2>3, <2>4, ReaderMoves, WritersStay DEF WsInv
<1>4. CASE AppClose \/ WsStop \/ WsRestart
  <2>1. PICK b \in BOOLEAN : ws' = [ws EXCEPT !.must_close = b] \/ ws' = [ws EXCEPT !.stop_flag = b]
    BY <1>4, <1>p DEF AppClose, WsStop, WsRestart
  <2>2. ws' \in WsStates /\ ws'.phase = ws.phase
    <3>1. CASE ws' = [ws EXCEPT !.must_close = b]
      BY <1>t, <1>p, <3>1, StateFields, Zenon
    <3>2. CASE ws' = [ws EXCEPT !.stop_flag = b]
      BY <1>t, <1>p, <3>2, StateFields, Zenon
    <3> QED BY <2>1, <3>1, <3>2
  <2>3. ws'.phase # "reply" => writer[0] = "idle"
    BY <2>2 DEF WsInv, WritersInv
  <2> QED BY <1>1, <2>2, <2>3, ReaderMoves, WritersStay DEF WsInv
<1> QED BY <1>2, <1>3, <1>4

\* A PING is sent, or too many were not answered.
LEMMA PullTimeoutInv == WsInv /\ PullTimeout => WsInv'
<1> SUFFICES ASSUME WsInv, PullTimeout PROVE WsInv'
  OBVIOUS
<1>t. ws \in WsStates /\ ws.ping_count \in Nat /\ ws.ping_count + 1 \in Nat
  BY DEF WsInv, ReadInv, WsTypeOK, WsStates
<1>1. ws.phase = "loop" /\ UNCHANGED inVars /\ UNCHANGED <<mutex, lastPart>>
  BY DEF PullTimeout, Looping
<1>2. CASE ws' = Leave(ws) /\ writer' = writer
  BY <1>1, <1>2, LeavesInv DEF outVars
<1>3. CASE /\ ws' = [ws EXCEPT !.phase = "reply", !.ping_count = @ + 1]
           /\ writer' = [writer EXCEPT ![0] = "lock"]
  <2>1. LET w == [ws EXCEPT !.phase = "reply", !.ping_count = ws.ping_count + 1]
        IN  w \in WsStates /\ w.phase = "reply"
    <3>1. "reply" \in WsPhases /\ TRUE \in BOOLEAN
      BY DEF WsPhases
    <3> QED BY <1>t, <3>1, StateFields, Zenon
  <2>2. ws' = [ws EXCEPT !.phase = "reply", !.ping_count = ws.ping_count + 1]
    BY <1>3, <1>t DEF WsStates
  <2>3. ws' \in WsStates /\ ws'.phase = "reply"
    BY <2>1, <2>2, Zenon
  <2>4. ReadInv'
    BY <1>1, <2>3, ReaderMoves DEF WsInv
  <2>5. WritersInv'
    <3>1. WritersInv /\ 0 \notin WsWriters
      BY WebSocketAssumption DEF WsInv
    <3>2. writer[0] = "idle"
      BY <1>1, <3>1 DEF WritersInv
    <3> QED BY <1>1, <1>3, <2>3, <3>1, <3>2 DEF WritersInv, FramesWhole
  <2> QED BY <2>4, <2>5 DEF WsInv
<1>4. CASE UNCHANGED <<ws, writer>>
  <2>1. ReadInv'
    BY <1>1, <1>4, <1>t, ReaderMoves DEF WsInv
  <2>2. WritersInv'
    BY <1>1, <1>4 DEF WsInv, WritersInv, FramesWhole
  <2> QED BY <2>1, <2>2 DEF WsInv
<1> QED BY <1>2, <1>3, <1>4 DEF PullTimeout

\* A writer takes the mutex, writes its parts and gives it back.
LEMMA WriterInv ==
    ASSUME WsInv, NEW w \in WsWriters \cup {0},
           AppWrites(w) \/ WriteLock(w) \/ WriteHeader(w) \/ WriteData(w)
    PROVE  WsInv'
<1>1. ws' = ws /\ UNCHANGED inVars /\ ws \in WsStates
  BY DEF AppWrites, WriteLock, WriteHeader, WriteData, WsInv, ReadInv, WsTypeOK
<1>2. ReadInv'
  BY <1>1, ReaderMoves DEF WsInv
<1>t. /\ WritersInv /\ 0 \notin WsWriters /\ -1 \notin WsWriters \cup {0}
  BY WebSocketAssumption DEF WsInv
<1>3. WritersInv'
  <2>1. CASE AppWrites(w)
    BY <1>1, <2>1, <1>t DEF AppWrites, WritersInv, FramesWhole
  <2>2. CASE WriteLock(w)
    BY <1>1, <2>2, <1>t DEF WriteLock, WritersInv, FramesWhole
  <2>3. CASE WriteHeader(w)
    <3>1. writer[w] = "header" /\ mutex = w
      BY <2>3, <1>t DEF WriteHeader, WritersInv
    <3>2. CASE lastPart' = <<w, "header">> /\ writer' = [writer EXCEPT ![w] = "data"] /\ UNCHANGED mutex
      BY <1>1, <1>t, <3>1, <3>2 DEF WritersInv, FramesWhole
    <3>3. CASE Unlocked(w)
      BY <1>1, <1>t, <3>1, <3>3 DEF Unlocked, WritersInv, FramesWhole
    <3> QED BY <2>3, <3>2, <3>3 DEF WriteHeader
  <2>4. CASE WriteData(w)
    <3>1. writer[w] = "data" /\ mutex = w /\ Unlocked(w)
      BY <2>4, <1>t DEF WriteData, WritersInv
    <3> QED BY <1>1, <1>t, <3>1 DEF Unlocked, WritersInv, FramesWhole
  <2> QED BY <2>1, <2>2, <2>3, <2>4
<1> QED BY <1>2, <1>3 DEF WsInv

\* The socket is closed when nobody writes, and the worker takes the next client.
LEMMA CloseConnectionInv == WsInv /\ CloseConnection => WsInv'
<1> SUFFICES ASSUME WsInv, CloseConnection PROVE WsInv'
  OBVIOUS
<1>t. ws \in WsStates
  BY DEF WsInv, ReadInv, WsTypeOK
<1>1. LET w == [ws EXCEPT !.phase = "idle", !.must_close = FALSE]
      IN  w \in WsStates /\ w.phase = "idle"
  <2>1. "idle" \in WsPhases /\ FALSE \in BOOLEAN /\ 0 \in Nat
    BY DEF WsPhases
  <2> QED BY <1>t, <2>1, StateFields, Zenon
<1>2. ws' \in WsStates /\ ws'.phase = "idle"
  <2>1. ws' = [ws EXCEPT !.phase = "idle", !.must_close = FALSE]
    BY DEF CloseConnection
  <2> QED BY <1>1, <2>1, Zenon
<1>3. data' \in MessagesRead
  BY DEF CloseConnection, MessagesRead, NoData
<1>4. /\ stream' = <<>> /\ wire' = <<>> /\ queue' = <<>> /\ pulled' = 0 /\ wsHandled' = 0
      /\ stream' \in Seq(Placed) /\ wire' \in Seq(WsByte) /\ queue' \in Seq(WsByte)
      /\ Len(wire') = 0 /\ Len(stream') = 0
  BY DEF CloseConnection
<1>5. ReadInv'
  BY <1>2, <1>3, <1>4 DEF ReadInv, WsTypeOK, StreamLaid, EndOf, ReaderPlaces, FrameExact
<1>6. WritersInv'
  <2>1. WritersInv /\ -1 \notin WsWriters \cup {0}
    BY WebSocketAssumption DEF WsInv
  <2>2. mutex' = -1 /\ writer' = [w \in WsWriters \cup {0} |-> "idle"]
    BY <2>1 DEF CloseConnection, WritersInv
  <2> QED BY <1>2, <2>1, <2>2 DEF WritersInv, FramesWhole
<1> QED BY <1>5, <1>6 DEF WsInv

\* Every step of the peer, the worker and the writers.
LEMMA WsStepInv == WsInv /\ [WsNext]_wsVars => WsInv'
<1> SUFFICES ASSUME WsInv, [WsNext]_wsVars PROVE WsInv'
  OBVIOUS
<1>1. ASSUME ReadInv', UNCHANGED outVars, ws.phase # "reply" PROVE WsInv'
  <2>1. writer[0] = "idle"
    BY <1>1 DEF WsInv, WritersInv
  <2> QED BY <1>1, <2>1, WritersStay DEF WsInv
<1>2. CASE PeerSends
  BY <1>1, <1>2, PeerInv DEF PeerSends, WsInv
<1>3. CASE FrameFromQueue
  BY <1>1, <1>3, FrameFromQueueInv DEF FrameFromQueue, Looping, WsInv
<1>4. CASE FrameOverflows
  BY <1>1, <1>4, FrameOverflowsInv DEF FrameOverflows, Looping, WsInv
<1>5. CASE OverflowPull
  BY <1>1, <1>5, OverflowPullInv DEF OverflowPull, WsInv
<1>6. CASE OverflowDone
  BY <1>1, <1>6, OverflowDoneInv DEF OverflowDone, WsInv
<1>7. CASE Pull
  BY <1>1, <1>7, PullInv DEF Pull, Looping, WsInv
<1>8. CASE HandleFrame
  BY <1>8, HandleFrameInv
<1>9. CASE LoopEnds \/ NoMemory \/ PullFails \/ OverflowFails \/ Replied
  BY <1>9, LeavesInv DEF LoopEnds, NoMemory, PullFails, OverflowFails, Replied, Looping
<1>10. CASE PullTimeout
  BY <1>10, PullTimeoutInv
<1>11. CASE HandshakeFails \/ Handshake \/ AppClose \/ WsStop \/ WsRestart \/ CloseHandler
  BY <1>11, StateInv
<1>12. CASE CloseConnection
  BY <1>12, CloseConnectionInv
<1>13. ASSUME NEW w \in DOMAIN writer, AppWrites(w) \/ WriteLock(w) \/ WriteHeader(w) \/ WriteData(w)
       PROVE  WsInv'
  <2>1. w \in WsWriters \cup {0}
    BY DEF WsInv, WritersInv
  <2> QED BY <1>13, <2>1, WriterInv
<1>14. CASE UNCHANGED wsVars
  <2>1. UNCHANGED inVars /\ UNCHANGED outVars /\ ws' = ws /\ ws \in WsStates
    BY <1>14 DEF wsVars, inVars, outVars, WsInv, ReadInv, WsTypeOK
  <2>2. ws'.phase # "reply" => writer[0] = "idle"
    BY <2>1 DEF WsInv, WritersInv
  <2> QED BY <2>1, <2>2, ReaderMoves, WritersStay DEF WsInv
<1> QED BY <1>2, <1>3, <1>4, <1>5, <1>6, <1>7, <1>8, <1>9, <1>10, <1>11, <1>12, <1>13, <1>14
        DEF WsNext, WorkerLoop

\* The data handler gets the payload of each frame, whole and in order, however the network
\* splits the peer's bytes, and the frames of any number of threads leave whole, also while
\* the connection is closed (read_websocket, mg_websocket_write_exec, close_connection).
THEOREM WebsocketFramesExact == WsSpec => []WebsocketFrames
<1>1. WsInv => WebsocketFrames
  BY DEF WsInv, ReadInv, WritersInv, WebsocketFrames
<1> QED BY <1>1, WsInitInv, WsStepInv, PTL DEF WsSpec

=============================================================================
