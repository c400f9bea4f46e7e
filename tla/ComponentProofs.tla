--------------------------- MODULE ComponentProofs ---------------------------
(***************************************************************************)
(* Proofs about the components that MCComponents instantiates for TLC:     *)
(* the condition variables of the Windows build, throttled writing,        *)
(* virtual hosts, the response of a connection, request dispatch, client   *)
(* connections, HTTP/2, the start and stop of a server, the WebDAV         *)
(* requests with their locks, and the stand-alone server with its options, *)
(* for every value of their constants.                                     *)
(***************************************************************************)
EXTENDS WinCondvar, SocketWrite, Domains, Response, Request, Client, Http2, ServerSetup,
        DavFiles, StandAlone, SequenceTheorems, TLAPS

-----------------------------------------------------------------------------
(* WinCondvar *)

CvPC == {"run", "locked", "enlisted", "timed", "forever", "timeout", "relock"}

CvTypeOK ==
    /\ waiting_thread \in Seq(CvThreads)
    /\ helper \in [CvThreads -> BOOLEAN]
    /\ cvPc \in [CvThreads -> CvPC]

NoneTwice ==
    \A i, j \in DOMAIN waiting_thread : waiting_thread[i] = waiting_thread[j] => i = j

\* What SignalsExact says of one thread.
SignalExact(t) ==
    /\ helper[t] <=> cvPc[t] \in InWait /\ ~Listed(t)
    /\ Listed(t) => cvPc[t] \in InWait

CvInv == CvTypeOK /\ NoneTwice /\ \A t \in CvThreads : SignalExact(t)

\* Nobody waits at the start.
LEMMA CvInitial == CvInit => CvInv
<1> SUFFICES ASSUME CvInit PROVE CvInv
  OBVIOUS
<1>1. CvTypeOK /\ NoneTwice
  BY DEF CvInit, CvTypeOK, CvPC, NoneTwice
<1>2. \A t \in CvThreads : helper[t] = FALSE /\ cvPc[t] \notin InWait
  BY DEF CvInit, InWait
<1>3. \A t \in CvThreads : ~Listed(t)
  <2>1. waiting_thread = <<>> /\ DOMAIN waiting_thread = {}
    BY DEF CvInit
  <2> QED BY <2>1 DEF Listed
<1> QED BY <1>1, <1>2, <1>3 DEF CvInv, SignalExact

\* A thread that moves alone, without the list and the events, stays inside or
\* outside of its wait.
LEMMA CvFrame ==
    ASSUME CvInv, NEW t \in CvThreads, NEW from \in CvPC, NEW to \in CvPC,
           CvStep(t, from, to), UNCHANGED <<waiting_thread, helper>>,
           from \in InWait <=> to \in InWait
    PROVE  CvInv'
<1>1. /\ cvPc' \in [CvThreads -> CvPC]
      /\ \A u \in CvThreads : cvPc'[u] \in InWait <=> cvPc[u] \in InWait
  BY DEF CvInv, CvTypeOK, CvStep
<1>2. \A u \in CvThreads : Listed(u)' <=> Listed(u)
  BY DEF Listed
<1> QED BY <1>1, <1>2 DEF CvInv, CvTypeOK, NoneTwice, SignalExact

\* Every step of every thread preserves the invariant.
LEMMA CvStepInv == CvInv /\ [CvNext]_cvVars => CvInv'
<1> SUFFICES ASSUME CvInv, [CvNext]_cvVars PROVE CvInv'
  OBVIOUS
<1>t. /\ waiting_thread \in Seq(CvThreads) /\ Len(waiting_thread) \in Nat
      /\ DOMAIN waiting_thread = 1..Len(waiting_thread)
      /\ helper \in [CvThreads -> BOOLEAN]
      /\ cvPc \in [CvThreads -> CvPC]
  BY DEF CvInv, CvTypeOK
<1>1. ASSUME NEW t \in CvThreads, MutexLock(t) \/ MutexUnlock(t) \/ CondRelock(t) PROVE CvInv'
  <2>1. CASE MutexLock(t)
    BY <2>1, CvFrame DEF MutexLock, CvPC, InWait
  <2>2. CASE MutexUnlock(t)
    BY <2>2, CvFrame DEF MutexUnlock, OwnerStep, CvStep, CvPC, InWait
  <2>3. CASE CondRelock(t)
    BY <2>3, CvFrame DEF CondRelock, CvPC, InWait
  <2> QED BY <1>1, <2>1, <2>2, <2>3
<1>2. ASSUME NEW t \in CvThreads, CondEnlist(t) PROVE CvInv'
  <2>1. /\ cvPc[t] = "locked" /\ cvPc' = [cvPc EXCEPT ![t] = "enlisted"]
        /\ waiting_thread' = Append(waiting_thread, t)
        /\ helper' = helper
    BY <1>2 DEF CondEnlist, OwnerStep
  <2>2. ~Listed(t) /\ ~helper[t]
    BY <2>1 DEF CvInv, SignalExact, InWait
  <2>3. /\ waiting_thread' \in Seq(CvThreads)
        /\ DOMAIN waiting_thread' = 1..(Len(waiting_thread) + 1)
        /\ waiting_thread'[Len(waiting_thread) + 1] = t
        /\ \A i \in 1..Len(waiting_thread) : waiting_thread'[i] = waiting_thread[i]
    BY <1>t, <2>1, AppendProperties
  <2>4. \A u \in CvThreads : Listed(u)' <=> Listed(u) \/ u = t
    BY <1>t, <2>3 DEF Listed
  <2>5. NoneTwice'
    BY <1>t, <2>2, <2>3 DEF CvInv, NoneTwice, Listed
  <2>6. \A u \in CvThreads : SignalExact(u)'
    BY <1>t, <2>1, <2>2, <2>4 DEF CvInv, SignalExact, InWait
  <2> QED BY <1>t, <2>1, <2>3, <2>5, <2>6 DEF CvInv, CvTypeOK, CvPC
<1>3. ASSUME NEW t \in CvThreads, NEW timed \in BOOLEAN, CondRelease(t, timed) PROVE CvInv'
  BY <1>3, CvFrame DEF CondRelease, CvPC, InWait
<1>4. ASSUME NEW t \in CvThreads, CondWoken(t) PROVE CvInv'
  <2>1. /\ cvPc[t] \in InWait /\ cvPc' = [cvPc EXCEPT ![t] = "relock"]
        /\ helper[t] /\ helper' = [helper EXCEPT ![t] = FALSE]
        /\ waiting_thread' = waiting_thread
    BY <1>4 DEF CondWoken, CvStep, InWait
  <2>2. ~Listed(t) /\ \A u \in CvThreads : Listed(u)' <=> Listed(u)
    BY <2>1 DEF CvInv, SignalExact, Listed
  <2>3. \A u \in CvThreads : SignalExact(u)'
    BY <1>t, <2>1, <2>2 DEF CvInv, SignalExact, InWait
  <2> QED BY <1>t, <2>1, <2>3 DEF CvInv, CvTypeOK, NoneTwice, CvPC
<1>5. ASSUME NEW t \in CvThreads, CondTimeout(t) PROVE CvInv'
  BY <1>5, CvFrame DEF CondTimeout, CvPC, InWait
<1>6. ASSUME NEW t \in CvThreads, CondDelist(t) PROVE CvInv'
  <2>1. CASE ~Listed(t)
    BY <1>6, <2>1, CvFrame DEF CondDelist, CvPC, InWait
  <2>2. CASE Listed(t)
    <3>1. /\ cvPc[t] = "timeout" /\ cvPc' = [cvPc EXCEPT ![t] = "relock"]
          /\ helper' = helper /\ ~helper[t]
      BY <1>6, <2>2 DEF CondDelist, CvStep, CvInv, SignalExact
    <3>2. PICK i \in 1..Len(waiting_thread) :
             /\ waiting_thread[i] = t
             /\ waiting_thread' = [k \in 1..(Len(waiting_thread) - 1) |->
                                      waiting_thread[IF k < i THEN k ELSE k + 1]]
      BY <1>6, <2>2 DEF CondDelist, Unlink
    <3> DEFINE n == Len(waiting_thread)
               old(k) == IF k < i THEN k ELSE k + 1
    <3>3. /\ DOMAIN waiting_thread' = 1..(n - 1) /\ n - 1 \in Nat
          /\ \A k \in 1..(n - 1) : /\ waiting_thread'[k] = waiting_thread[old(k)]
                                   /\ old(k) \in 1..n /\ old(k) # i
          /\ \A j, k \in 1..(n - 1) : old(j) = old(k) => j = k
          /\ \A j \in 1..n : j # i => \E k \in 1..(n - 1) : old(k) = j
      <4>1. \A j \in 1..n : j # i => old(IF j < i THEN j ELSE j - 1) = j
                                     /\ (IF j < i THEN j ELSE j - 1) \in 1..(n - 1)
        BY <1>t
      <4>2. n \in Nat /\ n - 1 \in Nat /\ i \in Nat
        BY <1>t
      <4>3. DOMAIN waiting_thread' = 1..(n - 1)
        BY <3>2
      <4>4. \A k \in 1..(n - 1) : waiting_thread'[k] = waiting_thread[old(k)]
        BY <3>2
      <4>5. \A k \in 1..(n - 1) : old(k) \in 1..n /\ old(k) # i
        BY <4>2
      <4>6. \A j, k \in 1..(n - 1) : old(j) = old(k) => j = k
        BY <4>2
      <4>7. \A j \in 1..n : j # i => \E k \in 1..(n - 1) : old(k) = j
        <5> HIDE DEF old
        <5> QED BY <4>1
      <4> QED BY <4>2, <4>3, <4>4, <4>5, <4>6, <4>7
    <3> HIDE DEF old
    <3>4. waiting_thread' \in Seq(CvThreads)
      <4>1. \A k \in 1..(n - 1) : waiting_thread'[k] \in CvThreads
        BY <1>t, <3>3
      <4>2. waiting_thread' \in [1..(n - 1) -> CvThreads]
        BY <3>2, <4>1
      <4> HIDE DEF n
      <4> QED BY <3>3, <4>2, IsASeq
    <3>5. NoneTwice'
      BY <1>t, <3>3, ZenonT(60) DEF CvInv, NoneTwice
    <3>6. \A u \in CvThreads : Listed(u)' <=> Listed(u) /\ u # t
      <4>1. \A k \in 1..(n - 1) : waiting_thread'[k] # t
        BY <1>t, <3>2, <3>3, ZenonT(60) DEF CvInv, NoneTwice
      <4>2. \A u \in CvThreads : Listed(u)' => Listed(u)
        BY <1>t, <3>3 DEF Listed
      <4>3. ASSUME NEW u \in CvThreads, Listed(u), u # t PROVE Listed(u)'
        <5>1. PICK j \in 1..n : waiting_thread[j] = u
          BY <1>t, <4>3 DEF Listed
        <5>2. PICK k \in 1..(n - 1) : old(k) = j
          BY <3>2, <3>3, <4>3, <5>1
        <5> QED BY <3>3, <5>1, <5>2 DEF Listed
      <4>4. ~Listed(t)'
        BY <3>3, <4>1 DEF Listed
      <4> QED BY <4>2, <4>3, <4>4
    <3>7. \A u \in CvThreads : SignalExact(u)'
      BY <1>t, <3>1, <3>6 DEF CvInv, SignalExact, InWait
    <3> QED BY <1>t, <3>1, <3>4, <3>5, <3>7 DEF CvInv, CvTypeOK, CvPC
  <2> QED BY <2>1, <2>2
<1>7. ASSUME NEW t \in CvThreads, CondSignal(t) PROVE CvInv'
  <2> DEFINE h == Head(waiting_thread)
             n == Len(waiting_thread)
  <2>1. /\ waiting_thread # <<>> /\ waiting_thread' = Tail(waiting_thread)
        /\ helper' = [helper EXCEPT ![h] = TRUE]
        /\ cvPc' = cvPc
    BY <1>7, <1>t DEF CondSignal, OwnerStep
  <2>2. /\ h \in CvThreads /\ h = waiting_thread[1] /\ 1 \in 1..n
        /\ waiting_thread' \in Seq(CvThreads)
        /\ DOMAIN waiting_thread' = 1..(n - 1)
        /\ \A k \in 1..(n - 1) : waiting_thread'[k] = waiting_thread[k + 1]
    BY <1>t, <2>1, HeadTailProperties
  <2>3. Listed(h)
    BY <1>t, <2>2 DEF Listed
  <2> HIDE DEF h
  <2>4. NoneTwice'
    <3> SUFFICES ASSUME NEW i \in 1..(n - 1), NEW j \in 1..(n - 1),
                        waiting_thread'[i] = waiting_thread'[j]
                 PROVE  i = j
      BY <2>2 DEF NoneTwice
    <3>1. /\ i + 1 \in DOMAIN waiting_thread /\ j + 1 \in DOMAIN waiting_thread
          /\ waiting_thread[i + 1] = waiting_thread[j + 1]
      BY <1>t, <2>2
    <3>2. i + 1 = j + 1
      BY <3>1 DEF CvInv, NoneTwice
    <3> QED BY <1>t, <3>2
  <2>5. \A u \in CvThreads : Listed(u)' <=> Listed(u) /\ u # h
    <3>1. \A k \in 1..(n - 1) : waiting_thread'[k] # h
      BY <1>t, <2>2 DEF CvInv, NoneTwice
    <3>2. \A k \in 1..n : waiting_thread[k] # h => k - 1 \in 1..(n - 1)
                                                   /\ waiting_thread'[k - 1] = waiting_thread[k]
      BY <1>t, <2>2
    <3>3. ASSUME NEW u \in CvThreads, Listed(u)' PROVE Listed(u) /\ u # h
      <4>1. PICK k \in 1..(n - 1) : waiting_thread'[k] = u
        BY <2>2, <3>3 DEF Listed
      <4>2. k + 1 \in DOMAIN waiting_thread /\ waiting_thread[k + 1] = u
        BY <1>t, <2>2, <4>1
      <4> QED BY <3>1, <4>1, <4>2 DEF Listed
    <3>4. ASSUME NEW u \in CvThreads, Listed(u), u # h PROVE Listed(u)'
      <4>1. PICK k \in 1..n : waiting_thread[k] = u
        BY <1>t, <3>4 DEF Listed
      <4>2. k - 1 \in DOMAIN waiting_thread' /\ waiting_thread'[k - 1] = u
        BY <2>2, <3>2, <3>4, <4>1
      <4> QED BY <4>2 DEF Listed
    <3> QED BY <3>3, <3>4
  <2>6. \A u \in CvThreads : SignalExact(u)'
    BY <1>t, <2>1, <2>2, <2>3, <2>5 DEF CvInv, SignalExact
  <2> QED BY <1>t, <2>1, <2>2, <2>4, <2>6 DEF CvInv, CvTypeOK
<1>8. ASSUME NEW t \in CvThreads, CondBroadcast(t) PROVE CvInv'
  <2>1. /\ helper' = [u \in CvThreads |-> helper[u] \/ Listed(u)]
        /\ waiting_thread' = <<>>
        /\ cvPc' = cvPc
    BY <1>8, <1>t DEF CondBroadcast, OwnerStep
  <2>2. \A u \in CvThreads : ~Listed(u)'
    BY <2>1 DEF Listed
  <2>3. \A u \in CvThreads : SignalExact(u)'
    BY <2>1, <2>2 DEF CvInv, SignalExact
  <2>4. helper' \in [CvThreads -> BOOLEAN]
    BY <2>1
  <2> QED BY <1>t, <2>1, <2>3, <2>4 DEF CvInv, CvTypeOK, NoneTwice
<1>9. CASE UNCHANGED cvVars
  BY <1>9 DEF cvVars, CvInv, CvTypeOK, NoneTwice, SignalExact, Listed
<1> QED BY <1>1, <1>2, <1>3, <1>4, <1>5, <1>6, <1>7, <1>8, <1>9 DEF CvNext

\* A signal of the Windows condition variables wakes exactly one wait of one
\* thread, for any number of threads, however signals, broadcasts and timeouts
\* fall: no event is ever left over for a later wait.
THEOREM SignalsWakeOneWait == CvSpec => []SignalsExact
<1>1. CvInv => SignalsExact
  BY DEF CvInv, SignalExact, NoneTwice, SignalsExact
<1> QED BY <1>1, CvInitial, CvStepInv, PTL DEF CvSpec

-----------------------------------------------------------------------------
(* SocketWrite *)

WriteAt == {"idle", "all", "first", "loop", "returned"}

Call == [at : WriteAt, len : Int, total : Int, allowed : Int, pushed : Nat, sent : Int]

WriteTypeOK ==
    /\ throttle \in Rates \cup {0}
    /\ last \in [time : Int, bytes : Nat] /\ last.time <= clock
    /\ clock \in Nat /\ second \in Nat
    /\ write \in Call
    /\ link \in {"open", "broken", "stopped"}

\* The round of push_all in progress fits into the limit, together with what mg_write has
\* counted for the second of last.time.
RoundFits ==
    /\ write.at \in {"first", "loop"} => throttle # 0
    /\ write.at = "all" => throttle = 0
    /\ write.pushed <= write.allowed \/ write.pushed = 0
    /\ last.bytes <= MaxRate
    /\ write.at = "first" => last.bytes + write.allowed <= MaxRate \/ write.allowed < 0
    /\ write.at = "loop" => write.allowed <= MaxRate

\* What has left in this second while the socket is open: a round that the clock overtook,
\* what is counted in last.bytes, and the round in progress.
SecondFits ==
    /\ write.at = "loop" => second <= 2 * MaxRate + write.pushed
    /\ write.at = "first" =>
         second <= IF last.time = clock THEN MaxRate + last.bytes + write.pushed ELSE write.pushed
    /\ write.at \notin {"first", "loop"} =>
         second <= IF last.time = clock THEN MaxRate + last.bytes ELSE MaxRate

WriteInv ==
    /\ WriteTypeOK /\ RoundFits
    /\ second <= 3 * MaxRate
    /\ link = "open" => SecondFits

\* The greatest rate is a rate, and bounds the others.
LEMMA MaxRateBounds == MaxRate \in Nat /\ \A r \in Rates \cup {0} : r \in Nat /\ r <= MaxRate
<1>1. PICK r \in Rates : \A q \in Rates : q <= r
  BY SocketWriteAssumption
<1>2. MaxRate \in Rates /\ \A q \in Rates : q <= MaxRate
  BY <1>1 DEF MaxRate
<1> QED BY <1>2, SocketWriteAssumption

\* A state of the call of mg_write, by its parts.
CallOf(at, len, total, allowed, pushed, sent) ==
    [at |-> at, len |-> len, total |-> total, allowed |-> allowed, pushed |-> pushed, sent |-> sent]

\* A new connection has sent nothing.
LEMMA WriteInitial == WriteInit => WriteInv
<1> SUFFICES ASSUME WriteInit PROVE WriteInv
  OBVIOUS
<1>1. WriteTypeOK
  BY DEF WriteInit, WriteTypeOK, NoWrite, WriteAt, Call
<1>2. RoundFits /\ SecondFits /\ second <= 3 * MaxRate
  BY MaxRateBounds DEF WriteInit, RoundFits, SecondFits, NoWrite
<1> QED BY <1>1, <1>2 DEF WriteInv

\* Every step of mg_write keeps the rounds within the limit of the second.
LEMMA WriteStepInv == WriteInv /\ [WriteNext]_writeVars => WriteInv'
<1> SUFFICES ASSUME WriteInv, [WriteNext]_writeVars PROVE WriteInv'
  OBVIOUS
<1>m. MaxRate \in Nat /\ throttle \in Nat /\ throttle <= MaxRate /\ MaxRate' = MaxRate
  BY MaxRateBounds DEF WriteInv, WriteTypeOK
<1>s. /\ write.at \in WriteAt /\ write.pushed \in Nat /\ write.allowed \in Int /\ write.len \in Int
      /\ write.total \in Int /\ write.sent \in Int
      /\ last.time \in Int /\ last.bytes \in Nat /\ last.time <= clock /\ clock \in Nat
      /\ second \in Nat
  BY DEF WriteInv, WriteTypeOK, Call
<1>c. write = CallOf(write.at, write.len, write.total, write.allowed, write.pushed, write.sent)
  BY DEF WriteInv, WriteTypeOK, Call, CallOf
<1>i. /\ throttle \in Rates \cup {0} /\ last \in [time : Int, bytes : Nat]
      /\ write \in Call
      /\ link \in {"open", "broken", "stopped"}
  BY DEF WriteInv, WriteTypeOK
<1>v. RoundFits /\ second <= 3 * MaxRate /\ (link = "open" => SecondFits)
  BY DEF WriteInv
<1>1. CASE SetThrottle
  <2>1. throttle' \in Rates
    BY <1>1 DEF SetThrottle
  <2>2. WriteTypeOK'
    BY <1>1, <1>i, <1>s, <2>1 DEF SetThrottle, WriteTypeOK
  <2>3. RoundFits' /\ (SecondFits => SecondFits')
    BY <1>1, <1>v, <1>m DEF SetThrottle, RoundFits, SecondFits
  <2> QED BY <1>1, <1>v, <1>m, <2>2, <2>3 DEF SetThrottle, WriteInv
<1>2. CASE MgWrite
  <2>1. PICK len \in 0..MaxWrite :
          LET fresh == IF clock # last.time THEN [time |-> clock, bytes |-> 0] ELSE last
          IN  IF throttle = 0
              THEN /\ write' = [NoWrite EXCEPT !.at = "all", !.len = len, !.allowed = len]
                   /\ UNCHANGED last
              ELSE /\ write' = [NoWrite EXCEPT !.at = "first", !.len = len,
                                               !.allowed = Least(throttle - fresh.bytes, len)]
                   /\ last' = fresh
    BY <1>2 DEF MgWrite
  <2>2. len \in Nat /\ write.at = "idle" /\ UNCHANGED <<throttle, clock, second, link>>
    BY <1>2, <2>1, SocketWriteAssumption DEF MgWrite
  <2>3. CASE throttle = 0
    <3>1. /\ write' \in Call
          /\ write'.at = "all" /\ write'.pushed = 0 /\ last' = last
      <4>1. write' = CallOf("all", len, 0, len, 0, 0)
        BY <2>1, <2>3 DEF NoWrite, CallOf
      <4> QED BY <2>1, <2>2, <2>3, <4>1 DEF WriteAt, Call, CallOf
    <3>2. WriteTypeOK'
      BY <1>i, <1>s, <2>2, <3>1 DEF WriteTypeOK
    <3>3. RoundFits' /\ (SecondFits => SecondFits')
      BY <1>v, <1>m, <2>2, <2>3, <3>1 DEF RoundFits, SecondFits
    <3> QED BY <1>v, <1>m, <2>2, <3>2, <3>3 DEF WriteInv
  <2>4. CASE throttle # 0
    <3> DEFINE bytes == IF clock # last.time THEN 0 ELSE last.bytes
    <3>1. /\ write' \in Call
          /\ write'.at = "first" /\ write'.pushed = 0
          /\ write'.allowed = Least(throttle - bytes, len)
          /\ last' \in [time : Int, bytes : Nat] /\ last'.time = clock /\ last'.bytes = bytes
      <4>1. write' = CallOf("first", len, 0, Least(throttle - bytes, len), 0, 0)
        BY <1>i, <1>s, <2>1, <2>4 DEF NoWrite, CallOf
      <4>2. Least(throttle - bytes, len) \in Int
        BY <1>m, <1>s, <2>2 DEF Least
      <4>3. last' \in [time : Int, bytes : Nat] /\ last'.time = clock /\ last'.bytes = bytes
        BY <1>i, <1>s, <2>1, <2>4
      <4> QED BY <2>2, <4>1, <4>2, <4>3 DEF WriteAt, Call, CallOf
    <3>2. WriteTypeOK'
      BY <1>i, <1>s, <2>2, <3>1 DEF WriteTypeOK
    <3>3. RoundFits'
      BY <1>v, <1>m, <1>s, <2>2, <2>4, <3>1 DEF RoundFits, Least
    <3>4. SecondFits => SecondFits'
      BY <1>v, <1>m, <1>s, <2>2, <3>1 DEF SecondFits
    <3> QED BY <1>v, <1>m, <2>2, <3>2, <3>3, <3>4 DEF WriteInv
  <2> QED BY <2>3, <2>4
<1>3. CASE PushInner
  <2>1. PICK n \in 1..(write.allowed - write.pushed) :
             Leaves(n) /\ write' = [write EXCEPT !.pushed = @ + n, !.sent = @ + n]
    BY <1>3 DEF PushInner
  <2>2. /\ write.at \in {"all", "first", "loop"} /\ link = "open"
        /\ UNCHANGED <<throttle, last, clock, link>> /\ n \in Nat
    BY <1>3, <1>s, <2>1 DEF PushInner, Pushing
  <2>3. /\ write' \in Call
        /\ write'.at = write.at /\ write'.allowed = write.allowed
        /\ write'.pushed = write.pushed + n /\ write'.pushed <= write.allowed
    <3>1. write' = CallOf(write.at, write.len, write.total, write.allowed, write.pushed + n,
                          write.sent + n)
      BY <1>i, <1>c, <2>1 DEF CallOf
    <3>2. write.pushed + n \in Nat /\ write.sent + n \in Int /\ write.pushed + n <= write.allowed
      BY <1>s, <2>1, <2>2
    <3> QED BY <1>s, <3>1, <3>2 DEF Call, CallOf
  <2>4. /\ second' \in Nat
        /\ write.at # "all" => second' = second + n
        /\ write.at = "all" => second' = second
    BY <1>s, <1>v, <2>1, <2>2 DEF Leaves, RoundFits
  <2>5. WriteTypeOK'
    BY <1>i, <1>s, <2>2, <2>3, <2>4 DEF WriteTypeOK
  <2>6. RoundFits'
    BY <1>v, <1>s, <1>m, <2>2, <2>3 DEF RoundFits
  <2>7. SecondFits'
    BY <1>v, <1>s, <1>m, <2>2, <2>3, <2>4 DEF SecondFits
  <2>8. second' <= 3 * MaxRate
    BY <1>s, <1>m, <2>2, <2>3, <2>4, <2>6, <2>7, <1>v DEF RoundFits, SecondFits
  <2> QED BY <1>m, <2>2, <2>5, <2>6, <2>7, <2>8 DEF WriteInv
<1>4. CASE PushFails
  <2>1. PICK n \in 0..(write.allowed - write.pushed) :
          /\ link' = IF n = 0 THEN "broken" ELSE "stopped"
          /\ Leaves(n)
          /\ write' = [Returned(IF write.pushed = 0 THEN -1 ELSE write.pushed) EXCEPT !.sent = @ + n]
    BY <1>4 DEF PushFails
  <2>2. /\ write.at \in {"all", "first", "loop"} /\ link = "open" /\ write.pushed < write.allowed
        /\ UNCHANGED <<throttle, last, clock>> /\ n \in Nat /\ n <= write.allowed - write.pushed
        /\ link' \in {"broken", "stopped"}
    BY <1>4, <1>s, <2>1 DEF PushFails, Pushing
  <2>3. /\ write' \in Call
        /\ write'.at = "returned" /\ write'.allowed = write.allowed /\ write'.pushed = write.pushed
    <3>1. PICK total \in Int : write' = CallOf("returned", write.len, total, write.allowed,
                                               write.pushed, write.sent + n)
      <4> DEFINE total == IF write.at = "loop" THEN write.total
                          ELSE IF write.pushed = 0 THEN -1 ELSE write.pushed
      <4>1. total \in Int
        BY <1>s
      <4>2. write' = CallOf("returned", write.len, total, write.allowed, write.pushed, write.sent + n)
        BY <1>c, <2>1 DEF Returned, CallOf
      <4> QED BY <4>1, <4>2
    <3>2. write.sent + n \in Int
      BY <1>s, <2>2
    <3> QED BY <1>s, <3>1, <3>2 DEF WriteAt, Call, CallOf
  <2>4. /\ second' \in Nat
        /\ write.at # "all" => second' = second + n
        /\ write.at = "all" => second' = second
    BY <1>s, <1>v, <2>1, <2>2 DEF Leaves, RoundFits
  <2>5. second' <= 3 * MaxRate
    BY <1>s, <1>m, <1>v, <2>2, <2>4 DEF RoundFits, SecondFits
  <2>6. WriteTypeOK'
    BY <1>i, <1>s, <2>2, <2>3, <2>4 DEF WriteTypeOK
  <2>7. RoundFits'
    BY <1>v, <1>s, <1>m, <2>2, <2>3 DEF RoundFits
  <2> QED BY <1>m, <2>2, <2>5, <2>6, <2>7 DEF WriteInv
<1>5. CASE PushEnds
  <2>1. /\ link # "open" /\ UNCHANGED <<throttle, last, clock, second, link>>
        /\ write' = Returned(IF link = "broken" /\ write.pushed = 0 THEN -1 ELSE write.pushed)
    BY <1>5 DEF PushEnds
  <2>2. /\ write' \in Call
        /\ write'.at = "returned" /\ write'.allowed = write.allowed /\ write'.pushed = write.pushed
    <3>1. PICK total \in Int : write' = CallOf("returned", write.len, total, write.allowed,
                                               write.pushed, write.sent)
      <4> DEFINE n == IF link = "broken" /\ write.pushed = 0 THEN -1 ELSE write.pushed
                 total == IF write.at = "loop" THEN write.total ELSE n
      <4>1. total \in Int
        BY <1>s
      <4>2. write' = CallOf("returned", write.len, total, write.allowed, write.pushed, write.sent)
        BY <1>c, <2>1 DEF Returned, CallOf
      <4> QED BY <4>1, <4>2
    <3> QED BY <1>s, <3>1 DEF WriteAt, Call, CallOf
  <2>3. WriteTypeOK'
    BY <1>i, <1>s, <2>1, <2>2 DEF WriteTypeOK
  <2>4. RoundFits'
    BY <1>v, <1>s, <1>m, <2>1, <2>2 DEF RoundFits
  <2> QED BY <1>m, <1>v, <2>1, <2>3, <2>4 DEF WriteInv
<1>6. CASE PushDone
  <2>1. /\ write.at \in {"all", "first"} /\ write.pushed >= write.allowed
        /\ UNCHANGED <<throttle, clock, second, link>>
    BY <1>6 DEF PushDone, Pushing
  <2>2. CASE write.at = "all" \/ write.pushed # write.allowed
    <3>1. last' = last /\ write' = [write EXCEPT !.total = write.pushed, !.at = "returned"]
      BY <1>6, <2>2 DEF PushDone
    <3>2. /\ write' \in Call
          /\ write'.at = "returned" /\ write'.allowed = write.allowed /\ write'.pushed = write.pushed
      <4>1. write' = CallOf("returned", write.len, write.pushed, write.allowed, write.pushed,
                            write.sent)
        BY <1>c, <3>1 DEF CallOf
      <4> QED BY <1>s, <4>1 DEF WriteAt, Call, CallOf
    <3>3. WriteTypeOK'
      BY <1>i, <1>s, <2>1, <3>1, <3>2 DEF WriteTypeOK
    <3>4. RoundFits'
      BY <1>v, <1>s, <1>m, <2>1, <3>1, <3>2 DEF RoundFits
    <3>5. SecondFits => SecondFits'
      BY <1>v, <1>s, <1>m, <2>1, <2>2, <3>1, <3>2 DEF SecondFits, RoundFits
    <3> QED BY <1>m, <1>v, <2>1, <3>3, <3>4, <3>5 DEF WriteInv
  <2>3. CASE write.at = "first" /\ write.pushed = write.allowed
    <3>1. /\ last' \in [time : Int, bytes : Nat] /\ last'.time = last.time
          /\ last'.bytes = last.bytes + write.pushed
      BY <1>6, <1>i, <1>s, <2>3 DEF PushDone
    <3>2. CASE link = "stopped" \/ write.pushed >= write.len
      <4>1. write' = [write EXCEPT !.total = write.pushed, !.at = "returned"]
        BY <1>6, <2>3, <3>2 DEF PushDone
      <4>2. /\ write' \in Call
            /\ write'.at = "returned" /\ write'.allowed = write.allowed /\ write'.pushed = write.pushed
        <5>1. write' = CallOf("returned", write.len, write.pushed, write.allowed, write.pushed,
                              write.sent)
          BY <1>c, <4>1 DEF CallOf
        <5> QED BY <1>s, <5>1 DEF WriteAt, Call, CallOf
      <4>3. WriteTypeOK'
        BY <1>i, <1>s, <2>1, <3>1, <4>2 DEF WriteTypeOK
      <4>4. RoundFits'
        BY <1>v, <1>s, <1>m, <2>1, <2>3, <3>1, <4>2 DEF RoundFits
      <4>5. SecondFits => SecondFits'
        BY <1>v, <1>s, <1>m, <2>1, <2>3, <3>1, <4>2 DEF SecondFits, RoundFits
      <4> QED BY <1>m, <1>v, <2>1, <4>3, <4>4, <4>5 DEF WriteInv
    <3>3. CASE ~(link = "stopped" \/ write.pushed >= write.len)
      <4>1. write' = [write EXCEPT !.total = write.pushed, !.pushed = 0, !.at = "loop",
                                   !.allowed = Least(throttle, write.len - write.pushed)]
        BY <1>6, <2>3, <3>3 DEF PushDone
      <4>2. /\ write' \in Call
            /\ write'.at = "loop" /\ write'.allowed <= throttle /\ write'.pushed = 0
        <5> DEFINE allowed == Least(throttle, write.len - write.pushed)
        <5>1. write' = CallOf("loop", write.len, write.pushed, allowed, 0, write.sent)
          BY <1>c, <4>1 DEF CallOf
        <5>2. allowed \in Int /\ allowed <= throttle
          BY <1>s, <1>m DEF Least
        <5> HIDE DEF allowed
        <5> QED BY <1>s, <5>1, <5>2 DEF WriteAt, Call, CallOf
      <4>3. WriteTypeOK'
        BY <1>i, <1>s, <2>1, <3>1, <4>2 DEF WriteTypeOK
      <4>4. RoundFits'
        <5>1. write'.allowed \in Int
          BY <4>2 DEF Call
        <5> QED BY <1>v, <1>s, <1>m, <2>1, <2>3, <3>1, <4>2, <5>1 DEF RoundFits
      <4>5. SecondFits => SecondFits'
        BY <1>v, <1>s, <1>m, <2>1, <2>3, <3>1, <4>2 DEF SecondFits, RoundFits
      <4> QED BY <1>m, <1>v, <2>1, <4>3, <4>4, <4>5 DEF WriteInv
    <3> QED BY <3>2, <3>3
  <2> QED BY <2>1, <2>2, <2>3
<1>7. CASE PushSleep
  <2>1. /\ write.at = "loop" /\ write.pushed = write.allowed /\ UNCHANGED <<throttle, link>>
        /\ clock' = clock + 1 /\ second' = 0 /\ last' = [time |-> clock + 1, bytes |-> write.allowed]
    BY <1>7 DEF PushSleep
  <2>2. PICK total \in Int, at \in {"returned", "loop"} :
           write' = [write EXCEPT !.total = total, !.pushed = 0,
                                  !.allowed = Least(throttle, write.len - total), !.at = at]
    <3> DEFINE total == write.total + write.pushed
               at == IF total >= write.len \/ link = "stopped" THEN "returned" ELSE "loop"
    <3>1. total \in Int /\ at \in {"returned", "loop"}
      BY <1>s
    <3>2. write' = [write EXCEPT !.total = total, !.pushed = 0,
                                 !.allowed = Least(throttle, write.len - total), !.at = at]
      BY <1>7 DEF PushSleep
    <3> HIDE DEF total, at
    <3> QED BY <3>1, <3>2
  <2>3. /\ write' \in Call
        /\ write'.at \in {"returned", "loop"} /\ write'.allowed <= throttle /\ write'.pushed = 0
    <3> DEFINE allowed == Least(throttle, write.len - total)
    <3>1. write' = CallOf(at, write.len, total, allowed, 0, write.sent)
      BY <1>c, <2>2 DEF CallOf
    <3>2. allowed \in Int /\ allowed <= throttle
      BY <1>s, <1>m DEF Least
    <3> HIDE DEF allowed
    <3>3. at \in WriteAt
      BY DEF WriteAt
    <3>4. write' \in Call
      BY <1>s, <3>1, <3>2, <3>3 DEF Call, CallOf
    <3>5. write'.at = at /\ write'.allowed = allowed /\ write'.pushed = 0
      BY <3>1 DEF CallOf
    <3> QED BY <3>2, <3>4, <3>5
  <2>4. /\ last' \in [time : Int, bytes : Nat] /\ last'.time = clock + 1 /\ last'.bytes = write.allowed
        /\ write'.allowed \in Int
    BY <1>s, <2>1, <2>3 DEF Call
  <2>5. WriteTypeOK'
    BY <1>i, <1>s, <2>1, <2>3, <2>4 DEF WriteTypeOK
  <2>6. RoundFits'
    BY <1>v, <1>s, <1>m, <2>1, <2>3, <2>4 DEF RoundFits
  <2>7. SecondFits' /\ second' <= 3 * MaxRate
    BY <1>s, <1>m, <2>1, <2>3, <2>4 DEF SecondFits
  <2> QED BY <1>m, <2>5, <2>6, <2>7 DEF WriteInv
<1>8. CASE WriteReturns
  <2>1. write.at = "returned" /\ UNCHANGED <<throttle, last, clock, second, link>>
    BY <1>8 DEF WriteReturns
  <2>2. /\ write' \in Call
        /\ write'.at = "idle" /\ write'.allowed = 0 /\ write'.pushed = 0
    <3>1. write' = CallOf("idle", 0, 0, 0, 0, 0)
      BY <1>8 DEF WriteReturns, NoWrite, CallOf
    <3> QED BY <3>1 DEF WriteAt, Call, CallOf
  <2>3. WriteTypeOK'
    BY <1>i, <1>s, <2>1, <2>2 DEF WriteTypeOK
  <2>4. RoundFits' /\ (SecondFits => SecondFits')
    BY <1>v, <1>s, <1>m, <2>1, <2>2 DEF RoundFits, SecondFits
  <2> QED BY <1>m, <1>v, <2>1, <2>3, <2>4 DEF WriteInv
<1>9. CASE Tick
  <2>1. clock' = clock + 1 /\ second' = 0 /\ UNCHANGED <<throttle, last, write, link>>
    BY <1>9 DEF Tick
  <2>2. WriteTypeOK'
    BY <1>i, <1>s, <2>1 DEF WriteTypeOK
  <2>3. RoundFits'
    BY <1>v, <1>m, <2>1 DEF RoundFits
  <2>4. SecondFits' /\ second' <= 3 * MaxRate
    BY <1>s, <1>m, <2>1 DEF SecondFits
  <2> QED BY <1>m, <2>2, <2>3, <2>4 DEF WriteInv
<1>10. CASE StopWrite
  BY <1>10, <1>i, <1>s, <1>m, <1>v DEF StopWrite, WriteInv, WriteTypeOK, RoundFits
<1>11. CASE CloseWrite
  <2>1. WriteTypeOK'
    BY <1>11 DEF CloseWrite, WriteTypeOK, NoWrite, WriteAt, Call
  <2>2. RoundFits' /\ SecondFits' /\ second' <= 3 * MaxRate
    BY <1>11, <1>m DEF CloseWrite, RoundFits, SecondFits, NoWrite
  <2> QED BY <1>m, <2>1, <2>2 DEF WriteInv
<1>12. CASE UNCHANGED writeVars
  BY <1>12, <1>m DEF writeVars, WriteInv, WriteTypeOK, RoundFits, SecondFits
<1> QED BY <1>1, <1>2, <1>3, <1>4, <1>5, <1>6, <1>7, <1>8, <1>9, <1>10, <1>11, <1>12 DEF WriteNext

\* No second sees more than three times the greatest rate leave, for all rates and lengths,
\* however writes, partial sends, failures and the clock fall (mg_write, push_all).
THEOREM RateIsBounded == WriteSpec => []RateBound
<1>1. WriteInv => RateBound
  BY DEF WriteInv, RateBound
<1> QED BY <1>1, WriteInitial, WriteStepInv, PTL DEF WriteSpec

-----------------------------------------------------------------------------
(* Domains *)

VConn == [at : {"idle", "sslize", "accept", "open"}, ssl : BOOLEAN, sni : HostNames,
          ctx : AllDomains \cup {"none"}, known : SUBSET AllDomains, host : HostNames,
          servedBy : AllDomains \cup {"none"}]

DomainsTypeOK ==
    /\ domainList \in Seq(AllDomains)
    /\ dom_ctx \in [DomWorkers -> AllDomains]
    /\ vconn \in [DomWorkers -> VConn]

\* A context is chosen before the handshake, so that it is there when the handshake needs it.
DomainsInv ==
    /\ DomainsTypeOK /\ TlsDomainOwn
    /\ \A w \in DomWorkers : vconn[w].at = "accept" => vconn[w].ctx \in AllDomains

\* The domains of the list are domains of the context.
LEMMA KnownDomains == ASSUME DomainsTypeOK PROVE Known \subseteq AllDomains
  BY DEF DomainsTypeOK, Known

\* When one worker gets a connection and a domain that fit, the other workers keep theirs.
LEMMA OtherConnections ==
    ASSUME DomainsInv, NEW w \in DomWorkers, NEW c \in VConn, NEW d \in AllDomains,
           domainList' \in Seq(AllDomains), vconn' = [vconn EXCEPT ![w] = c],
           dom_ctx' = [dom_ctx EXCEPT ![w] = d],
           c.at = "accept" => c.ctx \in AllDomains,
           c.at = "open" /\ c.ssl => d = IF c.sni \in c.known THEN c.sni ELSE Default
    PROVE  DomainsInv'
<1>1. DomainsTypeOK'
  BY DEF DomainsInv, DomainsTypeOK
<1>2. /\ vconn'[w] = c /\ dom_ctx'[w] = d
      /\ \A u \in DomWorkers : u # w => vconn'[u] = vconn[u] /\ dom_ctx'[u] = dom_ctx[u]
  BY DEF DomainsInv, DomainsTypeOK
<1> QED BY <1>1, <1>2 DEF DomainsInv, TlsDomainOwn

\* Every step of every worker keeps TLS connections in the domain of their server name.
LEMMA DomainsStepInv == DomainsInv /\ [DomainsNext]_domainVars => DomainsInv'
<1> SUFFICES ASSUME DomainsInv, [DomainsNext]_domainVars PROVE DomainsInv'
  OBVIOUS
<1>t. /\ domainList \in Seq(AllDomains) /\ Known \subseteq AllDomains /\ Default \in AllDomains
      /\ dom_ctx \in [DomWorkers -> AllDomains] /\ vconn \in [DomWorkers -> VConn]
      /\ NoVConn \in VConn /\ NoVConn.at = "idle"
      /\ \A w \in DomWorkers : dom_ctx = [dom_ctx EXCEPT ![w] = dom_ctx[w]]
  BY KnownDomains DEF DomainsInv, DomainsTypeOK, AllDomains, NoVConn, VConn, HostNames
<1>d. ASSUME NEW w \in DomWorkers, Dropped(w), UNCHANGED <<domainList, dom_ctx>> PROVE DomainsInv'
  BY <1>d, <1>t, OtherConnections DEF Dropped
<1>1. CASE \E d \in ExtraDomains : StartDomain(d)
  <2>1. PICK d \in ExtraDomains : StartDomain(d)
    BY <1>1
  <2>2. domainList' \in Seq(AllDomains)
    BY <1>t, <2>1 DEF StartDomain, AllDomains
  <2> QED BY <2>1, <2>2 DEF StartDomain, DomainsInv, DomainsTypeOK, TlsDomainOwn
<1>2. CASE \E d \in AllDomains, good \in BOOLEAN : ReplacePem(d, good)
  BY <1>2 DEF ReplacePem, DomainsInv, DomainsTypeOK, TlsDomainOwn
<1>3. ASSUME NEW w \in DomWorkers, NEW p \in Peers, NEW ssl \in BOOLEAN, TakeConnection(w, p, ssl)
      PROVE  DomainsInv'
  <2> DEFINE c == [NoVConn EXCEPT !.at = IF ssl THEN "sslize" ELSE "open", !.ssl = ssl]
  <2>1. c \in VConn /\ c.at # "accept" /\ ~(c.at = "open" /\ c.ssl)
    BY <1>3 DEF VConn, NoVConn, HostNames
  <2>2. vconn' = [vconn EXCEPT ![w] = c] /\ UNCHANGED <<domainList, dom_ctx>>
    BY <1>3 DEF TakeConnection
  <2> HIDE DEF c
  <2> QED BY <1>t, <2>1, <2>2, OtherConnections
<1>4. ASSUME NEW w \in DomWorkers, NEW caGood \in BOOLEAN, RefreshFails(w, caGood) PROVE DomainsInv'
  BY <1>4, <1>d DEF RefreshFails
<1>5. ASSUME NEW w \in DomWorkers, SslNew(w) PROVE DomainsInv'
  <2> DEFINE c == [vconn[w] EXCEPT !.at = "accept", !.ctx = dom_ctx[w]]
  <2>1. c \in VConn /\ c.at = "accept" /\ c.ctx \in AllDomains
    <3>1. vconn[w] \in VConn /\ dom_ctx[w] \in AllDomains
      BY <1>t
    <3> QED BY <3>1 DEF VConn
  <2>2. vconn' = [vconn EXCEPT ![w] = c] /\ UNCHANGED <<domainList, dom_ctx>>
    BY <1>5, <1>t DEF SslNew
  <2> HIDE DEF c
  <2> QED BY <1>t, <2>1, <2>2, OtherConnections
<1>6. ASSUME NEW w \in DomWorkers, SslNewFails(w) \/ AcceptFails(w) \/ CloseVConn(w) PROVE DomainsInv'
  BY <1>6, <1>d DEF SslNewFails, AcceptFails, CloseVConn
<1>7. ASSUME NEW w \in DomWorkers, NEW sni \in HostNames, Accepts(w, sni) PROVE DomainsInv'
  <2> DEFINE d == ServerName(dom_ctx[w], sni)
             ctx == IF d \in NoTlsDomains THEN vconn[w].ctx ELSE d
             open == [vconn[w] EXCEPT !.at = "open", !.sni = sni, !.ctx = ctx, !.known = Known]
             c == IF keyPair[ctx] = 0 THEN NoVConn ELSE open
  <2>1. /\ d \in AllDomains /\ (d = IF sni \in Known THEN sni ELSE Default)
        /\ ctx \in AllDomains /\ vconn[w] \in VConn
    <3>1. vconn[w].ctx \in AllDomains
      BY <1>7 DEF Accepts, DomainsInv
    <3> QED BY <1>t, <3>1 DEF ServerName
  <2>2. /\ vconn' = [vconn EXCEPT ![w] = c] /\ dom_ctx' = [dom_ctx EXCEPT ![w] = d]
        /\ domainList' = domainList
    BY <1>7, <1>t DEF Accepts
  <2> HIDE DEF d, ctx
  <2>3. open \in VConn /\ open.at = "open" /\ open.sni = sni /\ open.known = Known
    BY <1>t, <2>1 DEF VConn
  <2> HIDE DEF open
  <2>4. /\ c \in VConn /\ c.at # "accept"
        /\ c.at = "open" => c.sni = sni /\ c.known = Known
    BY <1>t, <2>3
  <2> HIDE DEF c
  <2> QED BY <1>t, <2>1, <2>2, <2>4, OtherConnections
<1>8. ASSUME NEW w \in DomWorkers, NEW host \in HostNames, PlainRequest(w, host) PROVE DomainsInv'
  <2> DEFINE d == PlainDomain(w, host)
             c == [vconn[w] EXCEPT !.host = host, !.servedBy = d, !.known = Known]
  <2>1. d \in AllDomains /\ vconn[w] \in VConn /\ vconn[w].at = "open" /\ ~vconn[w].ssl
    BY <1>8, <1>t DEF PlainRequest, PlainDomain
  <2>2. /\ vconn' = [vconn EXCEPT ![w] = c] /\ dom_ctx' = [dom_ctx EXCEPT ![w] = d]
        /\ domainList' = domainList
    BY <1>8, <1>t DEF PlainRequest
  <2> HIDE DEF d
  <2>3. c \in VConn /\ c.at = "open" /\ ~c.ssl
    BY <1>t, <2>1 DEF VConn
  <2> HIDE DEF c
  <2> QED BY <1>t, <2>1, <2>2, <2>3, OtherConnections
<1>9. ASSUME NEW w \in DomWorkers, NEW host \in HostNames, TlsRequest(w, host) PROVE DomainsInv'
  <2> DEFINE served == [vconn[w] EXCEPT !.host = host, !.servedBy = dom_ctx[w]]
  <2>1. CASE Dropped(w)
    BY <1>9, <1>d, <2>1 DEF TlsRequest
  <2>2. CASE vconn' = [vconn EXCEPT ![w] = served]
    <3>1. /\ vconn[w] \in VConn /\ dom_ctx[w] \in AllDomains
          /\ vconn[w].at = "open" /\ vconn[w].ssl /\ UNCHANGED <<domainList, dom_ctx>>
      BY <1>9, <1>t DEF TlsRequest
    <3>2. /\ served \in VConn /\ served.at = "open" /\ served.sni = vconn[w].sni
          /\ served.known = vconn[w].known
      BY <3>1 DEF VConn
    <3>3. dom_ctx[w] = IF served.sni \in served.known THEN served.sni ELSE Default
      BY <3>1, <3>2 DEF DomainsInv, TlsDomainOwn
    <3> HIDE DEF served
    <3> QED BY <1>t, <2>2, <3>1, <3>2, <3>3, OtherConnections
  <2> QED BY <1>9, <2>1, <2>2 DEF TlsRequest, Dropped
<1>10. CASE UNCHANGED domainVars
  BY <1>10 DEF domainVars, DomainsInv, DomainsTypeOK, TlsDomainOwn
<1> QED BY <1>1, <1>2, <1>3, <1>4, <1>5, <1>6, <1>7, <1>8, <1>9, <1>10 DEF DomainsNext

\* A TLS connection is in the domain of its own server name, for any domains, workers and
\* certificates, and whichever connections its worker served before.
THEOREM TlsStaysInDomain == DomainsSpec => []TlsDomainOwn
<1>1. DomainsInit => DomainsInv
  <2> SUFFICES ASSUME DomainsInit PROVE DomainsInv
    OBVIOUS
  <2>1. NoVConn \in VConn /\ NoVConn.at = "idle"
    BY DEF NoVConn, VConn, HostNames
  <2>2. DomainsTypeOK
    BY <2>1 DEF DomainsInit, DomainsTypeOK, AllDomains
  <2> QED BY <2>1, <2>2 DEF DomainsInit, DomainsInv, TlsDomainOwn
<1>2. DomainsInv => TlsDomainOwn
  BY DEF DomainsInv
<1> QED BY <1>1, <1>2, DomainsStepInv, PTL DEF DomainsSpec

-----------------------------------------------------------------------------
(* Response *)

Sends == [kind : {"head", "body"}, status : Int]

Replies == [request_state : Int, num_headers : Nat, status_code : Int,
            in_error_handler : BOOLEAN, must_close : BOOLEAN]

Handlers == [by : {"callback", "page"}, status : Statuses]

ResponseTypeOK ==
    /\ reply \in Replies
    /\ wire \in Seq(Sends)
    /\ frames \in Seq(Handlers)

\* Nothing was sent as long as a header can still be started or sent.
NothingSentYet == reply.request_state \in {0, 1} => wire = <<>>

ResponseInv == ResponseTypeOK /\ NothingSentYet /\ ResponseOrdered

\* Elements of a body.
BodyOnly(s) == \A k \in 1..Len(s) : s[k].kind = "body"

HeadFirst(s) == \A k \in 2..Len(s) : s[k].kind # "head"

\* A body behind a response that has its header at the beginning.
LEMMA BodyBehind ==
    ASSUME NEW w \in Seq(Sends), HeadFirst(w), NEW s \in Seq(Sends), BodyOnly(s)
    PROVE  w \o s \in Seq(Sends) /\ HeadFirst(w \o s)
<1>1. w \o s \in Seq(Sends)
  OBVIOUS
<1>2. ASSUME NEW k \in 2..Len(w \o s) PROVE (w \o s)[k].kind # "head"
  <2>1. CASE k <= Len(w)
    <3>1. (w \o s)[k] = w[k] /\ k \in 2..Len(w)
      BY <2>1
    <3> QED BY <3>1 DEF HeadFirst
  <2>2. CASE k > Len(w)
    <3>1. (w \o s)[k] = s[k - Len(w)] /\ k - Len(w) \in 1..Len(s)
      BY <2>2
    <3> QED BY <3>1 DEF BodyOnly
  <2> QED BY <2>1, <2>2
<1> QED BY <1>1, <1>2 DEF HeadFirst

\* The same with a header before it, which was not sent with anything before.
LEMMA HeaderThenBody ==
    ASSUME NEW w \in Seq(Sends), HeadFirst(w), NEW h \in Seq(Sends), Len(h) <= 1, h # <<>> => w = <<>>,
           NEW s \in Seq(Sends), BodyOnly(s)
    PROVE  w \o (h \o s) \in Seq(Sends) /\ HeadFirst(w \o (h \o s))
<1>1. CASE h = <<>>
  <2>1. h \o s = s
    BY <1>1
  <2> QED BY <2>1, BodyBehind
<1>2. CASE h # <<>>
  <2>1. HeadFirst(h)
    BY DEF HeadFirst
  <2>2. w \o (h \o s) = h \o s
    BY <1>2
  <2> QED BY <2>1, <2>2, BodyBehind
<1> QED BY <1>1, <1>2

\* What the functions on the reply do to the flags of the error handlers and to
\* request_state: it never goes back to 0 or 1.
SameHandler(r, s) == s.in_error_handler = r.in_error_handler

WithHeader(r, c, s, n) == [r EXCEPT !.status_code = c, !.request_state = s, !.num_headers = n]
WithState(r, s, n) == [r EXCEPT !.request_state = s, !.num_headers = n]

\* Assigning them gives a reply again.
LEMMA ReplyAssigned ==
    ASSUME NEW r \in Replies, NEW c \in Int, NEW s \in Int, NEW n \in Nat
    PROVE  /\ WithHeader(r, c, s, n) \in Replies /\ SameHandler(r, WithHeader(r, c, s, n))
           /\ WithHeader(r, c, s, n).request_state = s
           /\ WithState(r, s, n) \in Replies /\ SameHandler(r, WithState(r, s, n))
           /\ WithState(r, s, n).request_state = s
<1>1. WithHeader(r, c, s, n) \in Replies
  BY DEF WithHeader, Replies
<1>2. SameHandler(r, WithHeader(r, c, s, n)) /\ WithHeader(r, c, s, n).request_state = s
  BY DEF WithHeader, Replies, SameHandler
<1>3. WithState(r, s, n) \in Replies
  BY DEF WithState, Replies
<1>4. SameHandler(r, WithState(r, s, n)) /\ WithState(r, s, n).request_state = s
  BY DEF WithState, Replies, SameHandler
<1> QED BY <1>1, <1>2, <1>3, <1>4

\* mg_response_header_start.
LEMMA StartedReply ==
    ASSUME NEW r \in Replies, NEW status \in Statuses
    PROVE  /\ Started(r, status) \in Replies /\ SameHandler(r, Started(r, status))
           /\ Started(r, status).request_state = IF r.request_state = 0 THEN 1 ELSE r.request_state
<1>1. Started(r, status) = IF r.request_state # 0 THEN r ELSE WithHeader(r, status, 1, 0)
  BY DEF Started, WithHeader
<1>2. status \in Int /\ 1 \in Int /\ 0 \in Nat /\ SameHandler(r, r)
  BY DEF Statuses, SameHandler
<1> QED BY <1>1, <1>2, ReplyAssigned

\* mg_response_header_add.
LEMMA AddedReply ==
    ASSUME NEW r \in Replies, NEW n \in Nat
    PROVE  /\ Added(r, n) \in Replies /\ SameHandler(r, Added(r, n))
           /\ Added(r, n).request_state = r.request_state
<1>1. r.num_headers \in Nat /\ Fewer(r.num_headers + n, MaxHeaders) \in Nat
  BY ResponseAssumption DEF Fewer, Replies
<1> DEFINE m == Fewer(r.num_headers + n, MaxHeaders)
<1>2. Added(r, n) = IF r.request_state # 1 THEN r ELSE [r EXCEPT !.num_headers = m]
  BY DEF Added
<1> HIDE DEF m
<1> QED BY <1>1, <1>2 DEF Replies, SameHandler, m

\* mg_response_header_send.
LEMMA SentReply ==
    ASSUME NEW r \in Replies
    PROVE  /\ Sent(r) \in Replies /\ SameHandler(r, Sent(r))
           /\ Sent(r).request_state = IF r.request_state = 1 THEN 3 ELSE r.request_state
<1>1. Sent(r) = IF r.request_state # 1 THEN r ELSE WithState(r, 3, 0)
  BY DEF Sent, WithState
<1>2. r.status_code \in Int /\ 3 \in Int /\ 0 \in Nat /\ SameHandler(r, r)
  BY DEF SameHandler, Replies
<1>3. CASE r.request_state # 1
  BY <1>1, <1>2, <1>3
<1>4. CASE r.request_state = 1
  <2>1. Sent(r) = WithState(r, 3, 0)
    BY <1>1, <1>4
  <2>2. /\ WithState(r, 3, 0) \in Replies /\ SameHandler(r, WithState(r, 3, 0))
        /\ WithState(r, 3, 0).request_state = 3
    BY <1>2, ReplyAssigned
  <2> QED BY <1>4, <2>1, <2>2
<1> QED BY <1>3, <1>4, Zenon

\* What it sends.
LEMMA HeaderOfReply ==
    ASSUME NEW r \in Replies
    PROVE  /\ Header(r) \in Seq(Sends) /\ Len(Header(r)) <= 1
           /\ Header(r) # <<>> => r.request_state = 1
<1> DEFINE e == [kind |-> "head", status |-> r.status_code]
<1>1. e \in Sends
  BY DEF Sends, Replies
<1>2. Header(r) = IF r.request_state # 1 THEN <<>> ELSE <<e>>
  BY DEF Header
<1> HIDE DEF e
<1>3. CASE r.request_state # 1
  BY <1>2, <1>3
<1>4. CASE r.request_state = 1
  BY <1>1, <1>2, <1>4
<1> QED BY <1>3, <1>4, Zenon

\* What mg_write sends.
LEMMA BodyOfReply ==
    ASSUME NEW r \in Replies
    PROVE  Body(r) \in Sends /\ Body(r).kind = "body"
BY DEF Body, Sends, Replies

\* A step that sends a header, if that is still possible, and some body; the handlers that
\* run stay the same.
LEMMA ResponseGrows ==
    ASSUME ResponseInv, NEW h \in Seq(Sends), Len(h) <= 1, h # <<>> => reply.request_state \in {0, 1},
           NEW s \in Seq(Sends), BodyOnly(s), wire' = wire \o (h \o s), reply' \in Replies,
           reply'.request_state \in {0, 1} => reply.request_state \in {0, 1} /\ h = <<>> /\ s = <<>>
    PROVE  wire' \in Seq(Sends) /\ HeaderFirst' /\ NothingSentYet'
<1>1. wire \in Seq(Sends) /\ HeadFirst(wire) /\ (h # <<>> => wire = <<>>)
  BY DEF ResponseInv, ResponseTypeOK, ResponseOrdered, HeaderFirst, HeadFirst, NothingSentYet
<1>2. wire' \in Seq(Sends) /\ HeadFirst(wire')
  BY <1>1, HeaderThenBody
<1>3. NothingSentYet'
  <2> SUFFICES ASSUME reply'.request_state \in {0, 1} PROVE wire' = <<>>
    BY DEF NothingSentYet
  <2>1. wire = <<>> /\ h = <<>> /\ s = <<>>
    BY DEF ResponseInv, NothingSentYet
  <2> QED BY <2>1
<1> QED BY <1>2, <1>3 DEF HeaderFirst, HeadFirst

\* The same of a header alone.
LEMMA ResponseHeader ==
    ASSUME ResponseInv, NEW h \in Seq(Sends), Len(h) <= 1, h # <<>> => reply.request_state \in {0, 1},
           wire' = wire \o h, reply' \in Replies, reply'.request_state \notin {0, 1}
    PROVE  wire' \in Seq(Sends) /\ HeaderFirst' /\ NothingSentYet'
<1>1. wire \in Seq(Sends) /\ HeadFirst(wire) /\ (h # <<>> => wire = <<>>)
  BY DEF ResponseInv, ResponseTypeOK, ResponseOrdered, HeaderFirst, HeadFirst, NothingSentYet
<1>2. HeadFirst(h)
  BY DEF HeadFirst
<1>3. wire' \in {wire, h}
  BY <1>1
<1>4. wire' \in Seq(Sends) /\ HeadFirst(wire')
  BY <1>1, <1>2, <1>3
<1> QED BY <1>4 DEF HeaderFirst, HeadFirst, NothingSentYet

\* And of a body alone.
LEMMA ResponseBody ==
    ASSUME ResponseInv, NEW s \in Seq(Sends), BodyOnly(s), wire' = wire \o s,
           reply' \in Replies, reply'.request_state \notin {0, 1}
    PROVE  wire' \in Seq(Sends) /\ HeaderFirst' /\ NothingSentYet'
<1>1. wire \in Seq(Sends) /\ HeadFirst(wire)
  BY DEF ResponseInv, ResponseTypeOK, ResponseOrdered, HeaderFirst, HeadFirst
<1>2. wire' \in Seq(Sends) /\ HeadFirst(wire')
  BY <1>1, BodyBehind
<1> QED BY <1>2 DEF HeaderFirst, HeadFirst, NothingSentYet

\* Nothing is sent.
LEMMA ResponseKept ==
    ASSUME ResponseInv, UNCHANGED wire, reply' \in Replies,
           reply'.request_state \in {0, 1} => reply.request_state \in {0, 1}
    PROVE  wire' \in Seq(Sends) /\ HeaderFirst' /\ NothingSentYet'
BY DEF ResponseInv, ResponseTypeOK, ResponseOrdered, HeaderFirst, NothingSentYet

\* The error handler that runs is the same.
LEMMA HandlerKept ==
    ASSUME ResponseInv, UNCHANGED frames, SameHandler(reply, reply')
    PROVE  frames' \in Seq(Handlers) /\ ErrorHandlerOnce'
BY DEF ResponseInv, ResponseTypeOK, ResponseOrdered, ErrorHandlerOnce, SameHandler

\* The default error page.
LEMMA DefaultSent ==
    ASSUME ResponseInv, NEW r \in Replies, r.request_state = reply.request_state,
           NEW status \in Statuses, SendDefault(r, status)
    PROVE  /\ reply' \in Replies /\ SameHandler(r, reply')
           /\ wire' \in Seq(Sends) /\ HeaderFirst' /\ NothingSentYet'
<1> DEFINE c == [r EXCEPT !.must_close = TRUE]
           b == Started(c, status)
           a == Added(b, 1)
           q == Sent(a)
           h == Header(Started(r, status))
           s == IF has_body(status) THEN <<Body(r)>> ELSE <<>>
<1>1. reply' = IF has_body(status) THEN [q EXCEPT !.request_state = 10] ELSE q
  BY DEF SendDefault, DefaultReply
<1>2. wire' = wire \o (h \o s)
  BY DEF SendDefault, DefaultWire
<1>3. c \in Replies /\ SameHandler(r, c) /\ c.request_state = reply.request_state
  BY DEF Replies, SameHandler
<1> HIDE DEF c
<1>4. /\ b \in Replies /\ SameHandler(c, b)
      /\ b.request_state = IF reply.request_state = 0 THEN 1 ELSE reply.request_state
  BY <1>3, StartedReply, AddedReply, SentReply, HeaderOfReply, BodyOfReply
<1> HIDE DEF b
<1>5. a \in Replies /\ SameHandler(b, a) /\ a.request_state = b.request_state
  BY <1>4, StartedReply, AddedReply, SentReply, HeaderOfReply, BodyOfReply
<1> HIDE DEF a
<1>6. /\ q \in Replies /\ SameHandler(a, q)
      /\ q.request_state = IF a.request_state = 1 THEN 3 ELSE a.request_state
  BY <1>5, StartedReply, AddedReply, SentReply, HeaderOfReply, BodyOfReply
<1> HIDE DEF q
<1>7. /\ reply' \in Replies /\ SameHandler(q, reply')
      /\ reply'.request_state \in {10, q.request_state}
  BY <1>1, <1>6 DEF Replies, SameHandler
<1>8. SameHandler(r, reply')
  BY <1>3, <1>4, <1>5, <1>6, <1>7 DEF SameHandler
<1>9. reply'.request_state \notin {0, 1}
  BY <1>4, <1>5, <1>6, <1>7
<1>10. /\ h \in Seq(Sends) /\ Len(h) <= 1
       /\ h # <<>> => reply.request_state \in {0, 1}
  <2>1. /\ Started(r, status) \in Replies
        /\ Started(r, status).request_state = IF r.request_state = 0 THEN 1 ELSE r.request_state
    BY StartedReply, AddedReply, SentReply, HeaderOfReply, BodyOfReply
  <2>2. /\ h \in Seq(Sends) /\ Len(h) <= 1
        /\ h # <<>> => Started(r, status).request_state = 1
    BY <2>1, StartedReply, AddedReply, SentReply, HeaderOfReply, BodyOfReply
  <2> QED BY <2>1, <2>2
<1>11. s \in Seq(Sends) /\ BodyOnly(s)
  <2>1. Body(r) \in Sends /\ Body(r).kind = "body"
    BY StartedReply, AddedReply, SentReply, HeaderOfReply, BodyOfReply
  <2> QED BY <2>1 DEF BodyOnly
<1> HIDE DEF h, s
<1>12. wire' \in Seq(Sends) /\ HeaderFirst' /\ NothingSentYet'
  BY <1>2, <1>7, <1>9, <1>10, <1>11, ResponseGrows
<1> QED BY <1>7, <1>8, <1>12

\* A handler is called where none ran.
LEMMA HandlerCalled ==
    ASSUME ResponseInv, ~reply.in_error_handler, reply'.in_error_handler = TRUE,
           NEW f \in Handlers, frames' = Append(frames, f)
    PROVE  frames' \in Seq(Handlers) /\ ErrorHandlerOnce'
<1>1. frames = <<>>
  BY DEF ResponseInv, ResponseOrdered, ErrorHandlerOnce
<1>2. frames' = <<f>>
  BY <1>1
<1>3. frames' \in Seq(Handlers) /\ Len(frames') <= 1 /\ (frames' # <<>>) = TRUE
  BY <1>2
<1> QED BY <1>3 DEF ErrorHandlerOnce

\* A handler that runs is the only one.
LEMMA OneHandler ==
    ASSUME ResponseInv, frames # <<>>
    PROVE  Len(frames) = 1
<1>1. frames \in Seq(Handlers) /\ Len(frames) <= 1
  BY DEF ResponseInv, ResponseTypeOK, ResponseOrdered, ErrorHandlerOnce
<1>2. Len(frames) \in Nat /\ Len(frames) # 0
  BY <1>1, EmptySeq, LenProperties
<1>3. ASSUME NEW n \in Nat, n <= 1, n # 0 PROVE n = 1
  BY <1>3
<1> QED BY <1>1, <1>2, <1>3

\* The handler returns.
LEMMA HandlerReturned ==
    ASSUME ResponseInv, frames # <<>>, reply'.in_error_handler = FALSE,
           frames' = SubSeq(frames, 1, Len(frames) - 1)
    PROVE  frames' \in Seq(Handlers) /\ ErrorHandlerOnce'
<1>1. frames \in Seq(Handlers) /\ Len(frames) = 1
  BY OneHandler DEF ResponseInv, ResponseTypeOK
<1>2. frames' \in Seq(Handlers) /\ Len(frames') = 0
  BY <1>1, SubSeqProperties
<1>3. frames' = <<>>
  BY <1>2, EmptySeq
<1>4. frames' \in Seq(Handlers) /\ Len(frames') <= 1 /\ (frames' # <<>>) = FALSE
  BY <1>2, <1>3
<1> QED BY <1>4 DEF ErrorHandlerOnce

\* Every call of the response functions, by whoever runs, preserves the invariant.
LEMMA ResponseStepInv == ResponseInv /\ [ResponseNext]_responseVars => ResponseInv'
<1> SUFFICES ASSUME ResponseInv, [ResponseNext]_responseVars PROVE ResponseInv'
  OBVIOUS
<1>t. /\ reply \in Replies /\ wire \in Seq(Sends) /\ frames \in Seq(Handlers)
      /\ Body(reply) \in Sends /\ Body(reply).kind = "body"
  <2>1. reply \in Replies /\ wire \in Seq(Sends) /\ frames \in Seq(Handlers)
    BY DEF ResponseInv, ResponseTypeOK
  <2> QED BY <2>1, BodyOfReply
<1>q. ASSUME reply' \in Replies, wire' \in Seq(Sends), HeaderFirst', NothingSentYet',
             frames' \in Seq(Handlers), ErrorHandlerOnce'
      PROVE  ResponseInv'
  BY <1>q DEF ResponseInv, ResponseTypeOK, ResponseOrdered
<1>k. ASSUME reply' \in Replies, SameHandler(reply, reply'), UNCHANGED <<wire, frames>>,
             reply'.request_state \in {0, 1} => reply.request_state \in {0, 1}
      PROVE  ResponseInv'
  BY <1>k, <1>q, ResponseKept, HandlerKept
<1>1. CASE HeaderStart
  <2>1. PICK status \in Statuses : reply' = Started(reply, status)
    BY <1>1 DEF HeaderStart
  <2>2. reply' \in Replies /\ SameHandler(reply, reply')
    BY <1>t, <2>1, StartedReply, AddedReply, SentReply, HeaderOfReply, BodyOfReply
  <2> QED BY <1>1, <1>k, <2>2 DEF HeaderStart
<1>2. CASE HeaderAdd \/ HeaderAddLines
  <2>1. PICK n \in Nat : reply' = Added(reply, n)
    BY <1>2, ResponseAssumption DEF HeaderAdd, HeaderAddLines
  <2>2. /\ reply' \in Replies /\ SameHandler(reply, reply')
        /\ reply'.request_state = reply.request_state
    BY <1>t, <2>1, AddedReply
  <2> QED BY <1>2, <1>k, <2>2 DEF HeaderAdd, HeaderAddLines
<1>3. CASE HeaderSend
  <2>1. /\ reply' \in Replies /\ SameHandler(reply, reply') /\ reply'.request_state = 3
        /\ Header(reply) \in Seq(Sends) /\ Len(Header(reply)) <= 1
    BY <1>3, <1>t, SentReply, HeaderOfReply DEF HeaderSend
  <2>2. wire' = wire \o Header(reply) /\ reply.request_state = 1 /\ UNCHANGED frames
    BY <1>3 DEF HeaderSend
  <2>3. wire' \in Seq(Sends) /\ HeaderFirst' /\ NothingSentYet'
    BY <2>1, <2>2, ResponseHeader
  <2> QED BY <1>q, <2>1, <2>2, <2>3, HandlerKept
<1>4. CASE HeaderSendFails
  <2>1. Sent(reply) \in Replies /\ SameHandler(reply, Sent(reply))
    BY <1>t, SentReply
  <2>2. reply' \in Replies /\ SameHandler(Sent(reply), reply') /\ reply'.request_state = 10
    BY <1>4, <2>1 DEF HeaderSendFails, Replies, SameHandler
  <2> QED BY <1>4, <1>k, <2>1, <2>2 DEF HeaderSendFails, SameHandler
<1>w. ASSUME NEW s \in Seq(Sends), BodyOnly(s), wire' = wire \o s, UNCHANGED frames,
             reply' = [reply EXCEPT !.request_state = 10]
      PROVE  ResponseInv'
  <2>1. reply' \in Replies /\ SameHandler(reply, reply') /\ reply'.request_state = 10
    BY <1>t, <1>w DEF Replies, SameHandler
  <2>2. wire' \in Seq(Sends) /\ HeaderFirst' /\ NothingSentYet'
    <3>1. reply'.request_state \notin {0, 1}
      BY <2>1
    <3> QED BY <1>w, <2>1, <3>1, ResponseBody
  <2> QED BY <1>q, <1>w, <2>1, <2>2, HandlerKept
<1>5. CASE Write
  <2>1. <<Body(reply)>> \in Seq(Sends) /\ BodyOnly(<<Body(reply)>>)
    BY <1>t DEF BodyOnly
  <2>2. wire' = wire \o <<Body(reply)>>
    BY <1>5, <1>t DEF Write
  <2> QED BY <1>5, <1>w, <2>1, <2>2 DEF Write
<1>6. CASE SendChunk
  <2>1. PICK n \in 1..3 : wire' = wire \o [k \in 1..n |-> Body(reply)]
    BY <1>6 DEF SendChunk
  <2> DEFINE s == [k \in 1..n |-> Body(reply)]
  <2>2. s \in Seq(Sends) /\ BodyOnly(s)
    <3>1. s \in [1..n -> Sends] /\ n \in Nat
      BY <1>t
    <3>2. s \in Seq(Sends) /\ Len(s) = n
      BY <3>1
    <3> QED BY <1>t, <3>2 DEF BodyOnly
  <2> HIDE DEF s
  <2> QED BY <1>6, <1>w, <2>1, <2>2 DEF SendChunk, s
<1>7. CASE SendHeaderAtOnce
  <2>1. PICK status \in Statuses : /\ reply' = Sent(Added(Started(reply, status), 2))
                                   /\ wire' = wire \o Header(Added(Started(reply, status), 2))
    BY <1>7 DEF SendHeaderAtOnce
  <2> DEFINE b == Started(reply, status)
             a == Added(b, 2)
             h == Header(a)
  <2>2. /\ b \in Replies /\ SameHandler(reply, b)
        /\ b.request_state = IF reply.request_state = 0 THEN 1 ELSE reply.request_state
    BY <1>t, StartedReply, AddedReply, SentReply, HeaderOfReply, BodyOfReply
  <2>d. reply' = Sent(a) /\ wire' = wire \o h
    BY <2>1
  <2> HIDE DEF b
  <2>3. a \in Replies /\ SameHandler(b, a) /\ a.request_state = b.request_state
    BY <2>2, StartedReply, AddedReply, SentReply, HeaderOfReply, BodyOfReply
  <2> HIDE DEF a
  <2>4. /\ reply' \in Replies /\ SameHandler(a, reply')
        /\ reply'.request_state = IF a.request_state = 1 THEN 3 ELSE a.request_state
        /\ h \in Seq(Sends) /\ Len(h) <= 1 /\ (h # <<>> => a.request_state = 1)
    BY <2>3, <2>d, StartedReply, AddedReply, SentReply, HeaderOfReply, BodyOfReply
  <2> HIDE DEF h
  <2>5. SameHandler(reply, reply')
    BY <2>2, <2>3, <2>4 DEF SameHandler
  <2>6. /\ reply'.request_state \notin {0, 1}
        /\ h # <<>> => reply.request_state \in {0, 1}
    BY <2>2, <2>3, <2>4
  <2>7. wire' \in Seq(Sends) /\ HeaderFirst' /\ NothingSentYet'
    BY <2>d, <2>4, <2>6, ResponseHeader
  <2> QED BY <1>7, <1>q, <2>4, <2>5, <2>7, HandlerKept DEF SendHeaderAtOnce
<1>8. CASE SendHttpError
  <2>1. PICK status \in Statuses \ {200} :
          LET r == [reply EXCEPT !.status_code = status]
          IN  \/ /\ ~reply.in_error_handler
                 /\ reply' = [r EXCEPT !.in_error_handler = TRUE]
                 /\ frames' = Append(frames, [by |-> "callback", status |-> status])
                 /\ UNCHANGED wire
              \/ ErrorPage(r, status)
    BY <1>8 DEF SendHttpError
  <2> DEFINE r == [reply EXCEPT !.status_code = status]
  <2>2. /\ r \in Replies /\ SameHandler(reply, r) /\ r.request_state = reply.request_state
        /\ status \in Statuses
    BY <1>t, SMTT(30) DEF Replies, SameHandler, Statuses
  <2>3. \/ /\ ~reply.in_error_handler
           /\ reply' = [r EXCEPT !.in_error_handler = TRUE]
           /\ frames' = Append(frames, [by |-> "callback", status |-> status])
           /\ UNCHANGED wire
        \/ ErrorPage(r, status)
    BY <2>1
  <2> HIDE DEF r
  <2>4. ASSUME NEW f \in Handlers, ~r.in_error_handler, frames' = Append(frames, f), UNCHANGED wire,
               reply' = [r EXCEPT !.in_error_handler = TRUE]
        PROVE  ResponseInv'
    <3>1. /\ reply' \in Replies /\ reply'.in_error_handler = TRUE
          /\ reply'.request_state = reply.request_state
      BY <2>2, <2>4 DEF Replies
    <3>2. wire' \in Seq(Sends) /\ HeaderFirst' /\ NothingSentYet'
      BY <2>4, <3>1, ResponseKept
    <3>3. frames' \in Seq(Handlers) /\ ErrorHandlerOnce'
      BY <2>2, <2>4, <3>1, HandlerCalled DEF SameHandler
    <3> QED BY <1>q, <3>1, <3>2, <3>3
  <2>5. ASSUME SendDefault(r, status), UNCHANGED frames PROVE ResponseInv'
    <3>1. /\ reply' \in Replies /\ SameHandler(r, reply')
          /\ wire' \in Seq(Sends) /\ HeaderFirst' /\ NothingSentYet'
      BY <2>2, <2>5, DefaultSent
    <3>2. SameHandler(reply, reply')
      BY <2>2, <3>1 DEF SameHandler
    <3> QED BY <1>q, <2>5, <3>1, <3>2, HandlerKept
  <2>6. /\ [by |-> "callback", status |-> status] \in Handlers
        /\ [by |-> "page", status |-> status] \in Handlers
    BY <2>2 DEF Handlers
  <2>7. r.in_error_handler = reply.in_error_handler
    BY <2>2 DEF SameHandler
  <2> QED BY <2>3, <2>4, <2>5, <2>6, <2>7 DEF ErrorPage
<1>9. CASE CallbackReturns
  <2> DEFINE top == frames[Len(frames)]
             r == [reply EXCEPT !.in_error_handler = FALSE]
             shorter == SubSeq(frames, 1, Len(frames) - 1)
  <2>1. /\ frames # <<>>
        /\ \/ reply' = r /\ frames' = shorter /\ UNCHANGED wire
           \/ /\ reply' = [r EXCEPT !.in_error_handler = TRUE]
              /\ frames' = [frames EXCEPT ![Len(frames)].by = "page"]
              /\ UNCHANGED wire
           \/ SendDefault(r, top.status) /\ frames' = shorter
    BY <1>9 DEF CallbackReturns
  <2>2. /\ r \in Replies /\ r.in_error_handler = FALSE /\ r.request_state = reply.request_state
    BY <1>t DEF Replies
  <2> HIDE DEF r
  <2>3. Len(frames) = 1
    BY <1>t, <2>1, OneHandler
  <2>4. top \in Handlers
    BY <1>t, <2>3
  <2>5. top.status \in Statuses /\ [top EXCEPT !.by = "page"] \in Handlers
    BY <2>4 DEF Handlers
  <2>6. CASE reply' = r /\ frames' = shorter /\ UNCHANGED wire
    BY <1>q, <2>1, <2>2, <2>6, ResponseKept, HandlerReturned
  <2>7. CASE /\ reply' = [r EXCEPT !.in_error_handler = TRUE]
             /\ frames' = [frames EXCEPT ![Len(frames)].by = "page"]
             /\ UNCHANGED wire
    <3>1. /\ reply' \in Replies /\ reply'.in_error_handler = TRUE
          /\ reply'.request_state = reply.request_state
      BY <2>2, <2>7 DEF Replies
    <3>2. wire' \in Seq(Sends) /\ HeaderFirst' /\ NothingSentYet'
      BY <2>7, <3>1, ResponseKept
    <3>3. frames' \in Seq(Handlers) /\ Len(frames') = 1
      <4> DEFINE f == [top EXCEPT !.by = "page"]
      <4>1. frames' = [frames EXCEPT ![1] = f]
        BY <2>3, <2>7
      <4>2. f \in Handlers
        BY <2>5
      <4> HIDE DEF f
      <4>3. ASSUME NEW hs \in Seq(Handlers), Len(hs) = 1, NEW g \in Handlers
            PROVE  [hs EXCEPT ![1] = g] \in Seq(Handlers) /\ Len([hs EXCEPT ![1] = g]) = 1
        <5>1. hs \in [1..1 -> Handlers]
          BY <4>3
        <5>2. [hs EXCEPT ![1] = g] \in [1..1 -> Handlers]
          BY <5>1
        <5>3. ASSUME NEW n \in Nat, NEW q \in [1..n -> Handlers] PROVE q \in Seq(Handlers) /\ Len(q) = n
          OBVIOUS
        <5> QED BY <5>2, <5>3
      <4> QED BY <1>t, <2>3, <4>1, <4>2, <4>3
    <3>4. Len(frames') <= 1 /\ (frames' # <<>>) = TRUE
      BY <3>3
    <3> QED BY <1>q, <3>1, <3>2, <3>3, <3>4 DEF ErrorHandlerOnce
  <2>8. CASE SendDefault(r, top.status) /\ frames' = shorter
    <3>1. /\ reply' \in Replies /\ SameHandler(r, reply')
          /\ wire' \in Seq(Sends) /\ HeaderFirst' /\ NothingSentYet'
      BY <2>2, <2>5, <2>8, DefaultSent
    <3>2. reply'.in_error_handler = FALSE
      BY <2>2, <3>1 DEF SameHandler
    <3> QED BY <1>q, <2>1, <2>8, <3>1, <3>2, HandlerReturned
  <2> QED BY <2>1, <2>6, <2>7, <2>8
<1>10. CASE PageReturns
  <2>1. /\ reply' \in Replies /\ reply'.in_error_handler = FALSE
        /\ reply'.request_state = reply.request_state
    BY <1>10, <1>t DEF PageReturns, Replies
  <2>2. frames # <<>> /\ frames' = SubSeq(frames, 1, Len(frames) - 1) /\ UNCHANGED wire
    BY <1>10 DEF PageReturns
  <2> QED BY <1>q, <2>1, <2>2, ResponseKept, HandlerReturned
<1>11. CASE EndResponse
  <2>1. /\ reply' \in Replies /\ SameHandler(NoReply, reply') /\ NoReply.in_error_handler = FALSE
        /\ wire' = <<>> /\ frames' = <<>>
    BY <1>11 DEF EndResponse, NoReply, Replies, SameHandler
  <2>2. wire' \in Seq(Sends) /\ HeaderFirst' /\ NothingSentYet'
    BY <2>1 DEF HeaderFirst, NothingSentYet
  <2>3. frames' \in Seq(Handlers) /\ Len(frames') <= 1 /\ (frames' # <<>>) = FALSE
    BY <2>1
  <2> QED BY <1>q, <2>1, <2>2, <2>3 DEF ErrorHandlerOnce, SameHandler
<1>12. CASE UNCHANGED responseVars
  BY <1>12 DEF responseVars, ResponseInv, ResponseTypeOK, NothingSentYet, ResponseOrdered,
               HeaderFirst, ErrorHandlerOnce
<1> QED BY <1>1, <1>2, <1>3, <1>4, <1>5, <1>6, <1>7, <1>8, <1>9, <1>10, <1>11, <1>12 DEF ResponseNext

\* Whatever application, error callback and error page call, and in whatever order: at most
\* one header is sent, before everything else, and error handlers do not nest.
THEOREM ResponsesOrdered == ResponseSpec => []ResponseOrdered
<1>1. ResponseInit => ResponseInv
  <2> SUFFICES ASSUME ResponseInit PROVE ResponseInv
    OBVIOUS
  <2>1. reply \in Replies /\ reply.in_error_handler = FALSE
    BY DEF ResponseInit, NoReply, Replies
  <2>2. wire = <<>> /\ frames = <<>>
    BY DEF ResponseInit
  <2>3. wire \in Seq(Sends) /\ HeaderFirst /\ NothingSentYet
    BY <2>2 DEF HeaderFirst, NothingSentYet
  <2>4. frames \in Seq(Handlers) /\ Len(frames) <= 1 /\ (frames # <<>>) = FALSE
    BY <2>2
  <2> QED BY <2>1, <2>3, <2>4 DEF ResponseInv, ResponseTypeOK, ResponseOrdered, ErrorHandlerOnce
<1>2. ResponseInv => ResponseOrdered
  BY DEF ResponseInv
<1> QED BY <1>1, <1>2, ResponseStepInv, PTL DEF ResponseSpec

-----------------------------------------------------------------------------
(* Request *)

Flags == [found : BOOLEAN, script : BOOLEAN, websocket : BOOLEAN, put : BOOLEAN,
          webdav : BOOLEAN, template : BOOLEAN, dir : BOOLEAN, bare : BOOLEAN, callback : BOOLEAN]

RequestTypeOK ==
    /\ request \in [method : Methods, websocket : BOOLEAN, root : BOOLEAN, webdav : BOOLEAN]
    /\ is \in Flags
    /\ ext \in Exts

\* What interpret_uri's flags say of the method and of the file: nothing is written for a
\* method that reads, and a file without a flag is plain text.
FlagsTrue ==
    /\ is.webdav = is_civetweb_webdav_method(request.method)
    /\ is.put => is_put_or_delete_method(request.method)
    /\ is.found /\ ~is.put /\ ~is.script /\ ~is.template => ext = "plain"

\* The check that was passed is the one for what the request is going to do, and for the
\* path that it is going to do it with.
CheckedHere ==
    passed \cap {<<"handler", path>>, <<IF WritesFile THEN "put" ELSE "read", path>>} # {}

\* Where handle_request goes on with a file, not with a callback.
AtFile(steps) == rpc \in steps /\ ~is.callback

RequestInv ==
    /\ RequestTypeOK
    /\ rpc # "done" => answer = "none"
    /\ AtFile({"webdav", "authorize", "dispatch"}) => FlagsTrue
    /\ AtFile({"authorize", "dispatch"}) => (is.webdav => request.webdav)
    /\ AtFile({"dispatch"}) => CheckedHere
    /\ AccessControlled

\* The function that gets the request is one that needs no check.
LEMMA OpenAnswer ==
    ASSUME RequestInv, NEW a, Answer(a), a \notin Writes \cup Reads,
           UNCHANGED <<request, is, path, ext>>
    PROVE  RequestInv'
<1>1. RequestTypeOK' /\ rpc' = "done" /\ answer' = a
  BY DEF RequestInv, RequestTypeOK, Answer
<1>2. AccessControlled'
  BY <1>1 DEF AccessControlled, WriteAuthorized, ReadAuthorized, SourceHidden, WebdavEnabled,
              Writes, Reads
<1> QED BY <1>1, <1>2 DEF RequestInv, AtFile

\* A function that reads gets the request.
LEMMA ReadAnswer ==
    ASSUME RequestInv, NEW a, Answer(a), AtFile({"dispatch"}), ~WritesFile, a \in Reads,
           a = "static" => ext = "plain", a = "PROPFIND" => request.method = "PROPFIND",
           UNCHANGED <<request, is, path, ext, passed>>
    PROVE  RequestInv'
<1>1. RequestTypeOK' /\ rpc' = "done" /\ answer' = a
  BY DEF RequestInv, RequestTypeOK, Answer
<1>2. passed' \cap {<<"handler", path>>, <<"read", path>>} # {}
  BY DEF RequestInv, CheckedHere, AtFile
<1>3. a = "PROPFIND" => request.webdav
  BY DEF RequestInv, AtFile, FlagsTrue, is_civetweb_webdav_method
<1>4. WriteAuthorized' /\ ReadAuthorized' /\ SourceHidden'
  BY <1>1, <1>2 DEF WriteAuthorized, ReadAuthorized, SourceHidden, Writes, Reads
<1>5. WebdavEnabled'
  BY <1>1, <1>3 DEF WebdavEnabled, Reads
<1> QED BY <1>1, <1>4, <1>5 DEF RequestInv, AtFile, AccessControlled

\* A method that writes gets the request.
LEMMA WriteAnswer ==
    ASSUME RequestInv, AtFile({"dispatch"}), WritesFile, request.method # "PATCH",
           Answer(request.method), UNCHANGED <<request, is, path, ext, passed>>
    PROVE  RequestInv'
<1>1. RequestTypeOK' /\ rpc' = "done" /\ answer' = request.method
  BY DEF RequestInv, RequestTypeOK, Answer
<1>2. request.method \in Writes
  BY DEF RequestInv, AtFile, FlagsTrue, WritesFile, is_put_or_delete_method, Writes
<1>3. passed' \cap {<<"handler", path>>, <<"put", path>>} # {}
  BY DEF RequestInv, CheckedHere, AtFile
<1>4. request.method \in {"MOVE", "COPY", "LOCK", "UNLOCK", "PROPPATCH", "PROPFIND"} => request.webdav
  BY DEF RequestInv, AtFile, FlagsTrue, is_civetweb_webdav_method
<1>5. WriteAuthorized' /\ ReadAuthorized' /\ SourceHidden'
  BY <1>1, <1>2, <1>3 DEF WriteAuthorized, ReadAuthorized, SourceHidden, Writes, Reads
<1>6. WebdavEnabled'
  BY <1>1, <1>4 DEF WebdavEnabled
<1> QED BY <1>1, <1>5, <1>6 DEF RequestInv, AtFile, AccessControlled

\* Every way through interpret_uri sets flags that are true of the method and the file.
LEMMA InterpretedFlags ==
    ASSUME RequestInv, rpc = "interpret", NEW flags \in Flags, NEW p, NEW e \in Exts,
           Interpreted(flags, p, e),
           flags.webdav = is_civetweb_webdav_method(request.method),
           flags.put => is_put_or_delete_method(request.method),
           flags.found /\ ~flags.put /\ ~flags.script /\ ~flags.template => e = "plain"
    PROVE  RequestInv'
<1>1. RequestTypeOK' /\ rpc' = "webdav" /\ answer' = "none" /\ FlagsTrue'
  BY DEF RequestInv, RequestTypeOK, Interpreted, FlagsTrue
<1>2. AccessControlled'
  BY <1>1 DEF AccessControlled, WriteAuthorized, ReadAuthorized, SourceHidden, WebdavEnabled,
              Writes, Reads
<1> QED BY <1>1, <1>2 DEF RequestInv, AtFile

\* The flags that a file sets; those that the method sets.
FoundFlags(r, b, c) == [r EXCEPT !.found = TRUE, !.script = b, !.template = c]
FlagsOf(w, p, v) == [NoFlags EXCEPT !.websocket = w, !.put = p, !.webdav = v]

\* The flags that a file sets, and what they leave alone.
LEMMA FileFlags ==
    ASSUME NEW r \in Flags, NEW b \in BOOLEAN, NEW c \in BOOLEAN
    PROVE  /\ FoundFlags(r, b, c) \in Flags
           /\ FoundFlags(r, b, c).found = TRUE
           /\ FoundFlags(r, b, c).script = b
           /\ FoundFlags(r, b, c).template = c
           /\ FoundFlags(r, b, c).put = r.put
           /\ FoundFlags(r, b, c).webdav = r.webdav
<1>1. FoundFlags(r, b, c) \in Flags
  BY DEF Flags, FoundFlags
<1> QED BY <1>1 DEF Flags, FoundFlags

\* The flags that a directory sets.
LEMMA DirFlags ==
    ASSUME NEW r \in Flags, NEW a \in BOOLEAN, NEW b \in BOOLEAN
    PROVE  LET f == [r EXCEPT !.dir = a, !.bare = b]
           IN  /\ f \in Flags
               /\ f.found = r.found /\ f.script = r.script /\ f.template = r.template
               /\ f.put = r.put /\ f.webdav = r.webdav
BY DEF Flags

\* The flags before a file is looked for (interpret_uri).
LEMMA ClassifiedFlags ==
    ASSUME RequestTypeOK
    PROVE  /\ NoFlags \in Flags /\ Classified \in Flags
           /\ is_put_or_delete_method(request.method) \in BOOLEAN
           /\ is_civetweb_webdav_method(request.method) \in BOOLEAN
           /\ Classified.put = is_put_or_delete_method(request.method)
           /\ Classified.webdav = is_civetweb_webdav_method(request.method)
           /\ Classified.found = FALSE /\ Classified.script = FALSE /\ Classified.template = FALSE
<1>1. /\ is_put_or_delete_method(request.method) \in BOOLEAN
      /\ is_civetweb_webdav_method(request.method) \in BOOLEAN
  BY DEF is_put_or_delete_method, is_civetweb_webdav_method
<1>2. NoFlags \in Flags /\ request.websocket \in BOOLEAN
  BY DEF NoFlags, Flags, RequestTypeOK
<1> DEFINE w == request.websocket
           p == is_put_or_delete_method(request.method)
           v == is_civetweb_webdav_method(request.method)
<1>3. Classified = FlagsOf(w, p, v)
  BY DEF Classified, FlagsOf
<1>4. w \in BOOLEAN /\ p \in BOOLEAN /\ v \in BOOLEAN
  BY <1>1, <1>2
<1> HIDE DEF w, p, v
<1>5. /\ FlagsOf(w, p, v) \in Flags
      /\ FlagsOf(w, p, v).put = p /\ FlagsOf(w, p, v).webdav = v
      /\ FlagsOf(w, p, v).found = FALSE
      /\ FlagsOf(w, p, v).script = FALSE
      /\ FlagsOf(w, p, v).template = FALSE
  <2>1. FlagsOf(w, p, v) \in Flags
    BY <1>2, <1>4 DEF Flags, FlagsOf
  <2> QED BY <2>1 DEF NoFlags, FlagsOf
<1>6. /\ Classified \in Flags /\ Classified.put = p /\ Classified.webdav = v
      /\ Classified.found = FALSE /\ Classified.script = FALSE /\ Classified.template = FALSE
  BY ONLY <1>3, <1>5
<1> QED BY <1>1, <1>2, <1>6 DEF p, v

\* The flags of a file with this extension.
LEMMA ScriptFlagsTrue ==
    ASSUME RequestTypeOK, NEW e \in Exts
    PROVE  /\ ScriptFlags(e) \in Flags
           /\ ScriptFlags(e).put = is_put_or_delete_method(request.method)
           /\ ScriptFlags(e).webdav = is_civetweb_webdav_method(request.method)
           /\ ScriptFlags(e).script = (e = "script" /\ ~is_put_or_delete_method(request.method))
           /\ ScriptFlags(e).template = (e = "template" /\ ~is_put_or_delete_method(request.method))
<1>1. (e = "script" /\ ~Classified.put) \in BOOLEAN /\ (e = "template" /\ ~Classified.put) \in BOOLEAN
  OBVIOUS
<1>2. /\ ScriptFlags(e) \in Flags
      /\ ScriptFlags(e).put = Classified.put /\ ScriptFlags(e).webdav = Classified.webdav
      /\ ScriptFlags(e).script = (e = "script" /\ ~Classified.put)
      /\ ScriptFlags(e).template = (e = "template" /\ ~Classified.put)
  <2> DEFINE b == e = "script" /\ ~Classified.put
             c == e = "template" /\ ~Classified.put
  <2>1. ScriptFlags(e) = FoundFlags(Classified, b, c)
    BY DEF ScriptFlags, FoundFlags
  <2>2. b \in BOOLEAN /\ c \in BOOLEAN /\ Classified \in Flags
    BY <1>1, ClassifiedFlags
  <2> HIDE DEF b, c
  <2> DEFINE cl == Classified
             f == FoundFlags(cl, b, c)
  <2>3. cl \in Flags /\ f = FoundFlags(cl, b, c)
    BY <2>2
  <2> HIDE DEF cl, f
  <2>4. /\ f \in Flags /\ f.put = cl.put /\ f.webdav = cl.webdav /\ f.script = b /\ f.template = c
    BY <2>2, <2>3, FileFlags, ZenonT(60)
  <2>5. ScriptFlags(e) = f
    BY <2>1 DEF f, cl
  <2> QED BY <2>4, <2>5 DEF b, c, cl
<1>3. /\ Classified.put = is_put_or_delete_method(request.method)
      /\ Classified.webdav = is_civetweb_webdav_method(request.method)
  BY ClassifiedFlags
<1> QED BY <1>2, <1>3

\* Before a function is chosen, and when it has ended, nothing is to be protected.
LEMMA NoAnswer ==
    ASSUME RequestInv, RequestTypeOK', answer' = "none",
           AtFile({"webdav", "authorize", "dispatch"})' => FlagsTrue',
           AtFile({"authorize", "dispatch"})' => (is.webdav => request.webdav)',
           AtFile({"dispatch"})' => CheckedHere'
    PROVE  RequestInv'
<1>1. AccessControlled'
  BY DEF AccessControlled, WriteAuthorized, ReadAuthorized, SourceHidden, WebdavEnabled,
         Writes, Reads
<1> QED BY <1>1 DEF RequestInv

\* Every step of handle_request preserves the invariant.
LEMMA RequestStepInv == RequestInv /\ [RequestNext]_requestVars => RequestInv'
<1> SUFFICES ASSUME RequestInv, [RequestNext]_requestVars PROVE RequestInv'
  OBVIOUS
<1>t. RequestTypeOK /\ (rpc # "done" => answer = "none")
  BY DEF RequestInv
<1>f. /\ NoFlags \in Flags /\ Classified \in Flags
      /\ is_put_or_delete_method(request.method) \in BOOLEAN
      /\ is_civetweb_webdav_method(request.method) \in BOOLEAN
  BY <1>t, ClassifiedFlags
<1>c. /\ Classified.put = is_put_or_delete_method(request.method)
      /\ Classified.webdav = is_civetweb_webdav_method(request.method)
      /\ Classified.found = FALSE
  BY <1>t, ClassifiedFlags
<1>1. CASE Arrive
  <2>1. RequestTypeOK' /\ answer' = "none" /\ rpc' = "begin"
    BY <1>1, <1>t DEF Arrive, RequestTypeOK
  <2> QED BY <2>1, NoAnswer DEF AtFile
<1>2. CASE HttpsRedirect
  BY <1>2, OpenAnswer DEF HttpsRedirect, Writes, Reads
<1>3. CASE BeginRequest
  <2>1. CASE rpc' = "preflight" /\ UNCHANGED answer
    BY <1>3, <1>t, <2>1, NoAnswer DEF BeginRequest, AtFile, RequestTypeOK
  <2>2. CASE Answer("served") \/ Answer("nothing")
    BY <1>3, <2>2, OpenAnswer DEF BeginRequest, Writes, Reads
  <2> QED BY <1>3, <2>1, <2>2 DEF BeginRequest
<1>4. CASE Preflight
  <2>1. CASE rpc' = "find" /\ UNCHANGED answer
    BY <1>4, <1>t, <2>1, NoAnswer DEF Preflight, AtFile, RequestTypeOK
  <2>2. CASE Answer("preflight")
    BY <1>4, <2>2, OpenAnswer DEF Preflight, Writes, Reads
  <2> QED BY <1>4, <2>1, <2>2 DEF Preflight
<1>5. CASE FindCallback
  <2>1. CASE rpc' = "interpret" /\ is' = NoFlags
    BY <1>5, <1>t, <1>f, <2>1, NoAnswer DEF FindCallback, AtFile, RequestTypeOK
  <2>2. CASE rpc' = "webdav" /\ is' = [NoFlags EXCEPT !.callback = TRUE, !.script = TRUE,
                                   !.websocket = request.websocket,
                                   !.put = is_put_or_delete_method(request.method)]
    <3>1. is'.callback
      BY <2>2 DEF NoFlags
    <3>2. request.websocket \in BOOLEAN
      BY <1>t DEF RequestTypeOK
    <3>3. is' \in Flags
      BY <1>f, <2>2, <3>2 DEF Flags
    <3> QED BY <1>5, <1>t, <2>2, <3>1, <3>3, NoAnswer DEF FindCallback, AtFile, RequestTypeOK
  <2> QED BY <1>5, <2>1, <2>2 DEF FindCallback
<1>6. CASE InterpretCleanup
  <2> DEFINE fl == [NoFlags EXCEPT !.webdav = Classified.webdav]
  <2>1. fl \in Flags /\ fl.webdav = Classified.webdav /\ fl.put = FALSE /\ fl.found = FALSE
    BY <1>f, <1>c DEF NoFlags, Flags
  <2>2. Interpreted(fl, "", "plain") /\ rpc = "interpret" /\ "plain" \in Exts
    BY <1>6 DEF InterpretCleanup, Exts
  <2> HIDE DEF fl
  <2> QED BY <1>c, <2>1, <2>2, InterpretedFlags
<1>7. CASE InterpretNothing
  BY <1>7, <1>f, <1>c, InterpretedFlags DEF InterpretNothing, Exts
<1>8. CASE InterpretFound
  <2>1. PICK e \in Exts, dir \in BOOLEAN, bare \in BOOLEAN :
          Interpreted([ScriptFlags(e) EXCEPT !.dir = dir, !.bare = dir /\ bare], "target", e)
    BY <1>8 DEF InterpretFound
  <2> DEFINE fl == [ScriptFlags(e) EXCEPT !.dir = dir, !.bare = dir /\ bare]
  <2>2. fl \in Flags /\ fl.script = ScriptFlags(e).script /\ fl.template = ScriptFlags(e).template
        /\ fl.put = ScriptFlags(e).put /\ fl.webdav = ScriptFlags(e).webdav
    <3>1. (dir /\ bare) \in BOOLEAN /\ ScriptFlags(e) \in Flags
      BY <1>t, ScriptFlagsTrue
    <3> QED BY <3>1, DirFlags, ZenonT(60)
  <2> HIDE DEF fl
  <2>3. /\ fl.webdav = is_civetweb_webdav_method(request.method)
        /\ fl.put = is_put_or_delete_method(request.method)
        /\ ~fl.put /\ ~fl.script /\ ~fl.template => e = "plain"
    BY <1>t, <2>2, ScriptFlagsTrue DEF Exts
  <2>4. rpc = "interpret" /\ Interpreted(fl, "target", e)
    BY <1>8, <2>1 DEF InterpretFound, fl
  <2> QED BY <2>2, <2>3, <2>4, InterpretedFlags
<1>9. CASE InterpretIndex
  <2>1. PICK d \in Exts, e \in Exts :
          Interpreted([ScriptFlags(d) EXCEPT !.script = IF e = "script" THEN TRUE
                                                   ELSE IF e = "template" THEN @ ELSE FALSE,
                                        !.template = @ \/ e = "template"], "index", e)
    BY <1>9 DEF InterpretIndex
  <2> DEFINE sf == ScriptFlags(d)
             b == IF e = "script" THEN TRUE ELSE IF e = "template" THEN sf.script ELSE FALSE
             c == sf.template \/ e = "template"
             fl == [sf EXCEPT !.script = b, !.template = c]
  <2>2. Interpreted(fl, "index", e) /\ rpc = "interpret"
    BY <1>9, <2>1, Zenon DEF InterpretIndex
  <2>3. /\ sf \in Flags /\ sf.put = is_put_or_delete_method(request.method)
        /\ sf.webdav = is_civetweb_webdav_method(request.method)
    BY <1>t, ScriptFlagsTrue
  <2> HIDE DEF sf
  <2>4. b \in BOOLEAN /\ c \in BOOLEAN
    BY <2>3 DEF Flags
  <2>5. e = "plain" \/ b \/ c
    BY DEF Exts
  <2> HIDE DEF b, c
  <2>6. fl \in Flags /\ fl.script = b /\ fl.template = c /\ fl.put = sf.put /\ fl.webdav = sf.webdav
    BY <2>3, <2>4 DEF Flags
  <2> HIDE DEF fl
  <2> QED BY <2>2, <2>3, <2>5, <2>6, InterpretedFlags
<1>10. CASE InterpretGzip
  <2> DEFINE fl == [Classified EXCEPT !.found = TRUE]
  <2>1. fl \in Flags /\ fl.webdav = Classified.webdav /\ fl.put = Classified.put
    BY <1>f DEF Flags
  <2>2. rpc = "interpret" /\ Interpreted(fl, "gz", "plain") /\ "plain" \in Exts
    BY <1>10 DEF InterpretGzip, Exts
  <2> HIDE DEF fl
  <2> QED BY <1>c, <2>1, <2>2, InterpretedFlags
<1>11. CASE InterpretSubResource
  <2> DEFINE fl == [Classified EXCEPT !.script = TRUE, !.found = TRUE]
  <2>1. fl \in Flags /\ fl.webdav = Classified.webdav /\ fl.put = Classified.put /\ fl.script = TRUE
    BY <1>f DEF Flags
  <2>2. rpc = "interpret" /\ Interpreted(fl, "script", "script") /\ "script" \in Exts
    BY <1>11 DEF InterpretSubResource, Exts
  <2> HIDE DEF fl
  <2> QED BY <1>c, <2>1, <2>2, InterpretedFlags
<1>12. CASE WebdavAllowed
  <2>1. CASE is.webdav /\ ~request.webdav
    BY <1>12, <2>1, OpenAnswer DEF WebdavAllowed, Writes, Reads
  <2>2. CASE ~(is.webdav /\ ~request.webdav)
    <3>1. /\ rpc = "webdav" /\ rpc' = "authorize" /\ answer' = "none" /\ RequestTypeOK'
          /\ UNCHANGED <<request, is, path, ext, passed>>
      BY <1>12, <1>t, <2>2 DEF WebdavAllowed, RequestTypeOK
    <3>2. AtFile({"webdav", "authorize", "dispatch"})' => FlagsTrue'
      BY <3>1 DEF RequestInv, AtFile, FlagsTrue
    <3> QED BY <2>2, <3>1, <3>2, NoAnswer DEF AtFile
  <2> QED BY <2>1, <2>2
<1>13. CASE AuthHandler
  <2>1. CASE Answer("rejected")
    BY <1>13, <2>1, OpenAnswer DEF AuthHandler, Writes, Reads
  <2>2. CASE passed' = passed \cup {<<"handler", path>>} /\ rpc' = "dispatch" /\ UNCHANGED answer
    <3>1. /\ rpc = "authorize" /\ answer' = "none" /\ RequestTypeOK'
          /\ UNCHANGED <<request, is, path, ext>>
      BY <1>13, <1>t, <2>2 DEF AuthHandler, RequestTypeOK
    <3>2. /\ AtFile({"webdav", "authorize", "dispatch"})' => FlagsTrue'
          /\ AtFile({"authorize", "dispatch"})' => (is.webdav => request.webdav)'
      BY <3>1 DEF RequestInv, AtFile, FlagsTrue
    <3>3. CheckedHere'
      BY <2>2, <3>1 DEF CheckedHere
    <3> QED BY <3>1, <3>2, <3>3, NoAnswer
  <2> QED BY <1>13, <2>1, <2>2 DEF AuthHandler
<1>14. CASE AuthorizePut
  <2>1. CASE Answer("error") \/ Answer("unauthorized")
    BY <1>14, <2>1, OpenAnswer DEF AuthorizePut, Writes, Reads
  <2>2. CASE passed' = passed \cup {<<"put", path>>} /\ rpc' = "dispatch" /\ UNCHANGED answer
    <3>1. /\ rpc = "authorize" /\ answer' = "none" /\ RequestTypeOK' /\ WritesFile
          /\ UNCHANGED <<request, is, path, ext>>
      BY <1>14, <1>t, <2>2 DEF AuthorizePut, RequestTypeOK
    <3>2. /\ AtFile({"webdav", "authorize", "dispatch"})' => FlagsTrue'
          /\ AtFile({"authorize", "dispatch"})' => (is.webdav => request.webdav)'
      BY <3>1 DEF RequestInv, AtFile, FlagsTrue
    <3>3. CheckedHere'
      BY <2>2, <3>1 DEF CheckedHere, WritesFile
    <3> QED BY <3>1, <3>2, <3>3, NoAnswer
  <2> QED BY <1>14, <2>1, <2>2 DEF AuthorizePut
<1>15. CASE CheckAuthorization
  <2>1. CASE Answer("unauthorized")
    BY <1>15, <2>1, OpenAnswer DEF CheckAuthorization, Writes, Reads
  <2>2. CASE passed' = passed \cup {<<"read", path>>} /\ rpc' = "dispatch" /\ UNCHANGED answer
    <3>1. /\ rpc = "authorize" /\ answer' = "none" /\ RequestTypeOK' /\ ~WritesFile
          /\ UNCHANGED <<request, is, path, ext>>
      BY <1>15, <1>t, <2>2 DEF CheckAuthorization, RequestTypeOK
    <3>2. /\ AtFile({"webdav", "authorize", "dispatch"})' => FlagsTrue'
          /\ AtFile({"authorize", "dispatch"})' => (is.webdav => request.webdav)'
      BY <3>1 DEF RequestInv, AtFile, FlagsTrue
    <3>3. CheckedHere'
      BY <2>2, <3>1 DEF CheckedHere, WritesFile
    <3> QED BY <3>1, <3>2, <3>3, NoAnswer
  <2> QED BY <1>15, <2>1, <2>2 DEF CheckAuthorization
<1>16. CASE RunCallback
  <2>1. CASE Answer("served") \/ Answer("websocket")
    BY <1>16, <2>1, OpenAnswer DEF RunCallback, Writes, Reads
  <2>2. CASE rpc' = "interpret" /\ UNCHANGED answer
    BY <1>16, <1>t, <2>2, NoAnswer DEF RunCallback, AtFile, RequestTypeOK
  <2> QED BY <1>16, <2>1, <2>2 DEF RunCallback
<1>17. CASE WebsocketScript
  <2>1. CASE Answer("error")
    BY <1>17, <2>1, OpenAnswer DEF WebsocketScript, Writes, Reads
  <2>2. CASE is.script /\ Answer("script")
    BY <1>17, <2>2, ReadAnswer DEF WebsocketScript, AtFile, WritesFile, Reads
  <2> QED BY <1>17, <2>1, <2>2 DEF WebsocketScript
<1>18. CASE RunScript
  <2>1. CASE Answer("error")
    BY <1>18, <2>1, OpenAnswer DEF RunScript, Writes, Reads
  <2>2. ASSUME NEW a \in FileBased(ext), is.script, Answer(a) PROVE RequestInv'
    <3>1. /\ a = "error" \/ (a \in Reads /\ a # "PROPFIND")
          /\ a = "static" => ext = "plain"
      BY <1>t DEF FileBased, RequestTypeOK, Exts, Reads
    <3>2. AtFile({"dispatch"}) /\ ~WritesFile /\ UNCHANGED <<request, is, path, ext, passed>>
      BY <1>18, <2>2 DEF RunScript, ForFile, AtFile, WritesFile
    <3>3. CASE a = "error"
      BY <2>2, <3>2, <3>3, OpenAnswer DEF Writes, Reads
    <3>4. CASE a \in Reads /\ a # "PROPFIND"
      BY <2>2, <3>1, <3>2, <3>4, ReadAnswer
    <3> QED BY <3>1, <3>3, <3>4
  <2> QED BY <1>18, <2>1, <2>2 DEF RunScript
<1>19. CASE ChangeTheFile
  <2>1. /\ AtFile({"dispatch"}) /\ WritesFile /\ UNCHANGED <<request, is, path, ext, passed>>
        /\ Answer(IF request.method = "PATCH" THEN "error" ELSE request.method)
    BY <1>19 DEF ChangeTheFile, ForFile, AtFile, WritesFile
  <2>2. CASE request.method = "PATCH"
    BY <2>1, <2>2, OpenAnswer DEF Writes, Reads
  <2>3. CASE request.method # "PATCH"
    BY <2>1, <2>3, WriteAnswer
  <2> QED BY <2>2, <2>3
<1>20. CASE NotThis
  BY <1>20, OpenAnswer DEF NotThis, Writes, Reads
<1>21. CASE ReadProperties
  BY <1>21, ReadAnswer DEF ReadProperties, ForRead, ForFile, AtFile, WritesFile, Reads
<1>22. CASE ReadFile
  <2>1. /\ AtFile({"dispatch"}) /\ ~WritesFile /\ UNCHANGED <<request, is, path, ext, passed>>
        /\ is.found /\ ~is.put /\ ~is.script
    BY <1>22 DEF ReadFile, ForRead, ForFile, AtFile, WritesFile
  <2>2. ~is.template => ext = "plain"
    BY <2>1 DEF RequestInv, AtFile, FlagsTrue
  <2>3. CASE Answer("listing")
    BY <2>1, <2>3, ReadAnswer DEF Reads
  <2>4. ASSUME NEW a \in FileBased(ext), Answer(a) PROVE RequestInv'
    <3>1. /\ a = "error" \/ (a \in Reads /\ a # "PROPFIND")
          /\ a = "static" => ext = "plain"
      BY <1>t DEF FileBased, RequestTypeOK, Exts, Reads
    <3>2. CASE a = "error"
      BY <2>1, <2>4, <3>2, OpenAnswer DEF Writes, Reads
    <3>3. CASE a \in Reads /\ a # "PROPFIND"
      BY <2>1, <2>4, <3>1, <3>3, ReadAnswer
    <3> QED BY <3>1, <3>2, <3>3
  <2>5. (~is.dir /\ is.template /\ \E a \in FileBased(ext) : Answer(a))
        \/ (~is.dir /\ ~is.template /\ \E a \in FileBased(ext) : Answer(a)) \/ Answer("listing")
    BY <1>22, <2>2 DEF ReadFile
  <2> QED BY <2>3, <2>4, <2>5
<1>23. CASE RequestDone
  <2>1. RequestTypeOK' /\ rpc' = "idle" /\ answer' = "none"
    BY <1>23, <1>f DEF RequestDone, RequestTypeOK, NoRequestYet, Methods, Exts
  <2> QED BY <2>1, NoAnswer DEF AtFile
<1>24. CASE UNCHANGED requestVars
  BY <1>24 DEF requestVars, RequestInv, RequestTypeOK, AtFile, FlagsTrue, CheckedHere, WritesFile,
     AccessControlled, WriteAuthorized, ReadAuthorized, SourceHidden, WebdavEnabled
<1> QED BY <1>1, <1>2, <1>3, <1>4, <1>5, <1>6, <1>7, <1>8, <1>9, <1>10, <1>11, <1>12, <1>13,
           <1>14, <1>15, <1>16, <1>17, <1>18, <1>19, <1>20, <1>21, <1>22, <1>23, <1>24
        DEF RequestNext

\* handle_request chooses a function that changes or reads a file only after the check for
\* that very file and that very access, also behind a callback that declined; it never sends
\* the text of a script, and the methods of WebDAV need enable_webdav.
THEOREM AccessIsControlled == RequestSpec => []AccessControlled
<1>1. RequestInit => RequestInv
  <2> SUFFICES ASSUME RequestInit PROVE RequestInv
    OBVIOUS
  <2>1. NoFlags \in Flags /\ NoRequestYet.method \in Methods
    BY DEF NoFlags, Flags, NoRequestYet, Methods
  <2>2. RequestTypeOK /\ rpc = "idle" /\ answer = "none"
    BY <2>1 DEF RequestInit, RequestTypeOK, NoRequestYet, Methods, Exts
  <2> QED BY <2>2 DEF RequestInv, AtFile, AccessControlled, WriteAuthorized, ReadAuthorized,
                      SourceHidden, WebdavEnabled, Writes, Reads
<1>2. RequestInv => AccessControlled
  BY DEF RequestInv
<1> QED BY <1>1, <1>2, RequestStepInv, PTL DEF RequestSpec

-----------------------------------------------------------------------------
(* Client *)

Kinds == {"http", "download", "websocket"}
ContextTypes == {"none", "HTTP_CLIENT", "WS_CLIENT"}

\* Before mg_connect_websocket_client has changed the context there is no thread; later one
\* that was started has ended when mg_close_connection goes on.
BeforeUpgrade == {"null", "alloc", "address", "socket", "wait", "ctx", "mutex", "tls", "open",
                  "request", "ready", "failed", "ids", "close", "end", "closed"}
AfterUpgrade == {"thread", "open", "close", "join", "end", "closed"}
Places == BeforeUpgrade \cup AfterUpgrade

Clients == [at : Places, use_ssl : BOOLEAN, kind : Kinds, context_type : ContextTypes,
            stop_flag : Int, content_len : Int, threads : {0, 1}, closed : Int]

Reading(r) == r \in {"reading", "callback", "stopped", "exit"}

\* What the connection has taken once it is open.
Taken(ssl, type) == {"conn", "sock", "mutex"} \cup (IF ssl THEN {"ssl_ctx", "ssl"} ELSE {})
                    \cup (IF type = "WS_CLIENT" THEN {"threadids"} ELSE {})

\* What is held at each step, exactly.
HeldAt(at, ssl, type, h, r) ==
    /\ at \in {"null", "alloc", "closed"} => h = {}
    /\ at \in {"address", "socket"} => h = {"conn"}
    /\ at \in {"wait", "ctx"} => h = {"conn", "sock"}
    /\ at = "mutex" => h = {"conn", "sock"} \cup (IF ssl THEN {"ssl_ctx"} ELSE {})
    /\ at = "tls" => h = {"conn", "sock", "ssl_ctx", "mutex"} /\ ssl
    /\ at \in {"open", "request", "ready", "failed", "close", "join"} =>
         h = Taken(ssl, type) \cup (IF Reading(r) THEN {"thread_data"} ELSE {})
    /\ at \in {"ids", "thread"} => h = Taken(ssl, type) \cup {"thread_data"}
    /\ at = "end" => h = Taken(ssl, type) \/ h = Taken(ssl, type) \ {"ssl", "sock"}

\* Where the reader thread is, and how often the close handler was called.
ReaderAt(at, kind, type, threads, closed, r) ==
    /\ type = "WS_CLIENT" => at \in AfterUpgrade
    /\ type # "WS_CLIENT" => at \in BeforeUpgrade /\ r = "none" /\ threads = 0
    /\ type = "WS_CLIENT" /\ at = "open" => kind = "http"
    /\ at = "thread" => r = "none" /\ threads = 1
    /\ at # "thread" => (threads = 1 <=> r # "none")
    /\ at \in {"end", "closed"} => ~Reading(r)
    /\ r \in {"none", "reading", "callback"} => closed = 0
    /\ r \in {"stopped", "exit", "ended"} => closed = 1
    /\ r \in {"none", "reading", "callback", "stopped", "exit", "ended"}

ClientInv ==
    /\ client \in Clients
    /\ HeldAt(client.at, client.use_ssl, client.context_type, held, reader)
    /\ ReaderAt(client.at, client.kind, client.context_type, client.threads, client.closed, reader)

\* The invariant says what ClientSafe does.
LEMMA ClientInvSafe == ClientInv => ClientSafe
<1> SUFFICES ASSUME ClientInv PROVE ClientSafe
  OBVIOUS
<1>1. ClientReleased
  BY DEF ClientInv, HeldAt, ClientReleased
<1>2. ASSUME Reading(reader) PROVE {"conn", "thread_data"} \subseteq held
  <2>1. client.context_type = "WS_CLIENT" /\ client.at \in {"open", "close", "join"}
    BY <1>2 DEF ClientInv, ReaderAt, Reading, AfterUpgrade
  <2>2. held = Taken(client.use_ssl, client.context_type) \cup {"thread_data"}
    BY <1>2, <2>1 DEF ClientInv, HeldAt
  <2> QED BY <2>2 DEF Taken
<1>3. ASSUME client.at = "closed" PROVE client.closed = client.threads
  <2>1. reader \in {"none", "ended"} /\ client.threads \in {0, 1} /\ (client.threads = 1 <=> reader # "none")
    BY <1>3 DEF ClientInv, ReaderAt, Reading, Clients
  <2> QED BY <2>1 DEF ClientInv, ReaderAt
<1> QED BY <1>1, <1>2, <1>3 DEF ClientSafe, ReaderSafe, Reading

\* No client.
LEMMA NoClientFields ==
    /\ NoClient \in Clients /\ NoClient.at = "null" /\ NoClient.context_type = "none"
    /\ NoClient.threads = 0 /\ NoClient.closed = 0
BY DEF NoClient, Clients, Places, BeforeUpgrade, AfterUpgrade, Kinds, ContextTypes

\* A call that failed has released everything that was taken before.
LEMMA NullInv ==
    ASSUME NEW released, Null(released), held \ released = {}
    PROVE  ClientInv'
<1>1. client' = NoClient /\ held' = {} /\ reader' = "none"
  BY DEF Null
<1>2. /\ client' \in Clients /\ client'.at = "null" /\ client'.context_type = "none"
      /\ client'.threads = 0 /\ client'.closed = 0
  BY <1>1, NoClientFields
<1>3. HeldAt("null", client'.use_ssl, "none", {}, "none")
  BY DEF HeldAt
<1>4. ReaderAt("null", client'.kind, "none", 0, 0, "none")
  BY DEF ReaderAt, Reading, BeforeUpgrade
<1> QED BY <1>1, <1>2, <1>3, <1>4 DEF ClientInv

\* A step that changes nothing but the place.
LEMMA ClientMoved ==
    ASSUME ClientInv, NEW at \in Places, Step(at), UNCHANGED reader,
           client.at # "thread", at # "thread", at \in {"end", "closed"} => ~Reading(reader),
           client.context_type = "WS_CLIENT" => at \in AfterUpgrade \ {"open"},
           client.context_type # "WS_CLIENT" => at \in BeforeUpgrade,
           HeldAt(at, client.use_ssl, client.context_type, held', reader)
    PROVE  ClientInv'
<1>1. /\ client' \in Clients /\ client'.at = at /\ client'.use_ssl = client.use_ssl
      /\ client'.kind = client.kind /\ client'.context_type = client.context_type
      /\ client'.threads = client.threads /\ client'.closed = client.closed
  BY DEF ClientInv, Clients, Step
<1>2. ReaderAt(at, client.kind, client.context_type, client.threads, client.closed, reader)
  BY DEF ClientInv, ReaderAt
<1> QED BY <1>1, <1>2 DEF ClientInv

\* The same before the upgrade: there is no thread.
LEMMA ClientMovedEarly ==
    ASSUME ClientInv, NEW at \in BeforeUpgrade \ {"end", "closed"}, Step(at), UNCHANGED reader,
           client.at \notin AfterUpgrade,
           HeldAt(at, client.use_ssl, client.context_type, held', reader)
    PROVE  ClientInv'
<1>1. client.context_type # "WS_CLIENT" /\ client.at # "thread" /\ at # "thread" /\ at \in Places
  BY DEF ClientInv, ReaderAt, AfterUpgrade, BeforeUpgrade, Places
<1> QED BY <1>1, ClientMoved

\* Nothing but the reader, and what does not matter to the others, is different.
LEMMA ClientFields ==
    ASSUME client' \in Clients, NEW at, NEW ssl, NEW kind, NEW type, NEW threads, NEW closed,
           client'.at = at, client'.use_ssl = ssl, client'.kind = kind, client'.context_type = type,
           client'.threads = threads, client'.closed = closed,
           HeldAt(at, ssl, type, held', reader'), ReaderAt(at, kind, type, threads, closed, reader')
    PROVE  ClientInv'
BY DEF ClientInv

\* Every step of the application thread and of the reader preserves the invariant.
LEMMA ClientStepInv == ClientInv /\ [ClientNext]_clientVars => ClientInv'
<1> SUFFICES ASSUME ClientInv, [ClientNext]_clientVars PROVE ClientInv'
  OBVIOUS
<1>t. /\ client \in Clients
      /\ HeldAt(client.at, client.use_ssl, client.context_type, held, reader)
      /\ ReaderAt(client.at, client.kind, client.context_type, client.threads, client.closed, reader)
  BY DEF ClientInv
<1>p. BeforeUpgrade \subseteq Places /\ AfterUpgrade \subseteq Places
  BY DEF Places
<1>1. CASE Connect
  <2>1. PICK ssl \in BOOLEAN, kind \in {"http", "download", "websocket"} :
          client' = [NoClient EXCEPT !.at = "alloc", !.use_ssl = ssl, !.kind = kind]
    BY <1>1 DEF Connect
  <2>2. NoClient \in Clients /\ kind \in Kinds
    BY NoClientFields DEF Kinds
  <2>3. client' \in Clients
    BY <2>1, <2>2 DEF Clients, Places, BeforeUpgrade, AfterUpgrade, Kinds, ContextTypes
  <2>4. /\ client'.at = "alloc" /\ client'.context_type = "none" /\ client'.threads = 0
        /\ client'.closed = 0
    BY <2>1 DEF NoClient
  <2>5. held' = {} /\ reader' = reader /\ reader = "none"
    BY <1>1, <1>t DEF Connect, ReaderAt, AfterUpgrade
  <2> QED BY <2>3, <2>4, <2>5 DEF ClientInv, HeldAt, ReaderAt, Reading, BeforeUpgrade
<1>2. CASE Alloc
  <2>1. client.at = "alloc" /\ held = {}
    BY <1>2, <1>t DEF Alloc, HeldAt
  <2>2. CASE Null({})
    BY <2>1, <2>2, NullInv
  <2>3. CASE /\ client' = [client EXCEPT !.at = "address", !.context_type = "HTTP_CLIENT"]
             /\ held' = held \cup {"conn"} /\ UNCHANGED reader
    <3>1. client' \in Clients
      BY <1>t, <2>3 DEF Clients, Places, BeforeUpgrade, AfterUpgrade, Kinds, ContextTypes
    <3>2. /\ client'.at = "address" /\ client'.context_type = "HTTP_CLIENT"
          /\ client'.threads = client.threads /\ client'.closed = client.closed
      BY <1>t, <2>3 DEF Clients, Places, BeforeUpgrade, AfterUpgrade, Kinds, ContextTypes
    <3>3. reader = "none" /\ client.threads = 0 /\ client.closed = 0
      BY <1>t, <2>1 DEF ReaderAt, AfterUpgrade
    <3>4. held' = {"conn"} /\ reader' = "none"
      BY <2>1, <2>3, <3>3
    <3> QED BY <3>1, <3>2, <3>3, <3>4 DEF ClientInv, HeldAt, ReaderAt, Reading, BeforeUpgrade
  <2> QED BY <1>2, <2>2, <2>3 DEF Alloc
<1>3. CASE ConnectAddress
  <2>1. client.at = "address" /\ held = {"conn"}
    BY <1>3, <1>t DEF ConnectAddress, HeldAt
  <2>2. CASE Null({"conn"})
    BY <2>1, <2>2, NullInv
  <2>3. CASE Step("socket") /\ UNCHANGED <<held, reader>>
    <3>1. HeldAt("socket", client.use_ssl, client.context_type, held', reader)
      BY <1>t, <2>1, <2>3 DEF HeldAt
    <3> QED BY ClientMovedEarly, <1>p, <2>1, <2>3, <3>1 DEF AfterUpgrade, BeforeUpgrade
  <2> QED BY <1>3, <2>2, <2>3 DEF ConnectAddress
<1>4. CASE ConnectSocket
  <2>1. client.at = "socket" /\ held = {"conn"}
    BY <1>4, <1>t DEF ConnectSocket, HeldAt
  <2>2. CASE Null({"conn"})
    BY <2>1, <2>2, NullInv
  <2>3. CASE Step("wait") /\ held' = held \cup {"sock"} /\ UNCHANGED reader
    <3>1. held' = {"conn", "sock"}
      BY <2>1, <2>3
    <3>2. HeldAt("wait", client.use_ssl, client.context_type, held', reader)
      BY <1>t, <3>1 DEF HeldAt
    <3> QED BY ClientMovedEarly, <1>p, <2>1, <2>3, <3>2 DEF AfterUpgrade, BeforeUpgrade
  <2> QED BY <1>4, <2>2, <2>3 DEF ConnectSocket
<1>5. CASE ConnectWait
  <2>1. client.at = "wait" /\ held = {"conn", "sock"}
    BY <1>5, <1>t DEF ConnectWait, HeldAt
  <2>2. CASE Null({"sock", "conn"})
    BY <2>1, <2>2, NullInv
  <2>3. CASE Step("ctx") /\ UNCHANGED <<held, reader>>
    <3>1. HeldAt("ctx", client.use_ssl, client.context_type, held', reader)
      BY <1>t, <2>1, <2>3 DEF HeldAt
    <3> QED BY ClientMovedEarly, <1>p, <2>1, <2>3, <3>1 DEF AfterUpgrade, BeforeUpgrade
  <2> QED BY <1>5, <2>2, <2>3 DEF ConnectWait
<1>6. CASE SslContext
  <2>1. client.at = "ctx" /\ held = {"conn", "sock"}
    BY <1>6, <1>t DEF SslContext, HeldAt
  <2>2. CASE Null({"sock", "conn"})
    BY <2>1, <2>2, NullInv
  <2>3. CASE /\ Step("mutex") /\ UNCHANGED reader
             /\ held' = held \cup (IF client.use_ssl THEN {"ssl_ctx"} ELSE {})
    <3>1. HeldAt("mutex", client.use_ssl, client.context_type, held', reader)
      BY <1>t, <2>1, <2>3 DEF HeldAt
    <3> QED BY ClientMovedEarly, <1>p, <2>1, <2>3, <3>1 DEF AfterUpgrade, BeforeUpgrade
  <2> QED BY <1>6, <2>2, <2>3 DEF SslContext
<1>7. CASE Mutex
  <2>1. client.at = "mutex" /\ held = {"conn", "sock"} \cup (IF client.use_ssl THEN {"ssl_ctx"} ELSE {})
    BY <1>7, <1>t DEF Mutex, HeldAt
  <2>u. client.context_type # "WS_CLIENT" /\ reader = "none"
    BY <1>t, <2>1 DEF ReaderAt, AfterUpgrade
  <2>2. CASE Null({"ssl_ctx", "sock", "conn"})
    BY <2>1, <2>2, NullInv
  <2>3. CASE Step(IF client.use_ssl THEN "tls" ELSE "open") /\ held' = held \cup {"mutex"} /\ UNCHANGED reader
    <3>1. CASE client.use_ssl
      <4>1. HeldAt("tls", client.use_ssl, client.context_type, held', reader)
        BY <1>t, <2>1, <2>3, <3>1 DEF HeldAt
      <4> QED BY ClientMovedEarly, <1>p, <2>1, <2>3, <3>1, <4>1 DEF AfterUpgrade, BeforeUpgrade
    <3>2. CASE ~client.use_ssl
      <4>1. HeldAt("open", client.use_ssl, client.context_type, held', reader)
        BY <1>t, <2>1, <2>u, <2>3, <3>2 DEF HeldAt, Taken, Reading
      <4> QED BY ClientMovedEarly, <1>p, <2>1, <2>3, <3>2, <4>1 DEF AfterUpgrade, BeforeUpgrade
    <3> QED BY <3>1, <3>2
  <2> QED BY <1>7, <2>2, <2>3 DEF Mutex
<1>8. CASE Tls
  <2>1. client.at = "tls" /\ held = {"conn", "sock", "ssl_ctx", "mutex"} /\ client.use_ssl
    BY <1>8, <1>t DEF Tls, HeldAt
  <2>u. client.context_type # "WS_CLIENT" /\ reader = "none"
    BY <1>t, <2>1 DEF ReaderAt, AfterUpgrade
  <2>2. CASE Null({"ssl_ctx", "sock", "conn", "mutex"})
    BY <2>1, <2>2, NullInv
  <2>3. CASE Step("open") /\ held' = held \cup {"ssl"} /\ UNCHANGED reader
    <3>1. HeldAt("open", client.use_ssl, client.context_type, held', reader)
      BY <1>t, <2>1, <2>u, <2>3 DEF HeldAt, Taken, Reading
    <3> QED BY ClientMovedEarly, <1>p, <2>1, <2>3, <3>1 DEF AfterUpgrade, BeforeUpgrade
  <2> QED BY <1>8, <2>2, <2>3 DEF Tls
\* The open connection: what is held depends on the context and the reader.
<1>o. ASSUME NEW at \in {"request", "ready", "failed", "close", "join"}
      PROVE  client.at \in {"open", "request", "ready", "failed", "close"} =>
               HeldAt(at, client.use_ssl, client.context_type, held, reader)
  BY <1>o, <1>t DEF HeldAt, Taken
<1>9. CASE SendRequest
  <2>1. client.at = "open" /\ client.context_type # "WS_CLIENT" /\ Step("request") /\ UNCHANGED <<held, reader>>
    BY <1>9, <1>t DEF SendRequest, ReaderAt
  <2> QED BY ClientMoved, <1>p, <1>o, <2>1 DEF BeforeUpgrade
<1>10. CASE GetResponse
  <2>1. PICK len \in {-1, 0, 1}, at \in {"ready", "failed"} :
          client' = [client EXCEPT !.content_len = len, !.at = at]
    BY <1>10 DEF GetResponse
  <2>2. len \in Int /\ at \in Places
    BY DEF Places, BeforeUpgrade
  <2>3. client' \in Clients
    BY <1>t, <2>1, <2>2 DEF Clients, Places, BeforeUpgrade, AfterUpgrade, Kinds, ContextTypes
  <2>4. /\ client'.at = at /\ client'.context_type = client.context_type /\ client'.use_ssl = client.use_ssl
        /\ client'.threads = client.threads /\ client'.closed = client.closed
    BY <1>t, <2>1 DEF Clients, Places, BeforeUpgrade, AfterUpgrade, Kinds, ContextTypes
  <2>5. client.at = "request" /\ UNCHANGED <<held, reader>>
    BY <1>10 DEF GetResponse
  <2>6. HeldAt(client'.at, client'.use_ssl, client'.context_type, held', reader')
    BY <1>t, <2>4, <2>5 DEF HeldAt, Taken
  <2>7. ReaderAt(client'.at, client'.kind, client'.context_type, client'.threads, client'.closed, reader')
    BY <1>t, <2>4, <2>5 DEF ReaderAt, AfterUpgrade, BeforeUpgrade
  <2> QED BY <2>3, <2>6, <2>7 DEF ClientInv
<1>11. CASE AppResponse
  <2>1. PICK len \in {-1, 0, 1} : client' = [client EXCEPT !.content_len = len]
    BY <1>11 DEF AppResponse
  <2>2. client' \in Clients
    BY <1>t, <2>1 DEF Clients, Places, BeforeUpgrade, AfterUpgrade, Kinds, ContextTypes
  <2>3. /\ client'.at = client.at /\ client'.context_type = client.context_type
        /\ client'.use_ssl = client.use_ssl /\ client'.kind = client.kind
        /\ client'.threads = client.threads /\ client'.closed = client.closed
    BY <1>t, <2>1 DEF Clients, Places, BeforeUpgrade, AfterUpgrade, Kinds, ContextTypes
  <2>4. UNCHANGED <<held, reader>>
    BY <1>11 DEF AppResponse
  <2>5. HeldAt(client'.at, client'.use_ssl, client'.context_type, held', reader') /\ ReaderAt(client'.at, client'.kind, client'.context_type, client'.threads, client'.closed, reader')
    BY <1>t, <2>3, <2>4 DEF HeldAt, ReaderAt, Taken
  <2> QED BY <2>2, <2>5 DEF ClientInv
<1>12. CASE Downloaded
  <2>1. client' = [client EXCEPT !.at = "open", !.kind = "http"] /\ client.at = "ready"
    BY <1>12 DEF Downloaded
  <2>2. client' \in Clients
    BY <1>t, <2>1 DEF Clients, Places, BeforeUpgrade, AfterUpgrade, Kinds, ContextTypes
  <2>3. /\ client'.at = "open" /\ client'.context_type = client.context_type
        /\ client'.use_ssl = client.use_ssl
        /\ client'.threads = client.threads /\ client'.closed = client.closed
    BY <1>t, <2>1 DEF Clients, Places, BeforeUpgrade, AfterUpgrade, Kinds, ContextTypes
  <2>4. UNCHANGED <<held, reader>>
    BY <1>12 DEF Downloaded
  <2>5. HeldAt(client'.at, client'.use_ssl, client'.context_type, held', reader')
    BY <1>t, <2>1, <2>3, <2>4 DEF HeldAt, Taken
  <2>6. ReaderAt(client'.at, client'.kind, client'.context_type, client'.threads, client'.closed, reader')
    BY <1>t, <2>1, <2>3, <2>4 DEF ReaderAt, AfterUpgrade, BeforeUpgrade
  <2> QED BY <2>2, <2>5, <2>6 DEF ClientInv
<1>13. CASE GiveUp
  <2>1. /\ client.at \in {"request", "failed", "ready"} /\ Step("close") /\ UNCHANGED <<held, reader>>
    BY <1>13 DEF GiveUp
  <2> QED BY ClientMoved, <1>p, <1>o, <2>1 DEF BeforeUpgrade, AfterUpgrade
<1>14. CASE ThreadData
  <2>1. /\ client.at = "ready" /\ Step("ids") /\ held' = held \cup {"thread_data"} /\ UNCHANGED reader
    BY <1>14 DEF ThreadData
  <2>2. client.context_type # "WS_CLIENT" /\ reader = "none" /\ client.at \notin AfterUpgrade
    BY <1>t, <2>1 DEF ReaderAt, AfterUpgrade
  <2>3. held = Taken(client.use_ssl, client.context_type)
    BY <1>t, <2>1, <2>2 DEF HeldAt, Reading
  <2>4. HeldAt("ids", client.use_ssl, client.context_type, held', reader)
    BY <1>t, <2>1, <2>3 DEF HeldAt, Taken
  <2> QED BY ClientMovedEarly, <1>p, <2>1, <2>2, <2>4 DEF BeforeUpgrade
<1>15. CASE Upgrade
  <2>1. client.at = "ids" /\ held = Taken(client.use_ssl, client.context_type) \cup {"thread_data"}
    BY <1>15, <1>t DEF Upgrade, HeldAt
  <2>2. /\ client.context_type # "WS_CLIENT" /\ reader = "none" /\ client.at \notin AfterUpgrade
        /\ client.closed = 0
    BY <1>t, <2>1 DEF ReaderAt, AfterUpgrade
  <2>3. CASE Step("close") /\ held' = held \ {"thread_data"} /\ UNCHANGED reader
    <3>1. HeldAt("close", client.use_ssl, client.context_type, held', reader)
      BY <1>t, <2>1, <2>2, <2>3 DEF HeldAt, Taken, Reading
    <3> QED BY ClientMovedEarly, <1>p, <2>2, <2>3, <3>1 DEF BeforeUpgrade
  <2>4. CASE /\ client' = [client EXCEPT !.at = "thread", !.context_type = "WS_CLIENT", !.threads = 1]
             /\ held' = held \cup {"threadids"} /\ UNCHANGED reader
    <3>1. client' \in Clients
      BY <1>t, <2>4 DEF Clients, Places, BeforeUpgrade, AfterUpgrade, Kinds, ContextTypes
    <3>2. /\ client'.at = "thread" /\ client'.context_type = "WS_CLIENT" /\ client'.threads = 1
          /\ client'.use_ssl = client.use_ssl /\ client'.closed = client.closed
      BY <1>t, <2>4 DEF Clients, Places, BeforeUpgrade, AfterUpgrade, Kinds, ContextTypes
    <3>3. HeldAt(client'.at, client'.use_ssl, client'.context_type, held', reader')
      BY <2>1, <2>2, <2>4, <3>2 DEF HeldAt, Taken
    <3>4. ReaderAt(client'.at, client'.kind, client'.context_type, client'.threads, client'.closed, reader')
      BY <2>2, <2>4, <3>2 DEF ReaderAt, AfterUpgrade
    <3> QED BY <3>1, <3>3, <3>4 DEF ClientInv
  <2> QED BY <1>15, <2>3, <2>4 DEF Upgrade
<1>16. CASE StartThread
  <2>1. client.at = "thread" /\ held = Taken(client.use_ssl, client.context_type) \cup {"thread_data"}
    BY <1>16, <1>t DEF StartThread, HeldAt
  <2>2. client.context_type = "WS_CLIENT" /\ reader = "none" /\ client.threads = 1 /\ client.closed = 0
    BY <1>t, <2>1 DEF ReaderAt, BeforeUpgrade
  <2>3. CASE /\ client' = [client EXCEPT !.at = "close", !.threads = 0]
             /\ held' = held \ {"thread_data"} /\ UNCHANGED reader
    <3>1. client' \in Clients
      BY <1>t, <2>3 DEF Clients, Places, BeforeUpgrade, AfterUpgrade, Kinds, ContextTypes
    <3>2. /\ client'.at = "close" /\ client'.context_type = client.context_type /\ client'.threads = 0
          /\ client'.use_ssl = client.use_ssl /\ client'.closed = client.closed
      BY <1>t, <2>3 DEF Clients, Places, BeforeUpgrade, AfterUpgrade, Kinds, ContextTypes
    <3>3. HeldAt(client'.at, client'.use_ssl, client'.context_type, held', reader')
      BY <2>1, <2>2, <2>3, <3>2 DEF HeldAt, Taken, Reading
    <3>4. ReaderAt(client'.at, client'.kind, client'.context_type, client'.threads, client'.closed, reader')
      BY <2>2, <2>3, <3>2 DEF ReaderAt, AfterUpgrade
    <3> QED BY <3>1, <3>3, <3>4 DEF ClientInv
  <2>4. CASE /\ client' = [client EXCEPT !.at = "open", !.kind = "http"]
             /\ reader' = "reading" /\ UNCHANGED held
    <3>1. client' \in Clients
      BY <1>t, <2>4 DEF Clients, Places, BeforeUpgrade, AfterUpgrade, Kinds, ContextTypes
    <3>2. /\ client'.at = "open" /\ client'.context_type = client.context_type /\ client'.kind = "http"
          /\ client'.use_ssl = client.use_ssl /\ client'.closed = client.closed
          /\ client'.threads = client.threads
      BY <1>t, <2>4 DEF Clients, Places, BeforeUpgrade, AfterUpgrade, Kinds, ContextTypes
    <3>3. HeldAt(client'.at, client'.use_ssl, client'.context_type, held', reader')
      BY <2>1, <2>2, <2>4, <3>2 DEF HeldAt, Taken, Reading
    <3>4. ReaderAt(client'.at, client'.kind, client'.context_type, client'.threads, client'.closed, reader')
      BY <2>2, <2>4, <3>2 DEF ReaderAt, AfterUpgrade
    <3> QED BY <3>1, <3>3, <3>4 DEF ClientInv
  <2> QED BY <1>16, <2>3, <2>4 DEF StartThread
\* The reader thread moves.
<1>r. ASSUME Reading(reader)
      PROVE  /\ client.context_type = "WS_CLIENT" /\ client.threads = 1
             /\ client.at \in {"open", "close", "join"}
             /\ held = Taken(client.use_ssl, client.context_type) \cup {"thread_data"}
  BY <1>r, <1>t DEF ReaderAt, HeldAt, Reading, AfterUpgrade
<1>17. CASE ReaderLeaves
  <2>1. reader = "reading" /\ reader' = "callback" /\ UNCHANGED <<client, held>>
    BY <1>17 DEF ReaderLeaves
  <2> QED BY <1>t, <2>1 DEF ClientInv, HeldAt, ReaderAt, Reading
<1>18. CASE ReaderCloseHandler
  <2>1. /\ reader = "callback" /\ reader' = "stopped" /\ held' = held
        /\ client' = [client EXCEPT !.closed = @ + 1]
    BY <1>18 DEF ReaderCloseHandler
  <2>2. client' \in Clients
    BY <1>t, <2>1 DEF Clients, Places, BeforeUpgrade, AfterUpgrade, Kinds, ContextTypes
  <2>3. /\ client'.at = client.at /\ client'.context_type = client.context_type
        /\ client'.use_ssl = client.use_ssl /\ client'.kind = client.kind
        /\ client'.threads = client.threads /\ client'.closed = client.closed + 1
    BY <1>t, <2>1 DEF Clients, Places, BeforeUpgrade, AfterUpgrade, Kinds, ContextTypes
  <2>4. HeldAt(client'.at, client'.use_ssl, client'.context_type, held', reader')
    BY <1>t, <2>1, <2>3 DEF HeldAt, Taken, Reading
  <2>5. ReaderAt(client'.at, client'.kind, client'.context_type, client'.threads, client'.closed, reader')
    BY <1>t, <2>1, <2>3 DEF ReaderAt, Reading
  <2> QED BY <2>2, <2>4, <2>5 DEF ClientInv
<1>19. CASE ReaderStopped
  <2>1. /\ reader = "stopped" /\ reader' = "exit" /\ held' = held
        /\ client' = [client EXCEPT !.stop_flag = 2]
    BY <1>19 DEF ReaderStopped
  <2>2. client' \in Clients
    BY <1>t, <2>1 DEF Clients, Places, BeforeUpgrade, AfterUpgrade, Kinds, ContextTypes
  <2>3. /\ client'.at = client.at /\ client'.context_type = client.context_type
        /\ client'.use_ssl = client.use_ssl /\ client'.kind = client.kind
        /\ client'.threads = client.threads /\ client'.closed = client.closed
    BY <1>t, <2>1 DEF Clients, Places, BeforeUpgrade, AfterUpgrade, Kinds, ContextTypes
  <2>4. HeldAt(client'.at, client'.use_ssl, client'.context_type, held', reader')
    BY <1>t, <2>1, <2>3 DEF HeldAt, Taken, Reading
  <2>5. ReaderAt(client'.at, client'.kind, client'.context_type, client'.threads, client'.closed, reader')
    BY <1>t, <2>1, <2>3 DEF ReaderAt, Reading
  <2> QED BY <2>2, <2>4, <2>5 DEF ClientInv
<1>20. CASE ReaderExit
  <2>1. reader = "exit" /\ reader' = "ended" /\ client' = client /\ held' = held \ {"thread_data"}
    BY <1>20 DEF ReaderExit
  <2>2. /\ client.context_type = "WS_CLIENT" /\ client.at \in {"open", "close", "join"}
        /\ held = Taken(client.use_ssl, client.context_type) \cup {"thread_data"}
    BY <1>r, <2>1 DEF Reading
  <2>3. held' = Taken(client.use_ssl, client.context_type)
    BY <2>1, <2>2 DEF Taken
  <2>4. HeldAt(client'.at, client'.use_ssl, client'.context_type, held', reader')
    BY <2>1, <2>2, <2>3 DEF HeldAt, Reading
  <2>5. ReaderAt(client'.at, client'.kind, client'.context_type, client'.threads, client'.closed, reader')
    BY <1>t, <2>1 DEF ReaderAt, Reading
  <2> QED BY <1>t, <2>1, <2>4, <2>5 DEF ClientInv
<1>21. CASE AppCloses
  <2>1. client.at = "open" /\ Step("close") /\ UNCHANGED <<held, reader>>
    BY <1>21 DEF AppCloses
  <2> QED BY ClientMoved, <1>p, <1>o, <2>1 DEF BeforeUpgrade, AfterUpgrade
<1>22. CASE CloseStart
  <2> DEFINE ws == client.context_type = "WS_CLIENT"
             at == IF ws THEN "join" ELSE "end"
             flag == IF ws THEN 1 ELSE client.stop_flag
  <2>1. /\ client' = [client EXCEPT !.at = at, !.stop_flag = flag]
        /\ client.at = "close" /\ UNCHANGED <<held, reader>>
    BY <1>22 DEF CloseStart
  <2>2. at \in Places /\ flag \in Int
    BY <1>t DEF Clients, Places, BeforeUpgrade, AfterUpgrade, Kinds, ContextTypes
  <2>a. at = IF client.context_type = "WS_CLIENT" THEN "join" ELSE "end"
    OBVIOUS
  <2> HIDE DEF at, flag
  <2>3. client' \in Clients
    BY <1>t, <2>1, <2>2 DEF Clients, Places, BeforeUpgrade, AfterUpgrade, Kinds, ContextTypes
  <2>4. /\ client'.at = at /\ client'.context_type = client.context_type
        /\ client'.use_ssl = client.use_ssl /\ client'.kind = client.kind
        /\ client'.threads = client.threads /\ client'.closed = client.closed
    BY <1>t, <2>1 DEF Clients, Places, BeforeUpgrade, AfterUpgrade, Kinds, ContextTypes
  <2>5. ~Reading(reader) \/ client.context_type = "WS_CLIENT"
    BY <1>r
  <2>6. HeldAt(client'.at, client'.use_ssl, client'.context_type, held', reader')
    BY <1>t, <2>1, <2>a, <2>4, <2>5 DEF HeldAt, Taken
  <2>7. ReaderAt(client'.at, client'.kind, client'.context_type, client'.threads, client'.closed, reader')
    BY <1>t, <2>1, <2>a, <2>4, <2>5 DEF ReaderAt, AfterUpgrade, BeforeUpgrade
  <2> QED BY <2>3, <2>6, <2>7 DEF ClientInv
<1>23. CASE CloseJoin
  <2>1. /\ client.at = "join" /\ Step("end") /\ UNCHANGED <<held, reader>>
        /\ client.threads = 1 => reader = "ended"
    BY <1>23 DEF CloseJoin
  <2>2. ~Reading(reader)
    BY <1>r, <2>1 DEF Reading
  <2>3. HeldAt("end", client.use_ssl, client.context_type, held', reader)
    BY <1>t, <2>1, <2>2 DEF HeldAt, Taken
  <2> QED BY ClientMoved, <1>p, <2>1, <2>2, <2>3 DEF BeforeUpgrade, AfterUpgrade
<1>24. CASE CloseSocket
  <2>1. client.at = "end" /\ held' = held \ {"ssl", "sock"} /\ UNCHANGED <<client, reader>>
    BY <1>24 DEF CloseSocket
  <2>2. HeldAt(client'.at, client'.use_ssl, client'.context_type, held', reader')
    BY <1>t, <2>1 DEF HeldAt, Taken
  <2> QED BY <1>t, <2>1, <2>2 DEF ClientInv
<1>25. CASE CloseFrees
  <2>1. /\ client.at = "end" /\ "sock" \notin held /\ Step("closed") /\ UNCHANGED reader
        /\ held' = held \ ({"ssl_ctx", "mutex", "conn"}
                           \cup (IF client.context_type = "WS_CLIENT" THEN {"threadids"} ELSE {}))
    BY <1>25 DEF CloseFrees, Step
  <2>2. held = Taken(client.use_ssl, client.context_type) \ {"ssl", "sock"}
    BY <1>t, <2>1 DEF HeldAt, Taken
  <2>3. held' = {}
    BY <2>1, <2>2 DEF Taken
  <2>4. ~Reading(reader)
    BY <1>t, <2>1 DEF ReaderAt
  <2>5. HeldAt("closed", client.use_ssl, client.context_type, held', reader)
    BY <1>t, <2>3 DEF HeldAt
  <2> QED BY ClientMoved, <1>p, <2>1, <2>4, <2>5 DEF BeforeUpgrade, AfterUpgrade
<1>26. CASE ClientDone
  <2>1. client' = NoClient /\ held' = {} /\ reader' = "none"
    BY <1>26, <1>t DEF ClientDone, HeldAt
  <2>2. held' = held /\ Null({}) /\ held \ {} = {}
    BY <1>26, <2>1 DEF ClientDone, Null
  <2> QED BY <2>2, NullInv
<1>27. CASE UNCHANGED clientVars
  BY <1>27, <1>t DEF clientVars, ClientInv
<1> QED BY <1>1, <1>2, <1>3, <1>4, <1>5, <1>6, <1>7, <1>8, <1>9, <1>10, <1>11, <1>12, <1>13, <1>14,
           <1>15, <1>16, <1>17, <1>18, <1>19, <1>20, <1>21, <1>22, <1>23, <1>24, <1>25, <1>26, <1>27
        DEF ClientNext

\* A client connection gives back all it has taken, whichever step fails, and the reader
\* thread uses nothing that is gone; its close handler is called once.
THEOREM ClientsReleaseAll == ClientSpec => []ClientSafe
<1>1. ClientInit => ClientInv
  <2> SUFFICES ASSUME ClientInit PROVE ClientInv
    OBVIOUS
  <2>1. client = NoClient /\ held = {} /\ reader = "none"
    BY DEF ClientInit
  <2>2. HeldAt("null", client.use_ssl, "none", {}, "none")
    BY DEF HeldAt
  <2>3. ReaderAt("null", client.kind, "none", 0, 0, "none")
    BY DEF ReaderAt, Reading, BeforeUpgrade
  <2> QED BY <2>1, <2>2, <2>3, NoClientFields DEF ClientInv
<1> QED BY <1>1, ClientInvSafe, ClientStepInv, PTL DEF ClientSpec

-----------------------------------------------------------------------------
(* Http2 *)

H2Steps == {"idle", "primer", "frame", "header", "serve", "http1", "closed"}

H2TypeOK ==
    /\ h2Pc \in H2Steps
    /\ h2Dyn \in Seq(H2Names)
    /\ h2Headers \in Seq(H2Names)
    /\ h2Alive \in Int

\* A frame is read, and a connection is closed, without headers of an earlier request: the
\* list that HEADERS clears owns nothing.
NoOldHeaders == h2Pc \notin {"header", "serve"} => h2Headers = <<>>

H2Inv == H2TypeOK /\ NoOldHeaders /\ Http2Exact

\* alpn_select_cb chooses what the client offers.
LEMMA AlpnChoice ==
    ASSUME NEW offer, alpn_select_cb(offer, "none") = "h2"
    PROVE  "h2" \in offer
<1> DEFINE found == {j \in DOMAIN ProtoOrder : ProtoOrder[j] \in offer}
           first == CHOOSE j \in found : \A k \in found : j <= k
<1>1. CASE found = {}
  BY <1>1 DEF alpn_select_cb
<1>2. CASE found # {}
  <2>1. found \subseteq {1, 2, 3}
    BY DEF ProtoOrder
  <2>2. \E j \in found : \A k \in found : j <= k
    BY <1>2, <2>1
  <2>3. first \in found
    BY <2>2
  <2>4. alpn_select_cb(offer, "none") = ProtoOrder[first]
    BY <1>2 DEF alpn_select_cb
  <2> HIDE DEF first
  <2>5. ProtoOrder[first] \in offer
    BY <2>3
  <2> QED BY <2>4, <2>5
<1> QED BY <1>1, <1>2

\* An entry adds the header, if there is room, and one more for the table.
LEMMA HeaderAdded ==
    ASSUME H2TypeOK, NEW name \in H2Names, NEW extra \in Int, AddHeader(name, extra)
    PROVE  /\ h2Headers' \in Seq(H2Names)
           /\ h2Alive' = h2Alive + (Len(h2Headers') - Len(h2Headers)) + extra
<1>1. h2Headers \in Seq(H2Names) /\ h2Alive \in Int /\ Len(h2Headers) \in Nat
  BY DEF H2TypeOK
<1>2. CASE Len(h2Headers) < MaxH2Headers
  BY <1>1, <1>2 DEF AddHeader
<1>3. CASE ~(Len(h2Headers) < MaxH2Headers)
  BY <1>1, <1>3 DEF AddHeader
<1> QED BY <1>2, <1>3

\* Every frame, entry and error preserves the invariant.
LEMMA H2StepInv == H2Inv /\ [H2Next]_h2Vars => H2Inv'
<1> SUFFICES ASSUME H2Inv, [H2Next]_h2Vars PROVE H2Inv'
  OBVIOUS
<1>t. /\ h2Pc \in H2Steps /\ h2Dyn \in Seq(H2Names) /\ h2Headers \in Seq(H2Names) /\ h2Alive \in Int
      /\ Len(h2Dyn) \in Nat /\ Len(h2Headers) \in Nat /\ h2Alive = Len(h2Headers) + Len(h2Dyn)
      /\ h2Pc \notin {"header", "serve"} => h2Headers = <<>>
      /\ h2Pc \notin {"idle", "http1", "closed"} => "h2" \in h2Offer
  BY DEF H2Inv, H2TypeOK, NoOldHeaders, Http2Exact, AlpnIsOwn, H2StringsOwned
<1>q. ASSUME h2Pc' \in H2Steps, h2Dyn' \in Seq(H2Names), h2Headers' \in Seq(H2Names),
             h2Alive' = Len(h2Headers') + Len(h2Dyn'), NoOldHeaders', AlpnIsOwn'
      PROVE  H2Inv'
  <2>1. h2Alive' \in Int
    BY <1>q, LenProperties
  <2> QED BY <1>q, <2>1 DEF H2Inv, H2TypeOK, Http2Exact, H2StringsOwned
\* The strings are the same.
<1>k. ASSUME h2Pc' \in H2Steps, UNCHANGED <<h2Dyn, h2Headers, h2Alive>>, NoOldHeaders', AlpnIsOwn'
      PROVE  H2Inv'
  BY <1>k, <1>q, <1>t
\* An entry of a header block.
<1>e. ASSUME EntryComes, UNCHANGED <<h2Pc, h2Offer>>, h2Headers' \in Seq(H2Names), h2Dyn' \in Seq(H2Names),
             h2Alive' = Len(h2Headers') + Len(h2Dyn')
      PROVE  H2Inv'
  <2>1. NoOldHeaders' /\ AlpnIsOwn'
    BY <1>e, <1>t DEF EntryComes, NoOldHeaders, AlpnIsOwn
  <2> QED BY <1>e, <1>q, <1>t, <2>1
<1>a. ASSUME NEW name \in H2Names, EntryComes, AddHeader(name, 0), UNCHANGED <<h2Pc, h2Offer, h2Dyn>>
      PROVE  H2Inv'
  <2>1. /\ h2Headers' \in Seq(H2Names)
        /\ h2Alive' = h2Alive + (Len(h2Headers') - Len(h2Headers)) + 0
    BY <1>a, HeaderAdded DEF H2Inv
  <2>2. h2Alive' = Len(h2Headers') + Len(h2Dyn')
    BY <1>a, <1>t, <2>1
  <2> QED BY <1>a, <1>e, <1>t, <2>1, <2>2
\* The headers and the table are freed.
<1>c. ASSUME CleanHttp2 PROVE H2Inv'
  <2>1. /\ h2Pc' = "closed" /\ h2Dyn' = <<>> /\ h2Headers' = <<>>
        /\ h2Alive' = h2Alive - Len(h2Headers) - Len(h2Dyn)
    BY <1>c DEF CleanHttp2
  <2>2. h2Alive' = 0 /\ Len(h2Headers') = 0 /\ Len(h2Dyn') = 0
    BY <1>t, <2>1
  <2>3. NoOldHeaders' /\ AlpnIsOwn'
    BY <2>1 DEF NoOldHeaders, AlpnIsOwn
  <2> QED BY <1>q, <2>1, <2>2, <2>3 DEF H2Steps
<1>1. CASE AcceptTls
  <2>1. /\ h2Pc = "idle" /\ UNCHANGED <<h2Dyn, h2Headers, h2Alive>>
        /\ alpnProto' = alpn_select_cb(h2Offer', "none")
        /\ h2Pc' = IF alpnProto' = "h2" THEN "primer" ELSE "http1"
    BY <1>1 DEF AcceptTls, ResetProto
  <2>2. NoOldHeaders' /\ AlpnIsOwn'
    BY <1>t, <2>1, AlpnChoice DEF NoOldHeaders, AlpnIsOwn
  <2> QED BY <1>k, <2>1, <2>2 DEF H2Steps
<1>2. CASE ConnectionDone
  BY <1>2, <1>k, <1>t DEF ConnectionDone, NoOldHeaders, AlpnIsOwn, H2Steps
<1>3. CASE BadPrimer
  BY <1>3, <1>k, <1>t DEF BadPrimer, NoOldHeaders, AlpnIsOwn, H2Steps
<1>4. CASE GoodPrimer
  BY <1>4, <1>k, <1>t DEF GoodPrimer, NoOldHeaders, AlpnIsOwn, H2Steps
<1>5. CASE FrameFails
  BY <1>5, <1>c DEF FrameFails
<1>6. CASE OtherFrame
  BY <1>6, <1>k, <1>t DEF OtherFrame, NoOldHeaders, AlpnIsOwn
<1>7. CASE HeadersFrame
  <2>1. h2Headers = <<>> /\ UNCHANGED <<h2Dyn, h2Headers, h2Alive>> /\ h2Pc' = "header"
    BY <1>7, <1>t DEF HeadersFrame
  <2> QED BY <1>7, <1>k, <1>t, <2>1 DEF HeadersFrame, NoOldHeaders, AlpnIsOwn, H2Steps
<1>8. CASE StaticEntry
  BY <1>8, <1>a DEF StaticEntry
<1>9. CASE DynamicEntry
  <2>1. PICK k \in 1..Len(h2Peer) : k <= Len(h2Dyn) /\ AddHeader(h2Dyn[k], 0)
    BY <1>9 DEF DynamicEntry
  <2>2. h2Dyn[k] \in H2Names
    BY <1>t, <2>1
  <2> QED BY <1>9, <1>a, <2>1, <2>2 DEF DynamicEntry
<1>10. CASE LiteralEntry
  BY <1>10, <1>a DEF LiteralEntry
<1>11. CASE IndexedLiteralEntry
  <2>1. PICK name \in H2Names : h2Dyn' = Append(h2Dyn, name) /\ AddHeader(name, 1)
    BY <1>11 DEF IndexedLiteralEntry
  <2>2. /\ h2Headers' \in Seq(H2Names)
        /\ h2Alive' = h2Alive + (Len(h2Headers') - Len(h2Headers)) + 1
    BY <2>1, HeaderAdded DEF H2Inv
  <2>3. h2Dyn' \in Seq(H2Names) /\ Len(h2Dyn') = Len(h2Dyn) + 1
    BY <1>t, <2>1
  <2>4. h2Alive' = Len(h2Headers') + Len(h2Dyn')
    BY <1>t, <2>2, <2>3
  <2> QED BY <1>11, <1>e, <2>2, <2>3, <2>4 DEF IndexedLiteralEntry
<1>12. CASE ResizeEntry
  <2>1. PICK n \in {0, 1} : purge_dynamic_header_table(n)
    BY <1>12 DEF ResizeEntry
  <2> DEFINE kept == IF Len(h2Dyn) > n THEN n ELSE Len(h2Dyn)
  <2>2. kept \in Nat /\ kept <= Len(h2Dyn)
    BY <1>t
  <2>3. h2Dyn' = SubSeq(h2Dyn, 1, kept) /\ h2Alive' = h2Alive - (Len(h2Dyn) - kept)
    BY <2>1 DEF purge_dynamic_header_table
  <2> HIDE DEF kept
  <2>4. h2Dyn' \in Seq(H2Names) /\ Len(h2Dyn') = kept
    BY <1>t, <2>2, <2>3
  <2>5. h2Headers' = h2Headers
    BY <1>12 DEF ResizeEntry
  <2>6. h2Alive' = Len(h2Headers') + Len(h2Dyn')
    BY <1>t, <2>2, <2>3, <2>4, <2>5
  <2> QED BY <1>12, <1>e, <1>t, <2>4, <2>5, <2>6 DEF ResizeEntry
<1>13. CASE EntryFails
  BY <1>13, <1>c DEF EntryFails
<1>14. CASE HeadersEnd
  BY <1>14, <1>k, <1>t DEF HeadersEnd, NoOldHeaders, AlpnIsOwn, H2Steps
<1>15. CASE ServeStream
  <2>1. /\ h2Pc' = "frame" /\ h2Headers' = <<>> /\ h2Dyn' = h2Dyn /\ h2Offer' = h2Offer
        /\ h2Pc = "serve" /\ h2Alive' = h2Alive - Len(h2Headers)
    BY <1>15 DEF ServeStream
  <2>2. Len(h2Headers') = 0 /\ h2Headers' \in Seq(H2Names)
    BY <2>1
  <2>3. h2Alive' = Len(h2Headers') + Len(h2Dyn')
    BY <1>t, <2>1, <2>2
  <2>4. NoOldHeaders' /\ AlpnIsOwn'
    BY <1>t, <2>1 DEF NoOldHeaders, AlpnIsOwn
  <2> QED BY <1>q, <1>t, <2>1, <2>2, <2>3, <2>4 DEF H2Steps
<1>16. CASE UNCHANGED h2Vars
  BY <1>16, <1>k, <1>t DEF h2Vars, NoOldHeaders, AlpnIsOwn
<1> QED BY <1>1, <1>2, <1>3, <1>4, <1>5, <1>6, <1>7, <1>8, <1>9, <1>10, <1>11, <1>12, <1>13, <1>14,
           <1>15, <1>16 DEF H2Next

\* A connection is served as HTTP/2 only if its own client offered that, whatever the worker
\* served before, and the strings of its headers and of its table are owned and freed once,
\* through every error of the decoder.
THEOREM Http2IsExact == H2Spec => []Http2Exact
<1>1. H2Init => H2Inv
  <2> SUFFICES ASSUME H2Init PROVE H2Inv
    OBVIOUS
  <2>1. /\ h2Pc = "idle" /\ h2Dyn = <<>> /\ h2Headers = <<>> /\ h2Alive = 0
    BY DEF H2Init
  <2>2. Len(h2Dyn) = 0 /\ Len(h2Headers) = 0
    BY <2>1
  <2> QED BY <2>1, <2>2 DEF H2Inv, H2TypeOK, H2Steps, NoOldHeaders, Http2Exact, AlpnIsOwn, H2StringsOwned
<1>2. H2Inv => Http2Exact
  BY DEF H2Inv
<1> QED BY <1>1, <1>2, H2StepInv, PTL DEF H2Spec

-----------------------------------------------------------------------------
(* ServerSetup *)

\* The steps of mg_start2 before init_context is called, and after.
BeforeContext == {"sync", "callbacks", "options", "limits", "queue", "lua", "password", "ssl",
                  "ports", "uid", "acl", "arrays", "timers", "init_context"}
WithContext == {"workers", "running", "stopping", "joining"}
NoContext == {"none", "failed", "stopped"}

CallCounts == [init : Nat, exit : Nat]

\* exit_context is armed exactly while there is a context that has heard init_context.
CallbackArmed(pc, armed, calls) ==
    /\ pc \in BeforeContext => armed = FALSE /\ calls.init = 0 /\ calls.exit = 0
    /\ pc \in WithContext => armed = TRUE /\ calls.init = 1 /\ calls.exit = 0
    /\ pc \in NoContext => calls.init = calls.exit

\* The master thread has closed what free_context does not know of.
MasterCleaned ==
    setupPc = "joining" => setupHeld \cap {"sockets", "timer", "lua"} = {}

\* mg_stop has joined the timer thread before it waits for the master.
TimerJoined == setupPc \in {"stopping", "joining"} => "timer" \notin setupHeld

SetupInv ==
    /\ setupPc \in BeforeContext \cup WithContext \cup NoContext
    /\ contextCalls \in CallCounts
    /\ CallbackArmed(setupPc, exitCallback, contextCalls)
    /\ MasterCleaned /\ TimerJoined
    /\ StopReleases

\* The invariant has what the property says.
LEMMA SetupInvBalanced == SetupInv => StartStopBalanced
<1> SUFFICES ASSUME SetupInv PROVE StartStopBalanced
  OBVIOUS
<1>1. contextCalls.exit <= contextCalls.init
  BY DEF SetupInv, CallbackArmed, CallCounts
<1>2. setupPc \in {"failed", "stopped"} => contextCalls.exit = contextCalls.init
  BY DEF SetupInv, CallbackArmed, NoContext
<1> QED BY <1>1, <1>2 DEF SetupInv, StartStopBalanced, ExitPaired

\* A step that goes on with the same context, or stays without one.
LEMMA SetupGoesOn ==
    ASSUME SetupInv, UNCHANGED <<exitCallback, contextCalls>>,
           \/ setupPc' = setupPc
           \/ setupPc \in BeforeContext /\ setupPc' \in BeforeContext
           \/ setupPc \in WithContext /\ setupPc' \in WithContext
           \/ setupPc \in NoContext /\ setupPc' = "none",
           setupPc' \in {"stopping", "joining", "stopped"} =>
               setupPc' = setupPc /\ setupHeld' = setupHeld
    PROVE  SetupInv'
<1>1. MasterCleaned' /\ TimerJoined' /\ StopReleases'
  BY DEF SetupInv, MasterCleaned, TimerJoined, StopReleases
<1>2. setupPc' \in BeforeContext \cup WithContext \cup NoContext
  BY DEF SetupInv, NoContext
<1>3. CallbackArmed(setupPc', exitCallback', contextCalls')
  BY DEF SetupInv, CallbackArmed, BeforeContext, WithContext, NoContext
<1> QED BY <1>1, <1>2, <1>3 DEF SetupInv

\* Where free_context ends a context, armed or not, the calls are paired.
LEMMA ContextEnds ==
    ASSUME SetupInv, setupPc \in BeforeContext \cup WithContext, setupPc' \in {"failed", "stopped"},
           contextCalls' = [contextCalls EXCEPT !.exit = @ + IF exitCallback THEN 1 ELSE 0],
           UNCHANGED exitCallback,
           setupPc' = "stopped" => setupHeld' \subseteq {"domains"}
    PROVE  SetupInv'
<1>1. contextCalls \in CallCounts
  BY DEF SetupInv
<1>2. contextCalls' \in CallCounts /\ contextCalls'.init = contextCalls.init
      /\ contextCalls'.exit = contextCalls.exit + IF exitCallback THEN 1 ELSE 0
  BY <1>1 DEF CallCounts
<1>3. CASE setupPc \in BeforeContext
  <2>1. exitCallback = FALSE /\ contextCalls.init = 0 /\ contextCalls.exit = 0
    BY <1>3 DEF SetupInv, CallbackArmed
  <2>2. contextCalls'.init = contextCalls'.exit
    BY <1>2, <2>1
  <2> QED BY <1>2, <2>2 DEF SetupInv, CallbackArmed, BeforeContext, WithContext, NoContext,
                            MasterCleaned, TimerJoined, StopReleases
<1>4. CASE setupPc \in WithContext
  <2>1. exitCallback = TRUE /\ contextCalls.init = 1 /\ contextCalls.exit = 0
    BY <1>4 DEF SetupInv, CallbackArmed
  <2>2. contextCalls'.init = contextCalls'.exit
    BY <1>2, <2>1
  <2> QED BY <1>2, <2>2 DEF SetupInv, CallbackArmed, BeforeContext, WithContext, NoContext,
                            MasterCleaned, TimerJoined, StopReleases
<1> QED BY <1>3, <1>4

\* One stage of mg_start2 goes on or fails.
LEMMA StageInv ==
    ASSUME SetupInv, NEW from, NEW to, NEW acquired, Stage(from, to, acquired),
           \/ from \in BeforeContext /\ to \in BeforeContext
           \/ from \in WithContext /\ to = "running"
    PROVE  SetupInv'
<1>1. CASE StartFails
  <2>1. setupPc \in BeforeContext \cup WithContext /\ setupPc' = "failed" /\ UNCHANGED exitCallback
        /\ contextCalls' = [contextCalls EXCEPT !.exit = @ + IF exitCallback THEN 1 ELSE 0]
    BY <1>1 DEF Stage, StartFails, free_context
  <2> QED BY <2>1, ContextEnds
<1>2. CASE setupPc' = to /\ UNCHANGED <<exitCallback, contextCalls>>
  <2>1. setupPc = from /\ setupPc' \notin {"stopping", "joining", "stopped"}
    BY <1>2 DEF Stage, BeforeContext
  <2>2. \/ setupPc \in BeforeContext /\ setupPc' \in BeforeContext
        \/ setupPc \in WithContext /\ setupPc' \in WithContext
    BY <1>2, <2>1 DEF WithContext
  <2> QED BY <1>2, <2>1, <2>2, SetupGoesOn
<1> QED BY <1>1, <1>2 DEF Stage

\* Every step of starting and stopping preserves the invariant.
LEMMA SetupStepInv == SetupInv /\ [SetupNext]_setupVars => SetupInv'
<1> SUFFICES ASSUME SetupInv, [SetupNext]_setupVars PROVE SetupInv'
  OBVIOUS
<1>k. ASSUME UNCHANGED <<setupPc, exitCallback, contextCalls>>,
             setupPc \notin {"stopping", "joining", "stopped"}
      PROVE  SetupInv'
  BY <1>k, SetupGoesOn
<1>1. CASE ProcessEnds
  BY <1>1, <1>k DEF ProcessEnds
<1>2. CASE LibraryInit
  BY <1>2, <1>k DEF LibraryInit
<1>3. CASE LibraryExit
  BY <1>3, <1>k DEF LibraryExit
<1>4. CASE StartBegin
  <2>1. /\ setupPc' \in {"sync", "failed"} /\ exitCallback' = FALSE
        /\ contextCalls' = [init |-> 0, exit |-> 0]
    BY <1>4 DEF StartBegin
  <2>2. contextCalls' \in CallCounts /\ contextCalls'.init = 0 /\ contextCalls'.exit = 0
    BY <2>1 DEF CallCounts
  <2> QED BY <2>1, <2>2 DEF SetupInv, CallbackArmed, BeforeContext, WithContext, NoContext,
                            MasterCleaned, TimerJoined, StopReleases
<1>5. CASE StartSync
  <2>1. /\ setupPc = "sync" /\ setupPc' \in {"callbacks", "failed"}
        /\ UNCHANGED <<exitCallback, contextCalls>>
    BY <1>5 DEF StartSync
  <2>2. CASE setupPc' = "callbacks"
    BY <2>1, <2>2, SetupGoesOn DEF BeforeContext
  <2>3. CASE setupPc' = "failed"
    BY <2>1, <2>3 DEF SetupInv, CallbackArmed, BeforeContext, WithContext, NoContext,
                      MasterCleaned, TimerJoined, StopReleases
  <2> QED BY <2>1, <2>2, <2>3
<1>6. CASE StartCallbacks
  BY <1>6 DEF StartCallbacks, SetupInv, CallbackArmed, BeforeContext, WithContext, NoContext,
              MasterCleaned, TimerJoined, StopReleases
<1>7. CASE StartOptions
  BY <1>7, StageInv DEF StartOptions, BeforeContext
<1>8. CASE StartLimits
  BY <1>8, StageInv DEF StartLimits, BeforeContext
<1>9. CASE StartQueue
  BY <1>9, StageInv DEF StartQueue, BeforeContext
<1>10. CASE StartLua
  BY <1>10, StageInv DEF StartLua, BeforeContext
<1>11. CASE StartPassword
  BY <1>11, StageInv DEF StartPassword, BeforeContext
<1>12. CASE StartSsl
  <2>1. /\ setupPc = "ssl" /\ UNCHANGED exitCallback
        /\ \/ setupPc' = "ports" /\ UNCHANGED contextCalls
           \/ /\ setupPc' = "failed"
              /\ contextCalls' = [contextCalls EXCEPT !.exit = @ + IF exitCallback THEN 1 ELSE 0]
    BY <1>12 DEF StartSsl, free_context
  <2> QED BY <2>1, SetupGoesOn, ContextEnds DEF BeforeContext
<1>13. CASE set_ports_option
  BY <1>13, <1>k DEF set_ports_option
<1>14. CASE PortsDone
  <2>1. /\ setupPc = "ports" /\ UNCHANGED exitCallback
        /\ \/ setupPc' = "uid" /\ UNCHANGED contextCalls
           \/ /\ setupPc' = "failed"
              /\ contextCalls' = [contextCalls EXCEPT !.exit = @ + IF exitCallback THEN 1 ELSE 0]
    BY <1>14 DEF PortsDone
  <2> QED BY <2>1, SetupGoesOn, ContextEnds DEF BeforeContext
<1>15. CASE StartUid
  BY <1>15, StageInv DEF StartUid, BeforeContext
<1>16. CASE StartAcl
  BY <1>16, StageInv DEF StartAcl, BeforeContext
<1>17. CASE StartArrays
  BY <1>17, StageInv DEF StartArrays, BeforeContext
<1>18. CASE StartTimers
  BY <1>18, StageInv DEF StartTimers, BeforeContext
<1>19. CASE StartInitContext
  <2>1. /\ setupPc = "init_context" /\ setupPc' = "workers" /\ exitCallback' = TRUE
        /\ contextCalls' = [contextCalls EXCEPT !.init = @ + 1]
    BY <1>19 DEF StartInitContext
  <2>2. contextCalls \in CallCounts /\ contextCalls.init = 0 /\ contextCalls.exit = 0
    BY <2>1 DEF SetupInv, CallbackArmed, BeforeContext
  <2>3. contextCalls' \in CallCounts /\ contextCalls'.init = 1 /\ contextCalls'.exit = 0
    BY <2>1, <2>2 DEF CallCounts
  <2> QED BY <2>1, <2>3 DEF SetupInv, CallbackArmed, BeforeContext, WithContext, NoContext,
                            MasterCleaned, TimerJoined, StopReleases
<1>20. CASE StartWorkers
  BY <1>20, StageInv DEF StartWorkers, WithContext
<1>21. CASE StartFailed
  BY <1>21, SetupGoesOn DEF StartFailed, NoContext
<1>22. CASE mg_start_domain2
  BY <1>22, <1>k DEF mg_start_domain2
<1>23. CASE MasterLeaves
  <2>1. /\ setupPc = "stopping" /\ setupPc' = "joining" /\ UNCHANGED <<exitCallback, contextCalls>>
        /\ setupHeld' = setupHeld \ {"sockets", "workers", "lua"}
    BY <1>23 DEF MasterLeaves
  <2>2. CallbackArmed(setupPc', exitCallback', contextCalls')
    BY <2>1 DEF SetupInv, CallbackArmed, BeforeContext, WithContext, NoContext
  <2> QED BY <2>1, <2>2 DEF SetupInv, WithContext, MasterCleaned, TimerJoined, StopReleases
<1>24. CASE mg_stop
  <2>1. /\ setupPc = "joining" /\ setupPc' = "stopped" /\ UNCHANGED exitCallback
        /\ contextCalls' = [contextCalls EXCEPT !.exit = @ + IF exitCallback THEN 1 ELSE 0]
        /\ setupHeld' = setupHeld \cap {"sockets", "timer", "lua", "domains"}
    BY <1>24 DEF mg_stop, free_context, KeptByFreeContext
  <2>2. setupHeld' \subseteq {"domains"}
    BY <2>1 DEF SetupInv, MasterCleaned
  <2> QED BY <2>1, <2>2, ContextEnds DEF WithContext
<1>25. CASE StopReturned
  BY <1>25, SetupGoesOn DEF StopReturned, NoContext
<1>26. CASE UNCHANGED setupVars
  BY <1>26, SetupGoesOn DEF setupVars
<1>27. CASE StopBegins
  <2>1. /\ setupPc = "running" /\ setupPc' = "stopping" /\ UNCHANGED <<exitCallback, contextCalls>>
        /\ setupHeld' = setupHeld \ {"timer"}
    BY <1>27 DEF StopBegins, timers_exit
  <2>2. CallbackArmed(setupPc', exitCallback', contextCalls')
    BY <2>1 DEF SetupInv, CallbackArmed, BeforeContext, WithContext, NoContext
  <2> QED BY <2>1, <2>2 DEF SetupInv, WithContext, MasterCleaned, TimerJoined, StopReleases
<1> QED BY <1>1, <1>2, <1>3, <1>4, <1>5, <1>6, <1>7, <1>8, <1>9, <1>10, <1>11, <1>12, <1>13, <1>14,
           <1>15, <1>16, <1>17, <1>18, <1>19, <1>20, <1>21, <1>22, <1>23, <1>24, <1>25, <1>26, <1>27
        DEF SetupNext

\* exit_context is called once for every context that has heard init_context and for no
\* other, whichever step of mg_start2 fails; a server for which mg_stop has returned has
\* released what it had.  (mg_stop does not return for a server without a port: StopReturns.)
THEOREM StartAndStopBalanced == SetupSpec => []StartStopBalanced
<1>1. SetupInit => SetupInv
  <2> SUFFICES ASSUME SetupInit PROVE SetupInv
    OBVIOUS
  <2>1. setupPc = "none" /\ contextCalls = [init |-> 0, exit |-> 0]
    BY DEF SetupInit
  <2> QED BY <2>1 DEF SetupInv, CallbackArmed, BeforeContext, WithContext, NoContext, CallCounts,
                      MasterCleaned, TimerJoined, StopReleases
<1> QED BY <1>1, SetupInvBalanced, SetupStepInv, PTL DEF SetupSpec

-----------------------------------------------------------------------------
(* DavFiles *)

DavOps   == {"none", "PUT", "STORE", "DELETE", "MKCOL", "MOVE", "COPY"}
DavSteps == {"idle", "stat", "open", "expect", "body", "close", "remove", "mkdir", "overwrite",
             "rename", "done"}

DavReqs == [op : DavOps, name : Names \cup {"none"}, dest : Names \cup {"none"},
            overwrite : BOOLEAN, at : DavSteps, wrote : Nat, status : Int,
            conflict : BOOLEAN, replaced : BOOLEAN]

FileStates == [kind : {"none", "dir", "file"}, cells : [1..BodyLen -> Int]]

\* What the place of a request says about its own fields.
RequestPlaces(r) ==
    /\ r.at \notin {"idle", "done"} => r.name \in Names
    /\ r.op \in {"PUT", "STORE"} => r.name \in Names
    /\ r.at \in {"open", "expect", "body", "close"} => r.op \in {"PUT", "STORE"}
    /\ r.at \in {"stat", "open", "expect"} => r.wrote = 0
    /\ r.at \in {"overwrite", "rename"} => r.op \in {"MOVE", "COPY"} /\ r.dest \in Names
    /\ r.at = "overwrite" => r.overwrite
    /\ r.replaced => r.at = "done"
    /\ r.replaced => r.overwrite \/ r.conflict

\* The request has opened its file, or has answered that it is stored.
HasOpened(r) ==
    /\ r.op \in {"PUT", "STORE"} /\ ~r.conflict
    /\ r.at \in {"expect", "body", "close"} \/ (r.at = "done" /\ r.status \in {100, 200})

\* Its file has what it has written so far and nothing else.
HoldsWritten(w, r, f) ==
    HasOpened(r) /\ f[r.name].kind = "file" =>
        f[r.name].cells = [k \in 1..BodyLen |-> IF k <= r.wrote THEN w ELSE 0]

\* Between stat and rename nothing comes into being at the destination.
DestinationFree(r, f) ==
    r.at = "rename" /\ ~r.overwrite /\ ~r.conflict => f[r.dest].kind = "none"

\* Requests that work on the same path know of each other.
RivalsKnown ==
    \A v, w \in DavWorkers :
        v # w /\ Busy(v) /\ Busy(w) /\ Touches(dav[v]) \cap Touches(dav[w]) # {} => dav[v].conflict

DavInv ==
    /\ fs \in [Names -> FileStates]
    /\ dav \in [DavWorkers -> DavReqs]
    /\ RivalsKnown
    /\ \A w \in DavWorkers : /\ RequestPlaces(dav[w])
                             /\ HoldsWritten(w, dav[w], fs)
                             /\ DestinationFree(dav[w], fs)

\* The invariant says what the properties do.
LEMMA DavInvSafe == DavInv => PutStored /\ NoSilentOverwrite
<1> SUFFICES ASSUME DavInv PROVE PutStored /\ NoSilentOverwrite
  OBVIOUS
<1>1. ASSUME NEW w \in DavWorkers, Stored(w)
      PROVE  fs[dav[w].name].cells = [k \in 1..BodyLen |-> IF k <= dav[w].wrote THEN w ELSE 0]
  BY <1>1 DEF DavInv, Stored, HoldsWritten, HasOpened
<1>2. NoSilentOverwrite
  BY DEF DavInv, NoSilentOverwrite, RequestPlaces
<1> QED BY <1>1, <1>2 DEF PutStored

-----------------------------------------------------------------------------
\* How a request's record changes.
WentTo(r, at)        == [r EXCEPT !.at = at]
WithStatus(r, at, s) == [r EXCEPT !.at = at, !.status = s]
WithWrote(r, k)      == [r EXCEPT !.wrote = k]
WithReplaced(r, b)   == [r EXCEPT !.replaced = b]
RefusedReq           == [Idle EXCEPT !.at = "done"]

\* q is the request r with these fields.
RequestFields(r, q, at, wrote, status, replaced, conflict) ==
    /\ q.op = r.op /\ q.name = r.name /\ q.dest = r.dest /\ q.overwrite = r.overwrite
    /\ q.at = at /\ q.wrote = wrote /\ q.status = status
    /\ q.replaced = replaced /\ q.conflict = conflict

\* A step of a request.
LEMMA WentToFields ==
    ASSUME NEW r \in DavReqs, NEW a \in DavSteps
    PROVE  /\ WentTo(r, a) \in DavReqs
           /\ RequestFields(r, WentTo(r, a), a, r.wrote, r.status, r.replaced, r.conflict)
<1>1. WentTo(r, a) \in DavReqs
  BY DEF WentTo, DavReqs
<1> QED BY <1>1 DEF WentTo, DavReqs, RequestFields

\* A step with an answer.
LEMMA WithStatusFields ==
    ASSUME NEW r \in DavReqs, NEW a \in DavSteps, NEW s \in Int
    PROVE  /\ WithStatus(r, a, s) \in DavReqs
           /\ RequestFields(r, WithStatus(r, a, s), a, r.wrote, s, r.replaced, r.conflict)
<1>1. WithStatus(r, a, s) \in DavReqs
  BY Zenon DEF WithStatus, DavReqs
<1>2. RequestFields(r, WithStatus(r, a, s), a, r.wrote, s, r.replaced, r.conflict)
  BY Zenon DEF WithStatus, DavReqs, RequestFields
<1> QED BY <1>1, <1>2

\* A buffer is written.
LEMMA WithWroteFields ==
    ASSUME NEW r \in DavReqs, NEW k \in Nat
    PROVE  /\ WithWrote(r, k) \in DavReqs
           /\ RequestFields(r, WithWrote(r, k), r.at, k, r.status, r.replaced, r.conflict)
<1>1. WithWrote(r, k) \in DavReqs
  BY DEF WithWrote, DavReqs
<1> QED BY <1>1 DEF WithWrote, DavReqs, RequestFields

\* History flags.
LEMMA FlagFields ==
    ASSUME NEW r \in DavReqs, NEW b \in BOOLEAN
    PROVE  /\ WithReplaced(r, b) \in DavReqs
           /\ RequestFields(r, WithReplaced(r, b), r.at, r.wrote, r.status, b, r.conflict)
           /\ InConflict(r, b) \in DavReqs
           /\ RequestFields(r, InConflict(r, b), r.at, r.wrote, r.status, r.replaced, b)
<1>1. WithReplaced(r, b) \in DavReqs
  BY DEF WithReplaced, DavReqs
<1>2. RequestFields(r, WithReplaced(r, b), r.at, r.wrote, r.status, b, r.conflict)
  BY DEF WithReplaced, DavReqs, RequestFields
<1>3. InConflict(r, b) \in DavReqs
  BY DEF InConflict, DavReqs
<1>4. RequestFields(r, InConflict(r, b), r.at, r.wrote, r.status, r.replaced, b)
  BY DEF InConflict, DavReqs, RequestFields
<1> QED BY <1>1, <1>2, <1>3, <1>4

\* No request, and one that was refused, have no path.
LEMMA NoRequest ==
    ASSUME NEW q \in {Idle, RefusedReq}
    PROVE  /\ q \in DavReqs /\ Touches(q) = {} /\ RequestPlaces(q)
           /\ q.at \in {"idle", "done"} /\ ~HasOpened(q) /\ q.conflict = FALSE
           /\ q.op = "none" /\ q.name = "none" /\ q.dest = "none" /\ q.replaced = FALSE
<1>1. Idle \in DavReqs
  BY DEF Idle, DavReqs, DavOps, DavSteps
<1>2. /\ q \in DavReqs /\ q.at \in {"idle", "done"} /\ q.op = "none" /\ q.name = "none"
      /\ q.dest = "none" /\ q.conflict = FALSE /\ q.replaced = FALSE
  <2>1. RefusedReq = WentTo(Idle, "done") /\ "done" \in DavSteps
    BY DEF RefusedReq, WentTo, DavSteps
  <2>2. /\ RefusedReq \in DavReqs
        /\ RequestFields(Idle, RefusedReq, "done", Idle.wrote, Idle.status, Idle.replaced, Idle.conflict)
    BY <1>1, <2>1, WentToFields
  <2>3. /\ Idle.op = "none" /\ Idle.name = "none" /\ Idle.dest = "none" /\ Idle.at = "idle"
        /\ Idle.conflict = FALSE /\ Idle.replaced = FALSE
    BY DEF Idle
  <2> QED BY <1>1, <2>2, <2>3 DEF RequestFields
<1> QED BY <1>2 DEF Touches, RequestPlaces, HasOpened

\* Respond in these terms.
LEMMA RespondFields ==
    ASSUME NEW r, NEW s \in Int
    PROVE  /\ s < 400 => Respond(r, s) = WithStatus(r, "done", s)
           /\ ~(s < 400) => Respond(r, s) = RefusedReq
BY Zenon DEF Respond, WithStatus, RefusedReq

-----------------------------------------------------------------------------
\* What another request has of the files that this one does not touch.
LEMMA OtherRequests ==
    ASSUME DavInv, NEW w \in DavWorkers, Busy(w), NEW f \in [Names -> FileStates],
           \A n \in Names : n \notin Touches(dav[w]) => f[n] = fs[n],
           NEW v \in DavWorkers, v # w
    PROVE  HoldsWritten(v, dav[v], f) /\ DestinationFree(dav[v], f)
<1>1. /\ RequestPlaces(dav[v]) /\ HoldsWritten(v, dav[v], fs) /\ DestinationFree(dav[v], fs)
      /\ dav[v] \in DavReqs
  BY DEF DavInv
<1>2. ASSUME ~dav[v].conflict, Busy(v), NEW n \in Names, n \in Touches(dav[v]) PROVE f[n] = fs[n]
  <2>1. n \notin Touches(dav[w])
    BY <1>2 DEF DavInv, RivalsKnown
  <2> QED BY <2>1
<1>3. ASSUME HasOpened(dav[v]) PROVE f[dav[v].name] = fs[dav[v].name]
  <2>1. ~dav[v].conflict /\ Busy(v) /\ dav[v].name \in Names
    BY <1>1, <1>3 DEF HasOpened, RequestPlaces, Busy
  <2>2. dav[v].name \in Touches(dav[v])
    BY <2>1, DavFilesAssumption DEF Touches
  <2> QED BY <1>2, <2>1, <2>2
<1>4. ASSUME dav[v].at = "rename", ~dav[v].conflict PROVE f[dav[v].dest] = fs[dav[v].dest]
  <2>1. Busy(v) /\ dav[v].dest \in Names
    BY <1>1, <1>4 DEF RequestPlaces, Busy
  <2>2. dav[v].dest \in Touches(dav[v])
    BY <2>1, DavFilesAssumption DEF Touches
  <2> QED BY <1>2, <1>4, <2>1, <2>2
<1> QED BY <1>1, <1>3, <1>4 DEF HoldsWritten, DestinationFree

\* A step of one request on its own paths.
LEMMA RequestStep ==
    ASSUME DavInv, NEW w \in DavWorkers, Busy(w), fs' \in [Names -> FileStates],
           \A n \in Names : n \notin Touches(dav[w]) => fs'[n] = fs[n],
           NEW q \in DavReqs, dav' = [dav EXCEPT ![w] = q],
           Touches(q) \subseteq Touches(dav[w]), q.conflict = dav[w].conflict \/ Touches(q) = {},
           RequestPlaces(q), HoldsWritten(w, q, fs'), DestinationFree(q, fs')
    PROVE  DavInv'
<1>1. /\ dav \in [DavWorkers -> DavReqs] /\ dav' \in [DavWorkers -> DavReqs] /\ dav'[w] = q
      /\ \A v \in DavWorkers : v # w => dav'[v] = dav[v]
  BY DEF DavInv
<1>2. ASSUME NEW v \in DavWorkers
      PROVE  RequestPlaces(dav'[v]) /\ HoldsWritten(v, dav'[v], fs') /\ DestinationFree(dav'[v], fs')
  <2>1. CASE v = w
    BY <1>1, <2>1
  <2>2. CASE v # w
    <3>1. RequestPlaces(dav[v]) /\ HoldsWritten(v, dav[v], fs') /\ DestinationFree(dav[v], fs')
      BY <2>2, OtherRequests DEF DavInv
    <3> QED BY <1>1, <2>2, <3>1
  <2> QED BY <2>1, <2>2
<1>3. RivalsKnown'
  <2> SUFFICES ASSUME NEW u \in DavWorkers, NEW v \in DavWorkers, u # v, Busy(u)', Busy(v)',
                      Touches(dav'[u]) \cap Touches(dav'[v]) # {}
               PROVE  dav'[u].conflict
    BY DEF RivalsKnown
  <2>1. CASE u # w /\ v # w
    BY <1>1, <2>1 DEF DavInv, RivalsKnown, Busy
  <2>2. CASE u = w
    <3>1. dav'[v] = dav[v] /\ Busy(v)
      BY <1>1, <2>2 DEF Busy
    <3>2. Touches(dav[w]) \cap Touches(dav[v]) # {} /\ Touches(q) # {}
      BY <1>1, <2>2, <3>1
    <3> QED BY <1>1, <2>2, <3>1, <3>2 DEF DavInv, RivalsKnown
  <2>3. CASE v = w
    <3>1. dav'[u] = dav[u] /\ Busy(u)
      BY <1>1, <2>3 DEF Busy
    <3>2. Touches(dav[u]) \cap Touches(dav[w]) # {}
      BY <1>1, <2>3, <3>1
    <3> QED BY <1>1, <2>3, <3>1, <3>2 DEF DavInv, RivalsKnown
  <2> QED BY <2>1, <2>2, <2>3
<1> QED BY <1>1, <1>2, <1>3 DEF DavInv

\* A step that ends with an error.
LEMMA RequestRefused ==
    ASSUME DavInv, NEW w \in DavWorkers, Busy(w), fs' \in [Names -> FileStates],
           \A n \in Names : n \notin Touches(dav[w]) => fs'[n] = fs[n],
           dav' = [dav EXCEPT ![w] = RefusedReq]
    PROVE  DavInv'
<1>1. /\ RefusedReq \in DavReqs /\ Touches(RefusedReq) = {} /\ RequestPlaces(RefusedReq)
      /\ RefusedReq.at \in {"idle", "done"} /\ ~HasOpened(RefusedReq)
  BY NoRequest
<1>2. HoldsWritten(w, RefusedReq, fs') /\ DestinationFree(RefusedReq, fs')
  BY <1>1 DEF HoldsWritten, DestinationFree
<1> HIDE DEF RefusedReq
<1> QED BY <1>1, <1>2, RequestStep

\* A step of a request that goes on, or is answered without an error.
LEMMA RequestGoesOn ==
    ASSUME DavInv, NEW w \in DavWorkers, Busy(w), fs' \in [Names -> FileStates],
           \A n \in Names : n \notin Touches(dav[w]) => fs'[n] = fs[n],
           NEW q \in DavReqs, dav' = [dav EXCEPT ![w] = q],
           NEW a, NEW k, NEW s, NEW b,
           RequestFields(dav[w], q, a, k, s, b, dav[w].conflict),
           RequestPlaces(q), HoldsWritten(w, q, fs'), DestinationFree(q, fs')
    PROVE  DavInv'
<1>1. Touches(q) = Touches(dav[w]) /\ q.conflict = dav[w].conflict
  BY DEF Touches, RequestFields
<1> QED BY <1>1, RequestStep

\* PUT and mg_store_body, step by step.
LEMMA PutSteps ==
    ASSUME DavInv, NEW w \in DavWorkers,
           \/ PutStat(w) \/ PutDirectory(w) \/ PutOpen(w) \/ PutExpect(w)
           \/ PutBody(w) \/ PutFails(w) \/ PutEnds(w) \/ PutClose(w)
    PROVE  DavInv'
<1> DEFINE r == dav[w]
<1>a. /\ fs \in [Names -> FileStates] /\ dav \in [DavWorkers -> DavReqs] /\ r \in DavReqs
      /\ RequestPlaces(r) /\ HoldsWritten(w, r, fs) /\ DestinationFree(r, fs)
  BY DEF DavInv
<1>b. Nothing \in FileStates /\ Dir \in FileStates /\ File \in FileStates
  BY DEF Nothing, Dir, File, FileStates
<1>c. r.name \in Names => r.name \in Touches(r)
  BY DavFilesAssumption DEF Touches
<1>d. /\ {"done", "open", "expect", "body", "close"} \subseteq DavSteps /\ 100 \in Int /\ 200 \in Int
      /\ 201 \in Int /\ 403 \in Int /\ 500 \in Int /\ 417 \in Int /\ 507 \in Int
  BY DEF DavSteps
<1>e. /\ Respond(r, 200) = WithStatus(r, "done", 200) /\ Respond(r, 201) = WithStatus(r, "done", 201)
      /\ Respond(r, 403) = RefusedReq /\ Respond(r, 500) = RefusedReq /\ Respond(r, 417) = RefusedReq
      /\ Respond(r, 507) = RefusedReq
  BY RespondFields
<1>f. /\ \A n \in Names : n \notin Touches(r) => fs[n] = fs[n]
      /\ r.at # "idle" => Busy(w)
  BY DEF Busy
\* The three ways in which the files change: not at all, by this name, in its cells.
<1>g. ASSUME r.name \in Names, NEW x \in FileStates, fs' = [fs EXCEPT ![r.name] = x]
      PROVE  /\ fs' \in [Names -> FileStates] /\ fs'[r.name] = x
             /\ \A n \in Names : n \notin Touches(r) => fs'[n] = fs[n]
  BY <1>a, <1>c, <1>g
<1>h. ASSUME UNCHANGED fs
      PROVE  /\ fs' \in [Names -> FileStates]
             /\ \A n \in Names : n \notin Touches(r) => fs'[n] = fs[n]
  BY <1>a, <1>h
<1> HIDE DEF r
<1>1. CASE PutStat(w)
  <2>1. Busy(w) /\ r.op \in {"PUT", "STORE"} /\ r.at = "stat" /\ UNCHANGED fs /\ r.name \in Names
    BY <1>1, <1>a, <1>f DEF PutStat, r, RequestPlaces
  <2>2. CASE fs[r.name].kind = "dir" /\ dav' = [dav EXCEPT ![w] = WithStatus(r, "done", 200)]
    <3> DEFINE q == WithStatus(r, "done", 200)
    <3>1. q \in DavReqs /\ RequestFields(r, q, "done", r.wrote, 200, r.replaced, r.conflict)
      BY <1>a, <1>d, WithStatusFields
    <3> HIDE DEF q
    <3>2. RequestPlaces(q) /\ HoldsWritten(w, q, fs') /\ DestinationFree(q, fs')
      BY <1>a, <2>1, <2>2, <3>1 DEF RequestFields, RequestPlaces, HoldsWritten, DestinationFree
    <3> QED BY <1>h, <2>1, <2>2, <3>1, <3>2, RequestGoesOn DEF r, q
  <2>3. CASE dav' = [dav EXCEPT ![w] = RefusedReq]
    BY <1>h, <2>1, <2>3, RequestRefused DEF r
  <2>4. CASE dav' = [dav EXCEPT ![w] = WentTo(r, "open")]
    <3> DEFINE q == WentTo(r, "open")
    <3>1. q \in DavReqs /\ RequestFields(r, q, "open", r.wrote, r.status, r.replaced, r.conflict)
      BY <1>a, <1>d, WentToFields
    <3> HIDE DEF q
    <3>2. RequestPlaces(q) /\ HoldsWritten(w, q, fs') /\ DestinationFree(q, fs')
      BY <1>a, <2>1, <3>1 DEF RequestFields, RequestPlaces, HoldsWritten, DestinationFree, HasOpened
    <3> QED BY <1>h, <2>1, <2>4, <3>1, <3>2, RequestGoesOn DEF r, q
  <2> QED BY <1>1, <1>e, <2>2, <2>3, <2>4 DEF PutStat, Goto, WentTo, r
<1>2. CASE PutDirectory(w)
  <2>1. Busy(w) /\ r.op \in {"PUT", "STORE"} /\ r.at = "stat" /\ r.name \in Names
    BY <1>2, <1>a, <1>f DEF PutDirectory, r, RequestPlaces
  <2>2. /\ fs' \in [Names -> FileStates] /\ fs'[r.name] = Dir
        /\ \A n \in Names : n \notin Touches(r) => fs'[n] = fs[n]
    BY <1>2, <1>b, <1>g, <2>1 DEF PutDirectory, r
  <2>3. dav' = [dav EXCEPT ![w] = WithStatus(r, "done", 201)]
    BY <1>2, <1>e DEF PutDirectory, r
  <2> DEFINE q == WithStatus(r, "done", 201)
  <2>8. q \in DavReqs /\ RequestFields(r, q, "done", r.wrote, 201, r.replaced, r.conflict)
    BY <1>a, <1>d, WithStatusFields
  <2> HIDE DEF q
  <2>9. RequestPlaces(q) /\ HoldsWritten(w, q, fs') /\ DestinationFree(q, fs')
    BY <1>a, <2>1, <2>8 DEF RequestFields, RequestPlaces, HoldsWritten, DestinationFree, HasOpened
  <2> QED BY <2>2, <2>1, <2>3, <2>8, <2>9, RequestGoesOn DEF r, q
<1>3. CASE PutOpen(w)
  <2>1. Busy(w) /\ r.op \in {"PUT", "STORE"} /\ r.at = "open" /\ r.name \in Names /\ r.wrote = 0
    BY <1>3, <1>a, <1>f DEF PutOpen, r, RequestPlaces
  <2>2. CASE fs' = [fs EXCEPT ![r.name] = File] /\ dav' = [dav EXCEPT ![w] = WentTo(r, "expect")]
    <3>f. /\ fs' \in [Names -> FileStates] /\ fs'[r.name] = File
          /\ \A n \in Names : n \notin Touches(r) => fs'[n] = fs[n]
      BY <1>b, <1>g, <2>1, <2>2
    <3>g. File.cells = [k \in 1..BodyLen |-> IF k <= r.wrote THEN w ELSE 0]
      <4>1. File.cells = [k \in 1..BodyLen |-> 0]
        BY DEF File, Nothing
      <4>2. \A k \in 1..BodyLen : ~(k <= r.wrote)
        BY <2>1
      <4> QED BY <4>1, <4>2
    <3> DEFINE q == WentTo(r, "expect")
    <3>1. q \in DavReqs /\ RequestFields(r, q, "expect", r.wrote, r.status, r.replaced, r.conflict)
      BY <1>a, <1>d, WentToFields
    <3> HIDE DEF q
    <3>2. RequestPlaces(q) /\ HoldsWritten(w, q, fs') /\ DestinationFree(q, fs')
      BY <1>a, <2>1, <3>1, <3>f, <3>g DEF RequestFields, RequestPlaces, HoldsWritten, DestinationFree, HasOpened
    <3> QED BY <3>f, <2>1, <2>2, <3>1, <3>2, RequestGoesOn DEF r, q
  <2>3. CASE UNCHANGED fs /\ dav' = [dav EXCEPT ![w] = RefusedReq]
    BY <1>h, <2>1, <2>3, RequestRefused DEF r
  <2> QED BY <1>3, <1>e, <2>2, <2>3 DEF PutOpen, Goto, WentTo, r
<1>4. CASE PutExpect(w)
  <2>1. Busy(w) /\ r.op \in {"PUT", "STORE"} /\ r.at = "expect" /\ r.name \in Names /\ UNCHANGED fs
    BY <1>4, <1>a, <1>f DEF PutExpect, r, RequestPlaces
  <2>2. ASSUME NEW s \in {100, 200}, dav' = [dav EXCEPT ![w] = WithStatus(r, "body", s)] PROVE DavInv'
    <3>s. s \in Int
      OBVIOUS
    <3> DEFINE q == WithStatus(r, "body", s)
    <3>t. dav' = [dav EXCEPT ![w] = q]
      BY <2>2
    <3>1. q \in DavReqs /\ RequestFields(r, q, "body", r.wrote, s, r.replaced, r.conflict)
      BY <1>a, <1>d, <3>s, WithStatusFields
    <3> HIDE DEF q
    <3>2. RequestPlaces(q) /\ HoldsWritten(w, q, fs') /\ DestinationFree(q, fs')
      BY <1>a, <2>1, <3>1 DEF RequestFields, RequestPlaces, HoldsWritten, DestinationFree, HasOpened
    <3>3. Touches(q) = Touches(r) /\ q.conflict = r.conflict
      BY <3>1 DEF RequestFields, Touches
    <3> QED BY <1>h, <2>1, <3>t, <3>1, <3>2, <3>3, RequestStep DEF r
  <2>3. CASE dav' = [dav EXCEPT ![w] = RefusedReq]
    BY <1>h, <2>1, <2>3, RequestRefused DEF r
  <2>4. \/ \E s \in {100, 200} : dav' = [dav EXCEPT ![w] = WithStatus(r, "body", s)]
        \/ \E s \in {417, 500} : dav' = [dav EXCEPT ![w] = Respond(r, s)]
    BY <1>4, Zenon DEF PutExpect, WithStatus, r
  <2> QED BY <1>e, <2>2, <2>3, <2>4
<1>5. CASE PutBody(w)
  <2>1. Busy(w) /\ r.op \in {"PUT", "STORE"} /\ r.at = "body" /\ r.name \in Names
    BY <1>5, <1>a, <1>f DEF PutBody, r, RequestPlaces
  <2>2. r.wrote + 1 \in Nat /\ r.wrote \in Nat /\ w \in Int
    BY <1>a, DavFilesAssumption DEF DavReqs
  <2>3. dav' = [dav EXCEPT ![w] = WithWrote(r, r.wrote + 1)]
    BY <1>5 DEF PutBody, WithWrote, r
  <2>f. /\ fs' \in [Names -> FileStates]
        /\ \A n \in Names : n \notin Touches(r) => fs'[n] = fs[n]
        /\ fs'[r.name].kind = fs[r.name].kind
        /\ fs[r.name].kind = "file" => fs'[r.name].cells = [fs[r.name].cells EXCEPT ![r.wrote + 1] = w]
    <3>1. CASE fs[r.name].kind = "file"
      <4> DEFINE x == [fs[r.name] EXCEPT !.cells = [fs[r.name].cells EXCEPT ![r.wrote + 1] = w]]
      <4>1. fs[r.name] \in FileStates
        BY <1>a, <2>1
      <4>2. /\ x \in FileStates /\ x.kind = fs[r.name].kind
            /\ x.cells = [fs[r.name].cells EXCEPT ![r.wrote + 1] = w]
        BY <2>2, <4>1 DEF FileStates
      <4>3. fs' = [fs EXCEPT ![r.name] = x]
        BY <1>5, <3>1 DEF PutBody, r
      <4> HIDE DEF x
      <4> QED BY <1>g, <2>1, <4>2, <4>3
    <3>2. CASE fs[r.name].kind # "file"
      <4>1. UNCHANGED fs
        BY <1>5, <3>2 DEF PutBody, r
      <4> QED BY <1>h, <3>2, <4>1
    <3> QED BY <3>1, <3>2
  <2>g. ASSUME fs'[r.name].kind = "file", HasOpened(r)
        PROVE  fs'[r.name].cells = [k \in 1..BodyLen |-> IF k <= r.wrote + 1 THEN w ELSE 0]
    <3>1. /\ fs[r.name].cells = [k \in 1..BodyLen |-> IF k <= r.wrote THEN w ELSE 0]
          /\ fs'[r.name].cells = [fs[r.name].cells EXCEPT ![r.wrote + 1] = w]
      BY <1>a, <2>f, <2>g DEF HoldsWritten
    <3>2. fs'[r.name].cells = [k \in 1..BodyLen |-> IF k = r.wrote + 1 THEN w
                                                    ELSE IF k <= r.wrote THEN w ELSE 0]
      BY <3>1, Zenon
    <3>3. \A k \in 1..BodyLen : k <= r.wrote + 1 <=> k = r.wrote + 1 \/ k <= r.wrote
      BY <2>2
    <3> HIDE DEF r
    <3> QED BY <3>2, <3>3
  <2> DEFINE q == WithWrote(r, r.wrote + 1)
  <2>8. q \in DavReqs /\ RequestFields(r, q, r.at, r.wrote + 1, r.status, r.replaced, r.conflict)
    BY <1>a, <1>d, <2>2, WithWroteFields
  <2> HIDE DEF q
  <2>9. RequestPlaces(q) /\ HoldsWritten(w, q, fs') /\ DestinationFree(q, fs')
    BY <1>a, <2>1, <2>8, <2>f, <2>g DEF RequestFields, RequestPlaces, HoldsWritten, DestinationFree, HasOpened
  <2> QED BY <2>f, <2>1, <2>3, <2>8, <2>9, RequestGoesOn DEF r, q
<1>6. CASE PutFails(w)
  <2>1. Busy(w) /\ r.name \in Names
    BY <1>6, <1>a, <1>f DEF PutFails, r, RequestPlaces
  <2>2. dav' = [dav EXCEPT ![w] = RefusedReq] /\ (fs' = fs \/ fs' = [fs EXCEPT ![r.name] = Nothing])
    BY <1>6, <1>e DEF PutFails, r
  <2>3. /\ fs' \in [Names -> FileStates]
        /\ \A n \in Names : n \notin Touches(r) => fs'[n] = fs[n]
    BY <1>b, <1>g, <1>h, <2>1, <2>2
  <2> QED BY <2>1, <2>2, <2>3, RequestRefused DEF r
<1>7. CASE PutEnds(w)
  <2>1. Busy(w) /\ r.op \in {"PUT", "STORE"} /\ r.at = "body" /\ r.name \in Names /\ UNCHANGED fs
    BY <1>7, <1>a, <1>f DEF PutEnds, r, RequestPlaces
  <2>3. dav' = [dav EXCEPT ![w] = WentTo(r, "close")]
    BY <1>7 DEF PutEnds, Goto, WentTo, r
  <2> DEFINE q == WentTo(r, "close")
  <2>8. q \in DavReqs /\ RequestFields(r, q, "close", r.wrote, r.status, r.replaced, r.conflict)
    BY <1>a, <1>d, WentToFields
  <2> HIDE DEF q
  <2>9. RequestPlaces(q) /\ HoldsWritten(w, q, fs') /\ DestinationFree(q, fs')
    BY <1>a, <2>1, <2>8 DEF RequestFields, RequestPlaces, HoldsWritten, DestinationFree, HasOpened
  <2> QED BY <1>h, <2>1, <2>3, <2>8, <2>9, RequestGoesOn DEF r, q
<1>8. CASE PutClose(w)
  <2>1. Busy(w) /\ r.op \in {"PUT", "STORE"} /\ r.at = "close" /\ r.name \in Names /\ r.status \in Int
    BY <1>8, <1>a, <1>f DEF PutClose, r, RequestPlaces, DavReqs
  <2>2. CASE UNCHANGED fs /\ dav' = [dav EXCEPT ![w] = WithStatus(r, "done", r.status)]
    <3> DEFINE q == WithStatus(r, "done", r.status)
    <3>1. q \in DavReqs /\ RequestFields(r, q, "done", r.wrote, r.status, r.replaced, r.conflict)
      BY <1>a, <1>d, <2>1, WithStatusFields
    <3> HIDE DEF q
    <3>2. RequestPlaces(q) /\ HoldsWritten(w, q, fs') /\ DestinationFree(q, fs')
      BY <1>a, <2>1, <3>1, <2>2 DEF RequestFields, RequestPlaces, HoldsWritten, DestinationFree, HasOpened
    <3> QED BY <1>h, <2>1, <2>2, <3>1, <3>2, RequestGoesOn DEF r, q
  <2>3. CASE /\ dav' = [dav EXCEPT ![w] = RefusedReq]
             /\ fs' = fs \/ fs' = [fs EXCEPT ![r.name] = Nothing]
    <3>1. /\ fs' \in [Names -> FileStates]
          /\ \A n \in Names : n \notin Touches(r) => fs'[n] = fs[n]
      BY <1>b, <1>g, <1>h, <2>1, <2>3
    <3> QED BY <2>1, <2>3, <3>1, RequestRefused DEF r
  <2>4. \/ UNCHANGED fs /\ dav' = [dav EXCEPT ![w] = Respond(r, r.status)]
        \/ /\ dav' = [dav EXCEPT ![w] = RefusedReq]
           /\ fs' = fs \/ fs' = [fs EXCEPT ![r.name] = Nothing]
    BY <1>8, <1>e DEF PutClose, r
  <2>5. Respond(r, r.status) \in {WithStatus(r, "done", r.status), RefusedReq}
    BY <2>1, RespondFields
  <2> QED BY <2>2, <2>3, <2>4, <2>5
<1> QED BY <1>1, <1>2, <1>3, <1>4, <1>5, <1>6, <1>7, <1>8

\* DELETE and MKCOL.
LEMMA DirectorySteps ==
    ASSUME DavInv, NEW w \in DavWorkers,
           DeleteStat(w) \/ DeleteRemove(w) \/ MkcolStat(w) \/ MkcolMkdir(w)
    PROVE  DavInv'
<1> DEFINE r == dav[w]
<1>a. /\ fs \in [Names -> FileStates] /\ dav \in [DavWorkers -> DavReqs] /\ r \in DavReqs
      /\ RequestPlaces(r) /\ HoldsWritten(w, r, fs) /\ DestinationFree(r, fs)
  BY DEF DavInv
<1>b. Nothing \in FileStates /\ Dir \in FileStates
  BY DEF Nothing, Dir, FileStates
<1>c. /\ r.name \in Names => r.name \in Touches(r)
      /\ r.dest \in Names => r.dest \in Touches(r)
  BY DavFilesAssumption DEF Touches
<1>d. {"done", "remove", "mkdir", "overwrite", "rename"} \subseteq DavSteps /\ 201 \in Int /\ 204 \in Int
  BY DEF DavSteps
<1>e. /\ Respond(r, 201) = WithStatus(r, "done", 201) /\ Respond(r, 204) = WithStatus(r, "done", 204)
      /\ \A s \in {403, 404, 405, 409, 412, 415, 423, 502} : Respond(r, s) = RefusedReq
  BY RespondFields
<1>f. r.at # "idle" => Busy(w)
  BY DEF Busy
<1>g. ASSUME NEW n \in Names, n \in Touches(r), NEW x \in FileStates, fs' = [fs EXCEPT ![n] = x]
      PROVE  /\ fs' \in [Names -> FileStates] /\ fs'[n] = x
             /\ \A m \in Names : m \notin Touches(r) => fs'[m] = fs[m]
  BY <1>a, <1>g
<1>h. ASSUME UNCHANGED fs
      PROVE  /\ fs' \in [Names -> FileStates]
             /\ \A m \in Names : m \notin Touches(r) => fs'[m] = fs[m]
  BY <1>a, <1>h
<1> HIDE DEF r
<1>1. ASSUME r.at = "stat", r.op \in {"DELETE", "MKCOL"}, UNCHANGED fs, NEW a \in {"remove", "mkdir"},
             dav' = [dav EXCEPT ![w] = WentTo(r, a)]
      PROVE  DavInv'
  <2>1. Busy(w) /\ r.name \in Names /\ a \in DavSteps
    BY <1>1, <1>a, <1>d, <1>f DEF RequestPlaces
  <2>2. WentTo(r, a) \in DavReqs /\ RequestFields(r, WentTo(r, a), a, r.wrote, r.status, r.replaced, r.conflict)
    BY <1>a, <2>1, WentToFields
  <2> DEFINE q == WentTo(r, a)
  <2>3. q \in DavReqs /\ RequestFields(r, q, a, r.wrote, r.status, r.replaced, r.conflict) /\ dav' = [dav EXCEPT ![w] = q]
    BY <1>1, <2>2
  <2> HIDE DEF q
  <2>4. RequestPlaces(q) /\ HoldsWritten(w, q, fs') /\ DestinationFree(q, fs')
    BY <1>1, <1>a, <2>1, <2>3 DEF RequestFields, RequestPlaces, HoldsWritten, DestinationFree, HasOpened
  <2>5. Touches(q) = Touches(r) /\ q.conflict = r.conflict
    BY <2>3 DEF RequestFields, Touches
  <2> QED BY <1>1, <1>h, <2>1, <2>3, <2>4, <2>5, RequestStep DEF r
<1>2. ASSUME r.at \in {"stat", "remove", "mkdir"}, UNCHANGED fs, dav' = [dav EXCEPT ![w] = RefusedReq]
      PROVE  DavInv'
  BY <1>2, <1>f, <1>h, RequestRefused DEF r
<1>3. ASSUME r.at \in {"remove", "mkdir"}, r.op \in {"DELETE", "MKCOL"}, NEW x \in {Nothing, Dir},
             fs' = [fs EXCEPT ![r.name] = x], NEW s \in {201, 204},
             dav' = [dav EXCEPT ![w] = WithStatus(r, "done", s)]
      PROVE  DavInv'
  <2>1. Busy(w) /\ r.name \in Names /\ s \in Int
    BY <1>3, <1>a, <1>f DEF RequestPlaces
  <2>2. /\ fs' \in [Names -> FileStates]
        /\ \A m \in Names : m \notin Touches(r) => fs'[m] = fs[m]
    <3>1. x \in FileStates /\ r.name \in Touches(r) /\ fs' = [fs EXCEPT ![r.name] = x]
      BY <1>3, <1>b, <1>c, <2>1
    <3> QED BY <1>a, <2>1, <3>1
  <2> DEFINE q == WithStatus(r, "done", s)
  <2>3. q \in DavReqs /\ RequestFields(r, q, "done", r.wrote, s, r.replaced, r.conflict) /\ dav' = [dav EXCEPT ![w] = q]
    BY <1>3, <1>a, <1>d, <2>1, WithStatusFields
  <2> HIDE DEF q
  <2>4. RequestPlaces(q) /\ HoldsWritten(w, q, fs') /\ DestinationFree(q, fs')
    BY <1>3, <1>a, <2>1, <2>3 DEF RequestFields, RequestPlaces, HoldsWritten, DestinationFree, HasOpened
  <2>5. Touches(q) = Touches(r) /\ q.conflict = r.conflict
    BY <2>3 DEF RequestFields, Touches
  <2> QED BY <2>1, <2>2, <2>3, <2>4, <2>5, RequestStep DEF r
<1>4. CASE DeleteStat(w)
  BY <1>1, <1>2, <1>4, <1>e DEF DeleteStat, Goto, WentTo, r
<1>5. CASE DeleteRemove(w)
  BY <1>2, <1>3, <1>5, <1>e DEF DeleteRemove, r
<1>6. CASE MkcolStat(w)
  BY <1>1, <1>2, <1>6, <1>e DEF MkcolStat, Goto, WentTo, r
<1>7. CASE MkcolMkdir(w)
  BY <1>2, <1>3, <1>7, <1>e DEF MkcolMkdir, r
<1> QED BY <1>4, <1>5, <1>6, <1>7

\* MOVE and COPY.
LEMMA MoveSteps ==
    ASSUME DavInv, NEW w \in DavWorkers,
           MoveStat(w) \/ MoveOverwrite(w) \/ MoveRename(w) \/ CopyForbidden(w)
    PROVE  DavInv'
<1> DEFINE r == dav[w]
<1>a. /\ fs \in [Names -> FileStates] /\ dav \in [DavWorkers -> DavReqs] /\ r \in DavReqs
      /\ RequestPlaces(r) /\ HoldsWritten(w, r, fs) /\ DestinationFree(r, fs)
  BY DEF DavInv
<1>b. Nothing \in FileStates /\ Dir \in FileStates
  BY DEF Nothing, Dir, FileStates
<1>c. /\ r.name \in Names => r.name \in Touches(r)
      /\ r.dest \in Names => r.dest \in Touches(r)
  BY DavFilesAssumption DEF Touches
<1>d. {"done", "remove", "mkdir", "overwrite", "rename"} \subseteq DavSteps /\ 201 \in Int /\ 204 \in Int
  BY DEF DavSteps
<1>e. /\ Respond(r, 201) = WithStatus(r, "done", 201) /\ Respond(r, 204) = WithStatus(r, "done", 204)
      /\ \A s \in {403, 404, 405, 409, 412, 415, 423, 502} : Respond(r, s) = RefusedReq
  BY RespondFields
<1>f. r.at # "idle" => Busy(w)
  BY DEF Busy
<1>g. ASSUME NEW n \in Names, n \in Touches(r), NEW x \in FileStates, fs' = [fs EXCEPT ![n] = x]
      PROVE  /\ fs' \in [Names -> FileStates] /\ fs'[n] = x
             /\ \A m \in Names : m \notin Touches(r) => fs'[m] = fs[m]
  BY <1>a, <1>g
<1>h. ASSUME UNCHANGED fs
      PROVE  /\ fs' \in [Names -> FileStates]
             /\ \A m \in Names : m \notin Touches(r) => fs'[m] = fs[m]
  BY <1>a, <1>h
<1> HIDE DEF r
<1>1. ASSUME r.at # "idle", UNCHANGED fs, dav' = [dav EXCEPT ![w] = RefusedReq]
      PROVE  DavInv'
  BY <1>1, <1>f, <1>h, RequestRefused DEF r
<1>2. CASE MoveStat(w)
  <2>1. /\ Busy(w) /\ r.at = "stat" /\ r.op \in {"MOVE", "COPY"} /\ r.name \in Names /\ UNCHANGED fs
        /\ r.dest \in Names \cup {"none"}
    BY <1>2, <1>a, <1>f DEF MoveStat, RequestPlaces, DavReqs, r
  <2>2. CASE r.dest # "none" /\ fs[r.dest].kind = "none" /\ dav' = [dav EXCEPT ![w] = WentTo(r, "rename")]
    <3> DEFINE q == WentTo(r, "rename")
    <3>1. q \in DavReqs /\ RequestFields(r, q, "rename", r.wrote, r.status, r.replaced, r.conflict)
      BY <1>a, <1>d, WentToFields
    <3> HIDE DEF q
    <3>2. RequestPlaces(q) /\ HoldsWritten(w, q, fs') /\ DestinationFree(q, fs')
      BY <1>a, <2>1, <2>2, <3>1 DEF RequestFields, RequestPlaces, HoldsWritten, DestinationFree, HasOpened
    <3> QED BY <1>h, <2>1, <2>2, <3>1, <3>2, RequestGoesOn DEF r, q
  <2>3. CASE r.dest # "none" /\ r.overwrite /\ dav' = [dav EXCEPT ![w] = WentTo(r, "overwrite")]
    <3> DEFINE q == WentTo(r, "overwrite")
    <3>1. q \in DavReqs /\ RequestFields(r, q, "overwrite", r.wrote, r.status, r.replaced, r.conflict)
      BY <1>a, <1>d, WentToFields
    <3> HIDE DEF q
    <3>2. RequestPlaces(q) /\ HoldsWritten(w, q, fs') /\ DestinationFree(q, fs')
      BY <1>a, <2>1, <2>3, <3>1 DEF RequestFields, RequestPlaces, HoldsWritten, DestinationFree, HasOpened
    <3> QED BY <1>h, <2>1, <2>3, <3>1, <3>2, RequestGoesOn DEF r, q
  <2>4. CASE dav' = [dav EXCEPT ![w] = RefusedReq]
    BY <1>1, <2>1, <2>4
  <2> QED BY <1>2, <1>e, <2>2, <2>3, <2>4 DEF MoveStat, Goto, WentTo, r
<1>3. CASE MoveOverwrite(w)
  <2>1. /\ Busy(w) /\ r.at = "overwrite" /\ r.op \in {"MOVE", "COPY"} /\ r.name \in Names
        /\ r.dest \in Names /\ r.overwrite
    BY <1>3, <1>a, <1>f DEF MoveOverwrite, RequestPlaces, r
  <2>2. CASE fs' = [fs EXCEPT ![r.dest] = Nothing] /\ dav' = [dav EXCEPT ![w] = WentTo(r, "rename")]
    <3>f. /\ fs' \in [Names -> FileStates]
          /\ \A m \in Names : m \notin Touches(r) => fs'[m] = fs[m]
      BY <1>b, <1>c, <1>g, <2>1, <2>2
    <3> DEFINE q == WentTo(r, "rename")
    <3>1. q \in DavReqs /\ RequestFields(r, q, "rename", r.wrote, r.status, r.replaced, r.conflict)
      BY <1>a, <1>d, WentToFields
    <3> HIDE DEF q
    <3>2. RequestPlaces(q) /\ HoldsWritten(w, q, fs') /\ DestinationFree(q, fs')
      BY <1>a, <2>1, <2>2, <3>1 DEF RequestFields, RequestPlaces, HoldsWritten, DestinationFree, HasOpened
    <3> QED BY <3>f, <2>1, <2>2, <3>1, <3>2, RequestGoesOn DEF r, q
  <2>3. CASE UNCHANGED fs /\ dav' = [dav EXCEPT ![w] = RefusedReq]
    BY <1>1, <2>1, <2>3
  <2> QED BY <1>3, <1>e, <2>2, <2>3 DEF MoveOverwrite, Goto, WentTo, r
<1>4. CASE MoveRename(w)
  <2>1. /\ Busy(w) /\ r.at = "rename" /\ r.op \in {"MOVE", "COPY"} /\ r.name \in Names
        /\ r.dest \in Names
    BY <1>4, <1>a, <1>f DEF MoveRename, RequestPlaces, r
  <2>2. CASE UNCHANGED fs /\ dav' = [dav EXCEPT ![w] = RefusedReq]
    BY <1>1, <2>1, <2>2
  <2>3. CASE /\ fs' = [fs EXCEPT ![r.dest] = fs[r.name], ![r.name] = Nothing]
             /\ dav' = [dav EXCEPT ![w] = WithReplaced(Respond(r, 204), fs[r.dest].kind # "none")]
    <3>f. /\ fs' \in [Names -> FileStates]
          /\ \A m \in Names : m \notin Touches(r) => fs'[m] = fs[m]
      <4>1. fs[r.name] \in FileStates
        BY <1>a, <2>1
      <4>2. [fs EXCEPT ![r.dest] = fs[r.name]] \in [Names -> FileStates]
        BY <1>a, <4>1
      <4>3. fs' = [[fs EXCEPT ![r.dest] = fs[r.name]] EXCEPT ![r.name] = Nothing]
        BY <2>3
      <4> QED BY <1>a, <1>b, <1>c, <2>1, <4>2, <4>3
    <3> DEFINE b == fs[r.dest].kind # "none"
               c == WithStatus(r, "done", 204)
               q == WithReplaced(c, b)
    <3>1. c \in DavReqs /\ RequestFields(r, c, "done", r.wrote, 204, r.replaced, r.conflict)
      BY <1>a, <1>d, WithStatusFields
    <3>c. Respond(r, 204) = c
      BY <1>e
    <3> HIDE DEF c
    <3>d. b \in BOOLEAN
      BY Zenon
    <3>2. b \in BOOLEAN /\ dav' = [dav EXCEPT ![w] = q]
      BY <2>3, <3>c, <3>d
    <3>3. b => r.overwrite \/ r.conflict
      BY <1>a, <2>1 DEF DestinationFree
    <3> HIDE DEF b
    <3>4. q \in DavReqs /\ RequestFields(c, q, c.at, c.wrote, c.status, b, c.conflict)
      BY <3>1, <3>2, FlagFields
    <3> HIDE DEF q
    <3>5. RequestFields(r, q, "done", r.wrote, 204, b, r.conflict)
      BY <3>1, <3>4 DEF RequestFields
    <3>6. RequestPlaces(q) /\ HoldsWritten(w, q, fs') /\ DestinationFree(q, fs')
      BY <1>a, <2>1, <3>3, <3>5 DEF RequestFields, RequestPlaces, HoldsWritten, DestinationFree, HasOpened
    <3>7. Touches(q) = Touches(r) /\ q.conflict = r.conflict
      BY <3>5 DEF RequestFields, Touches
    <3> QED BY <3>f, <2>1, <3>2, <3>4, <3>6, <3>7, RequestStep DEF r
  <2> QED BY <1>4, <1>e, <2>2, <2>3 DEF MoveRename, WithReplaced, r
<1>5. CASE CopyForbidden(w)
  <2>1. r.at = "rename" /\ UNCHANGED fs /\ dav' = [dav EXCEPT ![w] = Respond(r, 403)]
    BY <1>5 DEF CopyForbidden, r
  <2>2. Respond(r, 403) = RefusedReq
    BY <1>e
  <2> QED BY <1>1, <2>1, <2>2
<1> QED BY <1>2, <1>3, <1>4, <1>5

\* A request begins; the ones that work on its paths are told.
LEMMA DavStartInv ==
    ASSUME DavInv, NEW w \in DavWorkers, DavStart(w)
    PROVE  DavInv'
<1>a. fs \in [Names -> FileStates] /\ dav \in [DavWorkers -> DavReqs] /\ UNCHANGED fs
  BY DEF DavInv, DavStart
<1>1. PICK op \in {"PUT", "STORE", "DELETE", "MKCOL", "MOVE", "COPY"}, name \in Names,
           dest \in Names \cup {"none"}, overwrite \in BOOLEAN :
        DavBegins(w, NewRequest(op, name, dest, overwrite))
  BY DEF DavStart
<1> DEFINE r == NewRequest(op, name, dest, overwrite)
           rivals == Rivals(r)
           c == rivals # {}
<1>2. dav' = [v \in DavWorkers |-> IF v = w THEN InConflict(r, c)
                                   ELSE IF v \in rivals THEN InConflict(dav[v], TRUE) ELSE dav[v]]
  BY <1>1 DEF DavBegins
<1>o. op \in DavOps
  BY DEF DavOps
<1>3. /\ r \in DavReqs /\ r.name = name /\ r.at = "stat" /\ r.wrote = 0 /\ r.replaced = FALSE
  <2>1. "stat" \in DavSteps /\ 0 \in Nat /\ 0 \in Int /\ FALSE \in BOOLEAN
    BY DEF DavSteps
  <2> QED BY <1>o, <2>1 DEF NewRequest, DavReqs
<1>4. c \in BOOLEAN /\ c = (rivals # {})
  BY Zenon
<1>6. \A v \in DavWorkers : Busy(v) /\ Touches(dav[v]) \cap Touches(r) # {} => v \in rivals
  BY DEF Rivals
<1> HIDE DEF r, rivals, c
<1>7. dav'[w] \in DavReqs /\ RequestFields(r, dav'[w], r.at, r.wrote, r.status, r.replaced, c)
  <2>1. dav'[w] = InConflict(r, c)
    BY <1>2
  <2> QED BY <1>3, <1>4, <2>1, FlagFields
<1>8. ASSUME NEW v \in DavWorkers, v # w
      PROVE  /\ dav'[v] \in DavReqs
             /\ dav'[v] = dav[v] \/ RequestFields(dav[v], dav'[v], dav[v].at, dav[v].wrote, dav[v].status,
                                                 dav[v].replaced, TRUE)
             /\ v \in rivals => dav'[v].conflict = TRUE
  <2>1. CASE v \in rivals
    <3>1. dav'[v] = InConflict(dav[v], TRUE) /\ dav[v] \in DavReqs /\ TRUE \in BOOLEAN
      BY <1>2, <1>8, <1>a, <2>1
    <3>2. /\ dav'[v] \in DavReqs
          /\ RequestFields(dav[v], dav'[v], dav[v].at, dav[v].wrote, dav[v].status, dav[v].replaced, TRUE)
      BY <3>1, FlagFields, Zenon
    <3> QED BY <3>2 DEF RequestFields
  <2>2. CASE v \notin rivals
    <3>1. dav'[v] = dav[v]
      BY <1>2, <1>8, <2>2
    <3> QED BY <1>a, <2>2, <3>1
  <2> QED BY <2>1, <2>2
<1>9. ASSUME NEW v \in DavWorkers
      PROVE  RequestPlaces(dav'[v]) /\ HoldsWritten(v, dav'[v], fs') /\ DestinationFree(dav'[v], fs')
  <2>1. CASE v = w
    BY <1>3, <1>7, <2>1 DEF RequestFields, RequestPlaces, HoldsWritten, HasOpened, DestinationFree
  <2>2. CASE v # w
    <3>1. RequestPlaces(dav[v]) /\ HoldsWritten(v, dav[v], fs') /\ DestinationFree(dav[v], fs')
      BY <1>a DEF DavInv
    <3> QED BY <1>8, <2>2, <3>1, ZenonT(60) DEF RequestFields, RequestPlaces, HoldsWritten, HasOpened, DestinationFree
  <2> QED BY <2>1, <2>2
<1>10. dav' \in [DavWorkers -> DavReqs]
  <2>1. dav' = [v \in DavWorkers |-> dav'[v]]
    BY <1>2
  <2> QED BY <1>7, <1>8, <2>1
<1>11. RivalsKnown'
  <2> SUFFICES ASSUME NEW u \in DavWorkers, NEW v \in DavWorkers, u # v, Busy(u)', Busy(v)',
                      Touches(dav'[u]) \cap Touches(dav'[v]) # {}
               PROVE  dav'[u].conflict
    BY DEF RivalsKnown
  <2>t. Touches(dav'[w]) = Touches(r)
    BY <1>7 DEF RequestFields, Touches
  <2>u. ASSUME NEW x \in DavWorkers, x # w
        PROVE  Touches(dav'[x]) = Touches(dav[x]) /\ (Busy(x)' => Busy(x))
    BY <1>8, <2>u DEF RequestFields, Touches, Busy
  <2>1. CASE u = w
    <3>1. v \in rivals
      BY <1>6, <2>1, <2>t, <2>u
    <3> QED BY <1>4, <1>7, <2>1, <3>1 DEF RequestFields
  <2>2. CASE v = w
    <3>1. u \in rivals
      BY <1>6, <2>2, <2>t, <2>u
    <3> QED BY <1>8, <2>2, <3>1
  <2>3. CASE u # w /\ v # w
    <3>1. dav[u].conflict
      BY <2>3, <2>u DEF DavInv, RivalsKnown
    <3> QED BY <1>8, <2>3, <3>1 DEF RequestFields
  <2> QED BY <2>1, <2>2, <2>3
<1> QED BY <1>a, <1>9, <1>10, <1>11 DEF DavInv

\* A request has ended; what it wrote counts as old from now on.
LEMMA DavDoneInv ==
    ASSUME DavInv, NEW w \in DavWorkers, DavDone(w)
    PROVE  DavInv'
<1>a. fs \in [Names -> FileStates] /\ dav \in [DavWorkers -> DavReqs]
  BY DEF DavInv
<1>1. ASSUME NEW n \in Names
      PROVE  /\ fs'[n] \in FileStates /\ fs'[n].kind = fs[n].kind
             /\ fs'[n].cells = [k \in 1..BodyLen |-> IF fs[n].cells[k] = w THEN Old ELSE fs[n].cells[k]]
  <2> DEFINE c == [k \in 1..BodyLen |-> IF fs[n].cells[k] = w THEN Old ELSE fs[n].cells[k]]
  <2>1. fs'[n] = [fs[n] EXCEPT !.cells = c]
    BY DEF DavDone
  <2>2. fs[n] \in FileStates
    BY <1>a
  <2>3. c \in [1..BodyLen -> Int]
    <3>1. \A k \in 1..BodyLen : fs[n].cells[k] \in Int
      BY <2>2 DEF FileStates
    <3>2. Old \in Int
      BY DEF Old
    <3> QED BY <3>1, <3>2
  <2> HIDE DEF c
  <2>4. fs'[n] \in FileStates /\ fs'[n].kind = fs[n].kind /\ fs'[n].cells = c
    BY <2>1, <2>2, <2>3 DEF FileStates
  <2> QED BY <2>4 DEF c
<1>2. fs' \in [Names -> FileStates]
  <2>1. fs' = [n \in Names |-> fs'[n]]
    BY DEF DavDone
  <2> QED BY <1>1, <2>1
<1>3. /\ dav' \in [DavWorkers -> DavReqs] /\ dav'[w] = Idle
      /\ \A v \in DavWorkers : v # w => dav'[v] = dav[v]
  <2>1. Idle \in DavReqs
    BY NoRequest
  <2> HIDE DEF Idle
  <2> QED BY <1>a, <2>1 DEF DavDone
<1>4. ASSUME NEW v \in DavWorkers
      PROVE  RequestPlaces(dav'[v]) /\ HoldsWritten(v, dav'[v], fs') /\ DestinationFree(dav'[v], fs')
  <2>1. CASE v = w
    <3>1. RequestPlaces(Idle) /\ ~HasOpened(Idle) /\ Idle.at \in {"idle", "done"}
      BY NoRequest
    <3> HIDE DEF Idle
    <3> QED BY <1>3, <2>1, <3>1 DEF HoldsWritten, DestinationFree
  <2>2. CASE v # w
    <3>1. /\ dav'[v] = dav[v] /\ RequestPlaces(dav[v]) /\ HoldsWritten(v, dav[v], fs)
          /\ DestinationFree(dav[v], fs)
      BY <1>3, <2>2 DEF DavInv
    <3>2. DestinationFree(dav[v], fs')
      BY <1>1, <3>1 DEF DestinationFree, RequestPlaces
    <3>3. ASSUME HasOpened(dav[v]), fs'[dav[v].name].kind = "file"
          PROVE  fs'[dav[v].name].cells = [k \in 1..BodyLen |-> IF k <= dav[v].wrote THEN v ELSE 0]
      <4> DEFINE n == dav[v].name
                 z(k) == IF k <= dav[v].wrote THEN v ELSE 0
      <4>1. n \in Names
        BY <3>1, <3>3 DEF HasOpened, RequestPlaces
      <4>2. fs[n].cells = [k \in 1..BodyLen |-> z(k)]
        BY <1>1, <3>1, <3>3, <4>1 DEF HoldsWritten
      <4>3. \A k \in 1..BodyLen : z(k) # w
        BY <2>2, DavFilesAssumption
      <4>4. fs'[n].cells = [k \in 1..BodyLen |-> IF fs[n].cells[k] = w THEN Old ELSE fs[n].cells[k]]
        BY <1>1, <4>1
      <4> HIDE DEF n, z
      <4>5. fs'[n].cells = [k \in 1..BodyLen |-> z(k)]
        BY <4>2, <4>3, <4>4
      <4> QED BY <4>5 DEF n, z
    <3> QED BY <3>1, <3>2, <3>3 DEF HoldsWritten
  <2> QED BY <2>1, <2>2
<1>5. RivalsKnown'
  <2>1. Touches(Idle) = {}
    BY NoRequest
  <2> HIDE DEF Idle
  <2> QED BY <1>3, <2>1 DEF DavInv, RivalsKnown, Busy
<1> QED BY <1>2, <1>3, <1>4, <1>5 DEF DavInv

\* No request, and no file but an old one.
LEMMA DavInitInv == DavInit => DavInv
<1> SUFFICES ASSUME DavInit PROVE DavInv
  OBVIOUS
<1>1. fs \in [Names -> FileStates]
  <2> DEFINE c == [k \in 1..BodyLen |-> Old]
  <2>1. File \in FileStates /\ Nothing \in FileStates /\ c \in [1..BodyLen -> Int]
    BY DEF File, Nothing, FileStates, Old
  <2> HIDE DEF c
  <2>2. [File EXCEPT !.cells = c] \in FileStates
    BY <2>1 DEF FileStates
  <2>3. fs = [n \in Names |-> IF n = "a" THEN [File EXCEPT !.cells = c] ELSE Nothing]
    BY DEF DavInit, c
  <2> QED BY <2>1, <2>2, <2>3
<1>2. dav = [w \in DavWorkers |-> Idle]
  BY DEF DavInit
<1>3. /\ Idle \in DavReqs /\ Touches(Idle) = {} /\ RequestPlaces(Idle) /\ ~HasOpened(Idle)
      /\ Idle.at \in {"idle", "done"}
  BY NoRequest
<1> HIDE DEF Idle
<1> QED BY <1>1, <1>2, <1>3 DEF DavInv, RivalsKnown, HoldsWritten, DestinationFree

\* Every step of every request.
LEMMA DavStepInv == DavInv /\ [DavNext]_davVars => DavInv'
<1> SUFFICES ASSUME DavInv, [DavNext]_davVars PROVE DavInv'
  OBVIOUS
<1>1. CASE UNCHANGED davVars
  BY <1>1 DEF davVars, DavInv, RivalsKnown, Busy
<1>2. CASE DavNext
  BY <1>2, PutSteps, DirectorySteps, MoveSteps, DavStartInv, DavDoneInv DEF DavNext
<1> QED BY <1>1, <1>2

-----------------------------------------------------------------------------
(* DavFiles: the locks *)

LockSlot == [path : LockPaths \cup {"none"}, user : LockUsers \cup {"none"}, age : Nat]

LocksInv == dav_lock \in [Slots -> LockSlot] /\ LockExclusive

\* A slot that keeps its owner, or becomes free.
SameOrFree(s, t) == t.path # "none" => t.path = s.path /\ t.user = s.user

\* A step that gives no lock.
LEMMA LocksKept ==
    ASSUME LocksInv, dav_lock' \in [Slots -> LockSlot],
           \A i \in Slots : SameOrFree(dav_lock[i], dav_lock'[i])
    PROVE  LocksInv'
<1> SUFFICES ASSUME NEW p \in LockPaths, NEW i \in activelocks(p)', NEW j \in activelocks(p)'
             PROVE  dav_lock'[i].user = dav_lock'[j].user
  BY DEF LocksInv, LockExclusive
<1>1. p # "none"
  BY DavLocksAssumption
<1>2. /\ i \in activelocks(p) /\ dav_lock'[i].user = dav_lock[i].user
      /\ j \in activelocks(p) /\ dav_lock'[j].user = dav_lock[j].user
  BY <1>1 DEF activelocks, SameOrFree
<1> QED BY <1>2 DEF LocksInv, LockExclusive

\* Fields of a slot that gets another age, or is made free.
LEMMA SlotChanged ==
    ASSUME NEW s \in LockSlot, NEW a \in Nat
    PROVE  /\ [s EXCEPT !.age = a] \in LockSlot /\ SameOrFree(s, [s EXCEPT !.age = a])
           /\ [s EXCEPT !.path = "none"] \in LockSlot /\ SameOrFree(s, [s EXCEPT !.path = "none"])
           /\ [s EXCEPT !.path = "none"].path = "none"
<1>1. [s EXCEPT !.age = a] \in LockSlot /\ SameOrFree(s, [s EXCEPT !.age = a])
  BY DEF LockSlot, SameOrFree
<1>2. [s EXCEPT !.path = "none"] \in LockSlot /\ [s EXCEPT !.path = "none"].path = "none"
  BY DEF LockSlot
<1> QED BY <1>1, <1>2 DEF SameOrFree

\* The table after the search: what is left of a link's locks is the user's own.
LEMMA SearchKeepsOwn ==
    ASSUME LocksInv, NEW p \in LockPaths, NEW u \in LockUsers
    PROVE  /\ SearchedTable(p, u) \in [Slots -> LockSlot]
           /\ \A i \in Slots : SameOrFree(dav_lock[i], SearchedTable(p, u)[i])
           /\ \A i \in Slots : SearchedTable(p, u)[i].path = p => SearchedTable(p, u)[i].user = u
<1>1. ASSUME NEW i \in Slots
      PROVE  /\ SearchedTable(p, u)[i] \in LockSlot
             /\ SameOrFree(dav_lock[i], SearchedTable(p, u)[i])
             /\ i \in Foreign(p, u) => SearchedTable(p, u)[i].path = "none"
  <2>1. dav_lock[i] \in LockSlot /\ 0 \in Nat
    BY DEF LocksInv
  <2>2. SearchedTable(p, u)[i] = IF i \in Foreign(p, u) THEN [dav_lock[i] EXCEPT !.path = "none"]
                                 ELSE IF i \in Searched(p, u) THEN [dav_lock[i] EXCEPT !.age = 0]
                                 ELSE dav_lock[i]
    BY DEF SearchedTable
  <2>3. SameOrFree(dav_lock[i], dav_lock[i])
    BY DEF SameOrFree
  <2> QED BY <2>1, <2>2, <2>3, SlotChanged, Zenon
<1>2. SearchedTable(p, u) \in [Slots -> LockSlot]
  <2> DEFINE t == SearchedTable(p, u)
  <2>1. t = [i \in Slots |-> t[i]]
    BY DEF SearchedTable
  <2> QED BY <1>1, <2>1
<1>3. ASSUME NEW i \in Slots, SearchedTable(p, u)[i].path = p
      PROVE  SearchedTable(p, u)[i].user = u
  <2>1. p # "none" /\ i \notin Foreign(p, u)
    BY <1>1, <1>3, DavLocksAssumption
  <2>2. dav_lock[i].path = p /\ SearchedTable(p, u)[i].user = dav_lock[i].user
    BY <1>1, <1>3, <2>1 DEF SameOrFree
  <2>3. i \in activelocks(p)
    BY <2>2 DEF activelocks
  <2>4. CASE i \in Searched(p, u)
    BY <2>1, <2>2, <2>4 DEF Foreign
  <2>5. CASE i \notin Searched(p, u)
    <3>1. \E j \in activelocks(p) : dav_lock[j].user = u
      BY <2>3, <2>5 DEF Searched
    <3> QED BY <2>2, <2>3, <3>1 DEF LocksInv, LockExclusive
  <2> QED BY <2>4, <2>5
<1> QED BY <1>1, <1>2, <1>3

\* One more slot is the user's.
LEMMA LockGiven ==
    ASSUME LocksInv, NEW p \in LockPaths, NEW u \in LockUsers, NEW f,
           dav_lock' = [SearchedTable(p, u) EXCEPT ![f] = [path |-> p, user |-> u, age |-> 0]]
    PROVE  LocksInv'
<1> DEFINE t == SearchedTable(p, u)
           new == [path |-> p, user |-> u, age |-> 0]
<1>1. new \in LockSlot /\ new.path = p /\ new.user = u
  BY DEF LockSlot
<1>2. /\ t \in [Slots -> LockSlot]
      /\ \A i \in Slots : SameOrFree(dav_lock[i], t[i])
      /\ \A i \in Slots : t[i].path = p => t[i].user = u
  BY SearchKeepsOwn
<1>3. dav_lock' = [t EXCEPT ![f] = new]
  OBVIOUS
<1> HIDE DEF t, new
<1>4. dav_lock' \in [Slots -> LockSlot] /\ \A i \in Slots : dav_lock'[i] \in {new, t[i]}
  BY <1>1, <1>2, <1>3
<1> SUFFICES ASSUME NEW q \in LockPaths, NEW i \in activelocks(q)', NEW j \in activelocks(q)'
             PROVE  dav_lock'[i].user = dav_lock'[j].user
  BY <1>4 DEF LocksInv, LockExclusive
<1>5. q # "none" /\ i \in Slots /\ j \in Slots /\ dav_lock'[i].path = q /\ dav_lock'[j].path = q
  BY DavLocksAssumption DEF activelocks
<1>6. CASE q = p
  BY <1>1, <1>2, <1>4, <1>5, <1>6
<1>7. CASE q # p
  <2>1. dav_lock'[i] = t[i] /\ dav_lock'[j] = t[j]
    BY <1>1, <1>4, <1>5, <1>7
  <2>2. /\ i \in activelocks(q) /\ t[i].user = dav_lock[i].user
        /\ j \in activelocks(q) /\ t[j].user = dav_lock[j].user
    BY <1>2, <1>5, <2>1 DEF activelocks, SameOrFree
  <2> QED BY <2>1, <2>2 DEF LocksInv, LockExclusive
<1> QED BY <1>6, <1>7

\* Whatever LOCK does: it refuses, takes a free slot, refreshes, or gives up the oldest one.
LEMMA LockStepInv == LocksInv /\ [LocksNext]_lockVars => LocksInv'
<1> SUFFICES ASSUME LocksInv, [LocksNext]_lockVars PROVE LocksInv'
  OBVIOUS
<1>t. dav_lock \in [Slots -> LockSlot] /\ \A i \in Slots : SameOrFree(dav_lock[i], dav_lock[i])
  BY DEF LocksInv, SameOrFree
<1>1. CASE UNCHANGED dav_lock
  BY <1>1, <1>t, LocksKept
<1>2. CASE LockTick
  <2>1. ASSUME NEW i \in Slots
        PROVE  dav_lock'[i] \in LockSlot /\ SameOrFree(dav_lock[i], dav_lock'[i])
    <3> DEFINE a == IF dav_lock[i].age < Expired THEN dav_lock[i].age + 1 ELSE dav_lock[i].age
    <3>1. a \in Nat
      BY <1>t DEF LockSlot
    <3>2. dav_lock'[i] = [dav_lock[i] EXCEPT !.age = a]
      BY <1>2 DEF LockTick
    <3> HIDE DEF a
    <3>3. dav_lock[i] \in LockSlot
      BY <1>t
    <3>4. [dav_lock[i] EXCEPT !.age = a] \in LockSlot /\ SameOrFree(dav_lock[i], [dav_lock[i] EXCEPT !.age = a])
      BY <3>1, <3>3, SlotChanged
    <3> QED BY <3>2, <3>4
  <2>2. dav_lock' = [i \in Slots |-> dav_lock'[i]]
    BY <1>2 DEF LockTick
  <2>3. dav_lock' \in [Slots -> LockSlot]
    BY <2>1, <2>2
  <2> QED BY <2>1, <2>3, LocksKept
<1>3. ASSUME NEW w \in LockWorkers, Lock(w) PROVE LocksInv'
  <2>1. PICK p \in LockPaths, u \in LockUsers : dav_lock_file(w, p, u)
    BY <1>3 DEF Lock
  <2> DEFINE table == SearchedTable(p, u)
             free  == {i \in Slots : table[i].path = "none"}
             own   == Searched(p, u) \ Foreign(p, u)
             refused == {i \in Foreign(p, u) : dav_lock[i].age < Expired}
             foreign == Foreign(p, u)
  <2>2. /\ table \in [Slots -> LockSlot]
        /\ \A i \in Slots : SameOrFree(dav_lock[i], table[i])
    BY SearchKeepsOwn
  <2>3. CASE refused # {}
    <3>1. dav_lock' = [i \in Slots |-> IF i \in foreign /\ i < LowestSlot(refused)
                                       THEN table[i] ELSE dav_lock[i]]
      BY <2>1, <2>3, Zenon DEF dav_lock_file
    <3> HIDE DEF table, foreign, refused
    <3>2. dav_lock' \in [Slots -> LockSlot] /\ \A i \in Slots : dav_lock'[i] \in {table[i], dav_lock[i]}
      BY <1>t, <2>2, <3>1
    <3>3. \A i \in Slots : SameOrFree(dav_lock[i], dav_lock'[i])
      BY <1>t, <2>2, <3>2
    <3> QED BY <3>2, <3>3, LocksKept
  <2>4. CASE refused = {} /\ free # {}
    <3>1. dav_lock' = [table EXCEPT ![LowestSlot(free)] = [path |-> p, user |-> u, age |-> 0]]
      BY <2>1, <2>4, Zenon DEF dav_lock_file, Granted
    <3> HIDE DEF free
    <3> QED BY <3>1, LockGiven
  <2>5. CASE dav_lock' = table
    BY <2>2, <2>5, LocksKept
  <2>6. CASE \E i \in Slots : dav_lock' = [table EXCEPT ![i].path = "none"]
    <3>1. PICK k \in Slots : dav_lock' = [table EXCEPT ![k].path = "none"]
      BY <2>6
    <3> DEFINE gone == [table[k] EXCEPT !.path = "none"]
    <3>2. gone \in LockSlot /\ gone.path = "none"
      BY <2>2, SlotChanged, 0 \in Nat
    <3>3. dav_lock' = [table EXCEPT ![k] = gone]
      BY <3>1
    <3> HIDE DEF table, gone
    <3>4. /\ dav_lock' \in [Slots -> LockSlot]
          /\ \A i \in Slots : dav_lock'[i] = gone \/ dav_lock'[i] = table[i]
      BY <2>2, <3>2, <3>3
    <3>5. \A i \in Slots : SameOrFree(dav_lock[i], dav_lock'[i])
      BY <2>2, <3>2, <3>4 DEF SameOrFree
    <3> QED BY <3>4, <3>5, LocksKept
  <2>7. CASE refused = {} /\ free = {}
    <3>1. dav_lock' = table \/ \E i \in Slots : dav_lock' = [table EXCEPT ![i].path = "none"]
      BY <2>1, <2>7, Zenon DEF dav_lock_file, Granted
    <3> QED BY <2>5, <2>6, <3>1
  <2> QED BY <2>3, <2>4, <2>7
<1>4. ASSUME NEW w \in LockWorkers, LockRespond(w) \/ Unlock(w) \/ DavProperties(w) \/ LockDone(w)
      PROVE  UNCHANGED dav_lock
  BY <1>4 DEF LockRespond, Unlock, DavProperties, LockDone
<1> QED BY <1>1, <1>2, <1>3, <1>4 DEF LocksNext, lockVars

\* All slots are free at the start.
LEMMA LocksInitInv == LocksInit => LocksInv
<1> SUFFICES ASSUME LocksInit PROVE LocksInv
  OBVIOUS
<1>1. dav_lock = [i \in Slots |-> FreeSlot] /\ FreeSlot \in LockSlot /\ FreeSlot.path = "none"
  <2>1. Expired \in Nat
    BY DavLocksAssumption DEF Expired
  <2> QED BY <2>1 DEF LocksInit, FreeSlot, LockSlot
<1>2. \A p \in LockPaths : activelocks(p) = {}
  BY <1>1, DavLocksAssumption DEF activelocks
<1> QED BY <1>1, <1>2 DEF LocksInv, LockExclusive

\* DavSafe, of the files and of the table of locks, however the requests of the workers
\* interleave (put_file, dav_move_file, dav_lock_file).
THEOREM WebdavIsSafe == DavSpec /\ LocksSpec => []DavSafe
<1>1. DavSpec => []DavInv
  BY DavInitInv, DavStepInv, PTL DEF DavSpec
<1>2. LocksSpec => []LocksInv
  BY LocksInitInv, LockStepInv, PTL DEF LocksSpec
<1>3. DavInv /\ LocksInv => DavSafe
  BY DavInvSafe DEF LocksInv, DavSafe
<1> QED BY <1>1, <1>2, <1>3, PTL

-----------------------------------------------------------------------------
(* StandAlone *)

IsSequence(s) == \E S : s \in Seq(S)

\* The options array holds pairs of a name and a value.
OptsShape ==
    /\ IsSequence(opts)
    /\ \A i \in DOMAIN opts : opts[i] = [name |-> opts[i].name, value |-> opts[i].value]

GivenShape ==
    /\ givenOptions = [n \in DOMAIN optionType |-> givenOptions[n]]
    /\ \A n \in DOMAIN optionType : IsSequence(givenOptions[n])

\* A context runs exactly if the pointer says so, and none does while the options for the
\* next one are read.
ServersMatch ==
    /\ servers = IF g_ctx = "live" THEN 1 ELSE 0
    /\ saPc \in {"off", "file", "argv", "start"} => g_ctx # "live"
    /\ hostKind = "off" => saPc = "off"

SaInv == OptsShape /\ GivenShape /\ OptionsExact /\ ServersMatch

\* What appending does to a sequence, whatever its elements are.
LEMMA AppendAny ==
    ASSUME NEW s, IsSequence(s), NEW x
    PROVE  /\ IsSequence(Append(s, x))
           /\ Len(s) \in Nat /\ DOMAIN s = 1..Len(s)
           /\ DOMAIN Append(s, x) = 1..(Len(s) + 1)
           /\ Len(Append(s, x)) = Len(s) + 1
           /\ \A i \in 1..Len(s) : Append(s, x)[i] = s[i]
           /\ Append(s, x)[Len(s) + 1] = x
           /\ Append(s, x) # <<>>
<1>1. PICK S : s \in Seq(S)
  BY DEF IsSequence
<1> DEFINE T == S \cup {x}
<1>2. s \in Seq(T) /\ x \in T
  <2>1. s \in [1..Len(s) -> S] /\ Len(s) \in Nat
    BY <1>1
  <2>2. s \in [1..Len(s) -> T]
    BY <2>1
  <2> QED BY <2>1, <2>2
<1>3. Append(s, x) \in Seq(T)
  BY <1>2
<1> HIDE DEF T
<1>4. IsSequence(Append(s, x))
  BY <1>3 DEF IsSequence
<1> QED BY <1>2, <1>3, <1>4

\* set_option keeps the array exact.
LEMMA SetOptionExact ==
    ASSUME OptsShape, GivenShape, OptionsExact, NEW e, e.name \in DOMAIN optionType,
           opts' = SetOption(e),
           givenOptions' = [givenOptions EXCEPT ![e.name] = Append(@, e.value)]
    PROVE  OptsShape' /\ GivenShape' /\ OptionsExact'
<1> DEFINE m == e.name
           v == e.value
           entry == [name |-> m, value |-> <<v>>]
<1>g. /\ IsSequence(givenOptions[m])
      /\ givenOptions'[m] = Append(givenOptions[m], v)
      /\ \A n \in DOMAIN optionType \ {m} : givenOptions'[n] = givenOptions[n]
      /\ givenOptions' = [n \in DOMAIN optionType |-> givenOptions'[n]]
  BY DEF GivenShape
<1>1. /\ givenOptions'[m] # <<>>
      /\ IsSequence(givenOptions'[m])
      /\ givenOptions'[m][Len(givenOptions'[m])] = v
  BY <1>g, AppendAny
<1>2. GivenShape'
  BY <1>g, <1>1 DEF GivenShape, IsSequence
<1>o. Len(opts) \in Nat /\ DOMAIN opts = 1..Len(opts)
  BY AppendAny DEF OptsShape
<1>3. CASE OptionIndex(m) = {}
  <2>1. opts' = Append(opts, entry)
    BY <1>3 DEF SetOption
  <2>2. /\ IsSequence(opts')
        /\ DOMAIN opts' = 1..(Len(opts) + 1)
        /\ \A i \in 1..Len(opts) : opts'[i] = opts[i]
        /\ opts'[Len(opts) + 1] = entry
    BY <2>1, AppendAny DEF OptsShape
  <2>3. OptsShape'
    <3>1. ASSUME NEW i \in DOMAIN opts'
          PROVE  opts'[i] = [name |-> opts'[i].name, value |-> opts'[i].value]
      <4>1. CASE i = Len(opts) + 1
        BY <4>1, <2>2
      <4>2. CASE i \in 1..Len(opts)
        BY <4>2, <2>2, <1>o DEF OptsShape
      <4> QED BY <4>1, <4>2, <2>2, <1>o
    <3> QED BY <3>1, <2>2 DEF OptsShape
  <2>4. ASSUME NEW n \in DOMAIN optionType, n # m
        PROVE  OptionIndex(n)' = OptionIndex(n)
    BY <2>2, <2>4, <1>o DEF OptionIndex
  <2>5. OptionIndex(m)' = {Len(opts) + 1}
    BY <2>2, <1>o, <1>3 DEF OptionIndex
  <2>6. givenOptions[m] = <<>>
    BY <1>3 DEF OptionsExact
  <2>7. givenOptions'[m] = <<v>>
    BY <2>6, <1>g
  <2>8. ASSUME NEW n \in DOMAIN optionType
        PROVE  /\ \A i, j \in OptionIndex(n)' : i = j
               /\ OptionIndex(n)' = {} <=> givenOptions'[n] = <<>>
               /\ \A i \in OptionIndex(n)' :
                    opts'[i].value = IF optionType[n] = "list" THEN givenOptions'[n]
                                     ELSE <<givenOptions'[n][Len(givenOptions'[n])]>>
    <3>1. CASE n = m
      <4>1. /\ OptionIndex(n)' = {Len(opts) + 1} /\ givenOptions'[n] = <<v>>
            /\ opts'[Len(opts) + 1].value = <<v>>
        BY <3>1, <2>5, <2>7, <2>2
      <4>2. <<v>> # <<>> /\ <<v>>[Len(<<v>>)] = v
        OBVIOUS
      <4> QED BY <4>1, <4>2, Zenon
    <3>2. CASE n # m
      <4>1. \A i \in OptionIndex(n) : opts'[i] = opts[i]
        BY <2>2, <1>o DEF OptionIndex
      <4> QED BY <3>2, <4>1, <2>4, <1>g DEF OptionsExact
    <3> QED BY <3>1, <3>2
  <2>9. OptionsExact'
    BY <2>8 DEF OptionsExact
  <2> QED BY <1>2, <2>3, <2>9
<1>4. CASE OptionIndex(m) # {}
  <2> DEFINE w(i) == IF optionType[m] = "list" THEN Append(opts[i].value, v) ELSE <<v>>
             new(i) == IF i \notin OptionIndex(m) THEN opts[i] ELSE [name |-> opts[i].name, value |-> w(i)]
  <2>1. opts' = [i \in DOMAIN opts |-> new(i)]
    <3>1. opts' = [i \in DOMAIN opts |->
            IF i \notin OptionIndex(m) THEN opts[i]
            ELSE [opts[i] EXCEPT !.value = IF optionType[m] = "list" THEN Append(@, v) ELSE <<v>>]]
      BY <1>4 DEF SetOption
    <3>2. ASSUME NEW i \in DOMAIN opts
          PROVE  [opts[i] EXCEPT !.value = IF optionType[m] = "list" THEN Append(@, v) ELSE <<v>>]
                 = [name |-> opts[i].name, value |-> w(i)]
      BY DEF OptsShape
    <3> QED BY <3>1, <3>2
  <2>2. DOMAIN opts' = DOMAIN opts /\ \A i \in DOMAIN opts : opts'[i] = new(i)
    BY <2>1
  <2>3. \A i \in DOMAIN opts : opts'[i].name = opts[i].name
    BY <2>2
  <2>4. \A n : OptionIndex(n)' = OptionIndex(n)
    BY <2>2, <2>3 DEF OptionIndex
  <2>5. OptsShape'
    <3>1. opts' \in Seq({new(i) : i \in DOMAIN opts})
      <4> HIDE DEF new
      <4>1. opts' \in [1..Len(opts) -> {new(i) : i \in DOMAIN opts}]
        BY <2>1, <1>o
      <4> QED BY <4>1, <1>o
    <3>2. IsSequence(opts')
      BY <3>1 DEF IsSequence
    <3>3. \A i \in DOMAIN opts' : opts'[i] = [name |-> opts'[i].name, value |-> opts'[i].value]
      BY <2>2 DEF OptsShape
    <3> QED BY <3>2, <3>3 DEF OptsShape
  <2>6. ASSUME NEW n \in DOMAIN optionType
        PROVE  /\ \A i, j \in OptionIndex(n)' : i = j
               /\ OptionIndex(n)' = {} <=> givenOptions'[n] = <<>>
               /\ \A i \in OptionIndex(n)' :
                    opts'[i].value = IF optionType[n] = "list" THEN givenOptions'[n]
                                     ELSE <<givenOptions'[n][Len(givenOptions'[n])]>>
    <3>0. OptionIndex(n)' = OptionIndex(n) /\ OptionIndex(n) \subseteq DOMAIN opts
      BY <2>4 DEF OptionIndex
    <3>1. CASE n = m
      <4>1. \A i \in OptionIndex(m) : opts'[i].value = w(i)
        <5>1. ASSUME NEW i \in OptionIndex(m) PROVE opts'[i].value = w(i)
          <6>1. i \in DOMAIN opts /\ opts'[i] = [name |-> opts[i].name, value |-> w(i)]
            BY <3>0, <3>1, <2>2
          <6> HIDE DEF w
          <6> QED BY <6>1
        <5> QED BY <5>1
      <4>2. optionType[m] = "list" => \A i \in OptionIndex(m) : opts[i].value = givenOptions[m]
        BY DEF OptionsExact
      <4>3. \A i, j \in OptionIndex(m) : i = j
        BY DEF OptionsExact
      <4> QED BY <3>0, <3>1, <4>1, <4>2, <4>3, <1>1, <1>g, <1>4
    <3>2. CASE n # m
      <4>1. \A i \in OptionIndex(n) : i \notin OptionIndex(m)
        BY <3>2 DEF OptionIndex
      <4>2. \A i \in OptionIndex(n) : opts'[i] = opts[i]
        BY <4>1, <3>0, <2>2
      <4> QED BY <3>2, <3>0, <4>2, <1>g DEF OptionsExact
    <3> QED BY <3>1, <3>2
  <2>7. OptionsExact'
    BY <2>6 DEF OptionsExact
  <2> QED BY <1>2, <2>5, <2>7
<1> QED BY <1>3, <1>4

\* Nothing is set, or the document root alone: what a start of main or start_civetweb has.
LEMMA FewOptions ==
    \/ opts' = <<>> /\ givenOptions' = NothingGiven
    \/ /\ opts' = <<[name |-> "document_root", value |-> <<".">>]>>
       /\ givenOptions' = [NothingGiven EXCEPT !["document_root"] = <<".">>]
    => OptsShape' /\ GivenShape' /\ OptionsExact'
<1>n. /\ DOMAIN optionType = {"listening_ports", "document_root", "enable_webdav"}
      /\ optionType["document_root"] = "text"
  BY DEF optionType
<1>s. ASSUME NEW x PROVE IsSequence(<<x>>) /\ IsSequence(<<>>)
  <2>1. <<x>> \in Seq({x}) /\ <<>> \in Seq({x})
    OBVIOUS
  <2> QED BY <2>1 DEF IsSequence
<1>1. ASSUME opts' = <<>>, givenOptions' = NothingGiven
      PROVE  OptsShape' /\ GivenShape' /\ OptionsExact'
  <2>1. \A n \in DOMAIN optionType : givenOptions'[n] = <<>> /\ OptionIndex(n)' = {}
    BY <1>1 DEF NothingGiven, OptionIndex
  <2>2. OptsShape'
    <3>1. DOMAIN opts' = {} /\ IsSequence(opts')
      <4>1. DOMAIN <<>> = {}
        OBVIOUS
      <4> QED BY <1>1, <1>s, <4>1, Zenon
    <3> QED BY <3>1, Zenon DEF OptsShape
  <2>3. GivenShape'
    BY <1>1, <1>s, <2>1 DEF GivenShape, NothingGiven
  <2>4. OptionsExact'
    BY <2>1 DEF OptionsExact
  <2> QED BY <2>2, <2>3, <2>4
<1>2. ASSUME opts' = <<[name |-> "document_root", value |-> <<".">>]>>,
             givenOptions' = [NothingGiven EXCEPT !["document_root"] = <<".">>]
      PROVE  OptsShape' /\ GivenShape' /\ OptionsExact'
  <2>0. DOMAIN opts' = {1} /\ opts'[1] = [name |-> "document_root", value |-> <<".">>]
    BY <1>2
  <2>a. /\ \A n \in DOMAIN optionType \ {"document_root"} : OptionIndex(n)' = {}
        /\ OptionIndex("document_root")' = {1}
    BY <2>0, <1>n DEF OptionIndex
  <2>b. "document_root" \in DOMAIN optionType
    BY <1>n
  <2>c. /\ \A n \in DOMAIN optionType \ {"document_root"} : givenOptions'[n] = <<>>
        /\ givenOptions'["document_root"] = <<".">>
        /\ givenOptions' = [n \in DOMAIN optionType |-> givenOptions'[n]]
    BY <1>2, <2>b DEF NothingGiven
  <2>1. /\ \A n \in DOMAIN optionType \ {"document_root"} : givenOptions'[n] = <<>> /\ OptionIndex(n)' = {}
        /\ givenOptions'["document_root"] = <<".">> /\ OptionIndex("document_root")' = {1}
        /\ givenOptions' = [n \in DOMAIN optionType |-> givenOptions'[n]]
    BY <2>a, <2>c
  <2>2. OptsShape'
    BY <1>2, <2>0, <1>s DEF OptsShape
  <2>3. GivenShape'
    BY <1>s, <2>1 DEF GivenShape
  <2>4. OptionsExact'
    BY <1>n, <2>0, <2>1 DEF OptionsExact
  <2> QED BY <2>2, <2>3, <2>4
<1> QED BY <1>1, <1>2

\* No step of the options or of the server breaks the options array.
LEMMA OptionsStep == SaInv /\ [SaNext]_saVars => (OptsShape /\ GivenShape /\ OptionsExact)'
<1> SUFFICES ASSUME SaInv, [SaNext]_saVars PROVE (OptsShape /\ GivenShape /\ OptionsExact)'
  OBVIOUS
<1>u. ASSUME UNCHANGED <<opts, givenOptions>> PROVE (OptsShape /\ GivenShape /\ OptionsExact)'
  BY <1>u DEF SaInv, OptsShape, GivenShape, OptionsExact, OptionIndex
<1>x. ASSUME ProcessExits PROVE (OptsShape /\ GivenShape /\ OptionsExact)'
  BY <1>x, FewOptions DEF ProcessExits
<1>1. CASE UNCHANGED saVars
  BY <1>1, <1>u DEF saVars
<1>2. ASSUME NEW h, NEW f, NEW a, LaunchProcess(h, f, a) PROVE (OptsShape /\ GivenShape /\ OptionsExact)'
  BY <1>2, FewOptions DEF LaunchProcess
<1>3. CASE ReadOption
  <2> DEFINE e == Head(unread)
  <2>1. CASE OptionAccepted(e)
    <3>1. /\ e.name \in DOMAIN optionType
          /\ opts' = SetOption(e)
          /\ givenOptions' = [givenOptions EXCEPT ![e.name] = Append(@, e.value)]
      BY <1>3, <2>1 DEF ReadOption, OptionAccepted
    <3> HIDE DEF e
    <3> QED BY <3>1, SetOptionExact DEF SaInv
  <2>2. CASE ~OptionAccepted(e)
    BY <1>3, <2>2, <1>u DEF ReadOption
  <2> QED BY <2>1, <2>2
<1>4. CASE EndsAtOnce \/ TooMany \/ InvalidOptions \/ MainEnds \/ NoSettings \/ QuitReceived
  BY <1>4, <1>x DEF EndsAtOnce, TooMany, InvalidOptions, MainEnds, NoSettings, QuitReceived
<1>5. CASE FileRead \/ Sanitized \/ StartReturns \/ StopSignal \/ QuitCommand
  BY <1>5, <1>u DEF FileRead, Sanitized, StartReturns, StopSignal, QuitCommand
<1>6. CASE ServerStarted \/ ServerStartFails
  BY <1>6, <1>x, FewOptions DEF ServerStarted, ServerStartFails
<1>7. CASE LoadDomain \/ EditSettings \/ RetryReturns
  BY <1>7, <1>u, <1>x DEF LoadDomain, EditSettings, RetryReturns
<1>8. CASE show_settings_dialog \/ change_password_file \/ get_password \/ show_system_info
  BY <1>8, <1>u DEF show_settings_dialog, change_password_file, get_password, show_system_info, OpenDialog
<1>9. CASE SettingsClosed \/ PasswordClosed \/ InputClosed \/ SysinfoClosed
  BY <1>9, <1>u DEF SettingsClosed, PasswordClosed, InputClosed, SysinfoClosed, CloseDialog
<1>10. CASE SaveSettings
  BY <1>10, FewOptions DEF SaveSettings, BeginOptions
<1> QED BY <1>1, <1>2, <1>3, <1>4, <1>5, <1>6, <1>7, <1>8, <1>9, <1>10 DEF SaNext

\* No step starts a second server.
LEMMA ServersStep == SaInv /\ [SaNext]_saVars => ServersMatch'
<1> SUFFICES ASSUME SaInv, [SaNext]_saVars PROVE ServersMatch'
  OBVIOUS
<1> USE DEF serverVars, sourceVars, loopVars
<1>i. /\ servers = IF g_ctx = "live" THEN 1 ELSE 0
      /\ saPc \in {"off", "file", "argv", "start"} => g_ctx # "live"
      /\ hostKind = "off" => saPc = "off"
  BY DEF SaInv, ServersMatch
<1>u. ASSUME UNCHANGED <<hostKind, saPc, serverVars>> PROVE ServersMatch'
  BY <1>u, <1>i DEF ServersMatch
<1>x. ASSUME ProcessExits PROVE ServersMatch'
  BY <1>x DEF ServersMatch, ProcessExits
<1>1. CASE UNCHANGED saVars
  BY <1>1, <1>u DEF saVars
<1>2. ASSUME NEW h \in {"console", "service", "gui"}, NEW f, NEW a, LaunchProcess(h, f, a)
      PROVE  ServersMatch'
  BY <1>2, <1>i DEF LaunchProcess, ServersMatch
<1>3. CASE ReadOption \/ StopSignal
  BY <1>3, <1>u DEF ReadOption, StopSignal
<1>4. CASE EndsAtOnce \/ TooMany \/ InvalidOptions \/ MainEnds \/ NoSettings \/ QuitReceived
  BY <1>4, <1>x DEF EndsAtOnce, TooMany, InvalidOptions, MainEnds, NoSettings, QuitReceived
<1>5. CASE FileRead \/ Sanitized \/ StartReturns
  BY <1>5, <1>i DEF FileRead, Sanitized, StartReturns, ServersMatch
<1>6. CASE ServerStarted \/ ServerStartFails
  BY <1>6, <1>x, <1>i DEF ServerStarted, ServerStartFails, ServersMatch
<1>7. CASE LoadDomain \/ EditSettings \/ RetryReturns
  BY <1>7, <1>u, <1>x, <1>i DEF LoadDomain, EditSettings, RetryReturns, ServersMatch
<1>8. CASE show_settings_dialog \/ change_password_file \/ get_password \/ show_system_info
  BY <1>8, <1>u DEF show_settings_dialog, change_password_file, get_password, show_system_info, OpenDialog
<1>9. CASE SettingsClosed \/ PasswordClosed \/ InputClosed \/ SysinfoClosed
  BY <1>9, <1>u DEF SettingsClosed, PasswordClosed, InputClosed, SysinfoClosed, CloseDialog
<1>10. CASE SaveSettings \/ QuitCommand
  BY <1>10, <1>i DEF SaveSettings, QuitCommand, StopCivetweb, BeginOptions, Pumping, ServersMatch
<1> QED BY <1>1, <1>2, <1>3, <1>4, <1>5, <1>6, <1>7, <1>8, <1>9, <1>10 DEF SaNext

\* Whatever is in the file and on the command line, the server is started with what the
\* accepted entries say, each option once, and however dialogs, message boxes and commands
\* nest there is never a second server (main.c set_option, start_civetweb, WindowProc).
THEOREM OptionsReachOneServer == SaSpec => []StandAloneExact
<1>1. SaInit => SaInv
  <2> SUFFICES ASSUME SaInit PROVE SaInv
    OBVIOUS
  <2>0. IsSequence(<<>>)
    <3>1. <<>> \in Seq({})
      OBVIOUS
    <3> QED BY <3>1 DEF IsSequence
  <2>1. \A n \in DOMAIN optionType : givenOptions[n] = <<>> /\ OptionIndex(n) = {}
    BY DEF SaInit, NothingGiven, OptionIndex
  <2>2. OptsShape
    BY <2>0 DEF SaInit, OptsShape
  <2>3. GivenShape
    BY <2>0, <2>1 DEF SaInit, GivenShape, NothingGiven
  <2>4. OptionsExact
    BY <2>1 DEF OptionsExact
  <2>5. ServersMatch
    BY DEF SaInit, ServersMatch
  <2> QED BY <2>2, <2>3, <2>4, <2>5 DEF SaInv
<1>2. SaInv /\ [SaNext]_saVars => SaInv'
  BY OptionsStep, ServersStep DEF SaInv
<1>3. SaInv => StandAloneExact
  BY DEF SaInv, ServersMatch, StandAloneExact, OneServer
<1> QED BY <1>1, <1>2, <1>3, PTL DEF SaSpec
==============================================================================
