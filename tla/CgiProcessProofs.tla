-------------------------- MODULE CgiProcessProofs --------------------------
(***************************************************************************)
(* Proofs about the timers and about the CGI processes they abort, for any *)
(* timers, requests and processes, and any capacity of the list.           *)
(***************************************************************************)
EXTENDS CgiProcess, SequenceTheorems, FiniteSetTheorems, TLAPS

-----------------------------------------------------------------------------
(* The list of timers *)

\* Timer i is in the list; there is no timer twice.
InList(i) == \E k \in 1..Len(timers) : timers[k].id = i
NoTimerTwice == \A j, k \in 1..Len(timers) : timers[j].id = timers[k].id => j = k

\* Insertion keeps the list sorted, and adds the timer that is inserted.
LEMMA InsertKeeps ==
    ASSUME timers \in Seq(Entry), TimersSorted, NoTimerTwice,
           NEW e \in Entry, Insert(e), ~InList(e.id)
    PROVE  /\ timers' \in Seq(Entry) /\ Len(timers') = Len(timers) + 1
           /\ TimersSorted' /\ NoTimerTwice'
           /\ \A i \in Timer : InList(i)' <=> InList(i) \/ i = e.id
<1> DEFINE n == Len(timers)
<1>1. n \in Nat /\ \A k \in 1..n : timers[k] \in Entry /\ timers[k].time \in Int
  <2>1. n \in Nat /\ \A k \in 1..n : timers[k] \in Entry
    OBVIOUS
  <2>2. \A x \in Entry : x.time \in Int
    BY TimersAssumption DEF Entry, Time
  <2> HIDE DEF n
  <2> QED BY <2>1, <2>2
<1>2. PICK u \in 0..n :
         /\ u > 0 => timers[u].time <= e.time
         /\ \A k \in (u + 1)..n : timers[k].time > e.time
         /\ timers' = [k \in 1..(n + 1) |->
                          IF k <= u THEN timers[k] ELSE IF k = u + 1 THEN e ELSE timers[k - 1]]
  BY DEF Insert
<1> DEFINE old(k) == IF k <= u THEN k ELSE k - 1
<1> HIDE DEF n
<1>3. u \in Nat /\ u <= n /\ e.time \in Int
  BY <1>1 DEF Entry, Time
<1>4. /\ DOMAIN timers' = 1..(n + 1) /\ timers'[u + 1] = e
      /\ \A k \in 1..(n + 1) : k # u + 1 => timers'[k] = timers[old(k)] /\ old(k) \in 1..n
      /\ \A k \in 1..(n + 1) : k # u + 1 => (k <= u <=> old(k) <= u)
  BY <1>1, <1>2, <1>3
<1>5. /\ \A j, k \in 1..(n + 1) : j # u + 1 /\ k # u + 1 => (j < k <=> old(j) < old(k))
      /\ \A j, k \in 1..(n + 1) : j # u + 1 /\ k # u + 1 /\ old(j) = old(k) => j = k
  BY <1>1, <1>3
<1>6. \A k \in 1..n : \E j \in 1..(n + 1) : j # u + 1 /\ old(j) = k
  <2>1. \A k \in 1..n : LET j == IF k <= u THEN k ELSE k + 1
                        IN  j \in 1..(n + 1) /\ j # u + 1 /\ old(j) = k
    BY <1>1, <1>3
  <2> HIDE DEF old
  <2> QED BY <2>1
<1> HIDE DEF old
<1>7. timers' \in [1..(n + 1) -> Entry]
  <2>1. \A k \in 1..(n + 1) : timers'[k] \in Entry
    BY <1>1, <1>4
  <2> QED BY <1>2, <1>4, <2>1
<1>8. timers' \in Seq(Entry) /\ Len(timers') = n + 1
  BY <1>1, <1>7, IsASeq
<1>9. TimersSorted'
  <2>1. \A k \in 1..u : timers[k].time <= e.time
    <3> SUFFICES ASSUME NEW k \in 1..u PROVE timers[k].time <= e.time
      OBVIOUS
    <3>1. k = u \/ timers[k].time <= timers[u].time
      BY <1>1, <1>3 DEF TimersSorted, n
    <3>2. timers[u].time <= e.time /\ timers[u].time \in Int /\ timers[k].time \in Int
      BY <1>1, <1>2, <1>3
    <3> QED BY <1>3, <3>1, <3>2
  <2> SUFFICES ASSUME NEW j \in 1..(n + 1), NEW k \in 1..(n + 1), j < k
               PROVE  timers'[j].time <= timers'[k].time
    BY <1>8 DEF TimersSorted
  <2>2. CASE j = u + 1
    <3>1. old(k) \in (u + 1)..n /\ timers'[k] = timers[old(k)]
      BY <1>1, <1>3, <1>4, <2>2
    <3> QED BY <1>1, <1>2, <1>3, <1>4, <2>2, <3>1
  <2>3. CASE k = u + 1
    <3>1. old(j) \in 1..u /\ timers'[j] = timers[old(j)]
      BY <1>1, <1>3, <1>4, <2>3
    <3> QED BY <1>4, <2>1, <2>3, <3>1
  <2>4. CASE j # u + 1 /\ k # u + 1
    BY <1>4, <1>5, <2>4 DEF TimersSorted, n
  <2> QED BY <2>2, <2>3, <2>4
<1>10. NoTimerTwice'
  <2> SUFFICES ASSUME NEW j \in 1..(n + 1), NEW k \in 1..(n + 1), timers'[j].id = timers'[k].id
               PROVE  j = k
    BY <1>8 DEF NoTimerTwice
  <2>1. \A m \in 1..(n + 1) : m # u + 1 => timers'[m].id # e.id
    BY <1>4 DEF InList, n
  <2>2. CASE j = u + 1 \/ k = u + 1
    BY <1>4, <2>1, <2>2
  <2>3. CASE j # u + 1 /\ k # u + 1
    BY <1>4, <1>5, <2>3 DEF NoTimerTwice, n
  <2> QED BY <2>2, <2>3
<1>11. ASSUME NEW i \in Timer PROVE InList(i)' <=> InList(i) \/ i = e.id
  <2>1. u + 1 \in 1..(n + 1)
    BY <1>1, <1>3
  <2>2. ASSUME InList(i) PROVE InList(i)'
    <3>1. PICK k \in 1..n : timers[k].id = i
      BY <2>2 DEF InList, n
    <3>2. PICK j \in 1..(n + 1) : j # u + 1 /\ old(j) = k
      BY <1>6
    <3> QED BY <1>4, <1>8, <3>1, <3>2 DEF InList
  <2>3. ASSUME i = e.id PROVE InList(i)'
    BY <1>4, <1>8, <2>1, <2>3 DEF InList
  <2>4. ASSUME InList(i)', i # e.id PROVE InList(i)
    <3>1. PICK k \in 1..(n + 1) : timers'[k].id = i
      BY <1>8, <2>4 DEF InList
    <3> QED BY <1>4, <2>4, <3>1 DEF InList, n
  <2> QED BY <2>2, <2>3, <2>4
<1> QED BY <1>8, <1>9, <1>10, <1>11 DEF n

\* The first timer is taken off the list, and the others stay.
LEMMA TailKeeps ==
    ASSUME timers \in Seq(Entry), timers # <<>>, TimersSorted, NoTimerTwice,
           timers' = Tail(timers)
    PROVE  /\ timers' \in Seq(Entry) /\ Len(timers') = Len(timers) - 1
           /\ timers[1] \in Entry
           /\ TimersSorted' /\ NoTimerTwice'
           /\ \A i \in Timer : InList(i)' <=> InList(i) /\ i # timers[1].id
<1> DEFINE n == Len(timers)
<1>1. /\ n \in Nat /\ n >= 1 /\ timers' \in Seq(Entry) /\ Len(timers') = n - 1
      /\ \A k \in 1..(n - 1) : timers'[k] = timers[k + 1]
      /\ timers[1] \in Entry
  BY HeadTailProperties
<1> HIDE DEF n
<1>2. \A k \in 1..(n - 1) : k + 1 \in 1..n
  BY <1>1
<1>3. TimersSorted'
  <2> SUFFICES ASSUME NEW j \in 1..(n - 1), NEW k \in 1..(n - 1), j < k
               PROVE  timers'[j].time <= timers'[k].time
    BY <1>1 DEF TimersSorted
  <2>1. j + 1 < k + 1
    BY <1>1
  <2> QED BY <1>1, <1>2, <2>1 DEF TimersSorted, n
<1>4. NoTimerTwice'
  <2> SUFFICES ASSUME NEW j \in 1..(n - 1), NEW k \in 1..(n - 1), timers'[j].id = timers'[k].id
               PROVE  j = k
    BY <1>1 DEF NoTimerTwice
  <2>1. j + 1 = k + 1
    BY <1>1, <1>2 DEF NoTimerTwice, n
  <2> QED BY <1>1, <2>1
<1>5. ASSUME NEW i \in Timer, InList(i)' PROVE InList(i) /\ i # timers[1].id
  <2>1. PICK k \in 1..(n - 1) : timers'[k].id = i
    BY <1>1, <1>5 DEF InList
  <2>2. timers[k + 1].id = i /\ k + 1 \in 1..n /\ 1 \in 1..n /\ k + 1 # 1
    BY <1>1, <1>2, <2>1
  <2> QED BY <2>2 DEF InList, NoTimerTwice, n
<1>6. ASSUME NEW i \in Timer, InList(i), i # timers[1].id PROVE InList(i)'
  <2>1. PICK k \in 1..n : timers[k].id = i
    BY <1>6 DEF InList, n
  <2>2. k - 1 \in 1..(n - 1) /\ timers'[k - 1] = timers[k]
    <3>1. k # 1
      BY <1>6, <2>1
    <3>2. k - 1 \in 1..(n - 1) /\ (k - 1) + 1 = k
      BY <1>1, <3>1
    <3> QED BY <1>1, <3>2
  <2> QED BY <1>1, <2>1, <2>2 DEF InList
<1> QED BY <1>1, <1>3, <1>4, <1>5, <1>6 DEF n
-----------------------------------------------------------------------------
(* Timers *)

\* Timer i is the one whose action is called, or that is put back.
ActiveIs(i) == thread.t # <<>> /\ Active.id = i

\* Timer i is in the part of the list that the last loop has yet to reach.
Live(i) == \E k \in (IF thread.pc \in {"drain", "ended"} THEN thread.u + 1 ELSE 1)..Len(timers) :
              timers[k].id = i

\* The timer thread has an active timer where its code has one, and compares with a time
\* that was the clock's.
ThreadPlaces ==
    /\ thread.t # <<>> <=> thread.pc \in {"action", "readd"}
    /\ thread.d <= now
    /\ thread.pc \in {"drain", "ended"} => stopping
    /\ ~allocated => thread.pc = "ended"
    /\ thread.pc = "readd" => Period[Active.id] > 0
    /\ thread.pc = "ended" /\ ~addedLate => Len(timers) <= thread.u

\* A timer that was accepted is in one place, and no other timer is in any.
OnePlace ==
    /\ NoTimerTwice
    /\ \A i \in Timer :
          /\ InList(i) => ~ActiveIs(i)
          /\ InList(i) \/ ActiveIs(i) => adder[i].pc = "accepted"

\* What was given up is nowhere else, and what does not repeat is not forgotten.
GivenUpOnce ==
    ~addedLate =>
        \A i \in Timer :
            /\ cancelled[i] <= 1
            /\ cancelled[i] = 1 => ~Live(i) /\ ~ActiveIs(i) /\ adder[i].pc = "accepted"
            /\ adder[i].pc = "accepted" /\ Period[i] = 0
                  => Live(i) \/ ActiveIs(i) \/ cancelled[i] = 1

TimersInv ==
    TimersTypeOK /\ TimersSorted /\ NotBeforeTime /\ ThreadPlaces /\ OnePlace /\ GivenUpOnce

\* What the threads do with the timers.
TimersNext ==
    \/ Tick \/ Stop \/ TimersExit \/ LoopStep \/ ActionAgain \/ ActionLast
    \/ \E i \in Timer : TimerInsert(i) \/ \E delay \in Delays : TimerAdd(i, delay)

\* A state of the timer thread, by its parts.
ThreadOf(pc, d, t, u) == [pc |-> pc, d |-> d, t |-> t, u |-> u]
ThreadAt == {"loop", "action", "readd", "drain", "ended"}

\* An entry can be the active timer.
LEMMA ActiveEntry ==
    ASSUME NEW e \in Entry
    PROVE  <<e>> \in [1..1 -> Entry] /\ <<e>>[1] = e /\ <<e>> # <<>>
  OBVIOUS

\* The parts of the timer thread, and its active timer.
LEMMA ThreadParts ==
    ASSUME TimersInv
    PROVE  /\ thread = ThreadOf(thread.pc, thread.d, thread.t, thread.u)
           /\ thread.pc \in ThreadAt /\ thread.d \in Nat /\ thread.d \in Time /\ thread.u \in Nat
           /\ thread.t \in {<<>>} \cup [1..1 -> Entry]
           /\ thread.t # <<>> => Active \in Entry /\ Active.id \in Timer /\ Active.time \in Time
           /\ now \in Nat /\ Len(timers) \in Nat
<1>1. thread \in Thread
  BY DEF TimersInv, TimersTypeOK
<1>2. /\ thread = ThreadOf(thread.pc, thread.d, thread.t, thread.u)
      /\ thread.pc \in ThreadAt /\ thread.d \in Time /\ thread.u \in Nat
      /\ thread.t \in {<<>>} \cup [1..1 -> Entry]
  BY <1>1 DEF Thread, ThreadOf, ThreadAt
<1>3. \A x \in Time : x \in Nat
  BY TimersAssumption DEF Time
<1>4. thread.t # <<>> => Active \in Entry /\ Active.id \in Timer /\ Active.time \in Time
  BY <1>2 DEF Active, Entry
<1>5. now \in Nat /\ Len(timers) \in Nat
  BY <1>3 DEF TimersInv, TimersTypeOK
<1> QED BY <1>2, <1>3, <1>4, <1>5

\* New parts make a state of the thread.
LEMMA ThreadMade ==
    ASSUME NEW pc \in ThreadAt, NEW d \in Time, NEW t \in {<<>>} \cup [1..1 -> Entry], NEW u \in Nat
    PROVE  /\ ThreadOf(pc, d, t, u) \in Thread
           /\ ThreadOf(pc, d, t, u).pc = pc /\ ThreadOf(pc, d, t, u).d = d
           /\ ThreadOf(pc, d, t, u).t = t /\ ThreadOf(pc, d, t, u).u = u
  BY DEF ThreadOf, Thread, ThreadAt

\* The places of timers depend on the list, the active timer and the last loop.
LEMMA SamePlaces ==
    ASSUME timers' = timers, thread'.t = thread.t, thread'.u = thread.u,
           thread'.pc \in {"drain", "ended"} <=> thread.pc \in {"drain", "ended"}
    PROVE  /\ NoTimerTwice' <=> NoTimerTwice
           /\ TimersSorted' <=> TimersSorted
           /\ \A i \in Timer : (InList(i)' <=> InList(i)) /\ (ActiveIs(i)' <=> ActiveIs(i))
                               /\ (Live(i)' <=> Live(i))
           /\ Active' = Active
  BY DEF NoTimerTwice, TimersSorted, InList, ActiveIs, Live, Active

\* The clock moves no timer.
LEMMA TickKeeps == TimersInv /\ Tick => TimersInv'
<1> SUFFICES ASSUME TimersInv, Tick PROVE TimersInv'
  OBVIOUS
<1>1. /\ now' = now + 1 /\ now < MaxTime
      /\ UNCHANGED <<allocated, timers, capacity, adder, thread, stopping, cancelled, addedLate>>
  BY DEF Tick
<1>2. now \in Nat /\ thread.d \in Nat /\ (thread.t # <<>> => Active.time \in Nat)
  BY ThreadParts, TimersAssumption DEF Time
<1>3. TimersTypeOK'
  BY <1>1, <1>2, TimersAssumption DEF TimersInv, TimersTypeOK, Time
<1>4. NotBeforeTime' /\ ThreadPlaces'
  BY <1>1, <1>2, SamePlaces DEF TimersInv, NotBeforeTime, ThreadPlaces
<1>5. OnePlace' /\ GivenUpOnce' /\ TimersSorted'
  BY <1>1, SamePlaces DEF TimersInv, OnePlace, GivenUpOnce
<1> QED BY <1>3, <1>4, <1>5 DEF TimersInv

\* The stop flag moves no timer either.
LEMMA StopKeeps == TimersInv /\ Stop => TimersInv'
<1> SUFFICES ASSUME TimersInv, Stop PROVE TimersInv'
  OBVIOUS
<1>1. /\ stopping' = TRUE
      /\ UNCHANGED <<now, allocated, timers, capacity, adder, thread, cancelled, addedLate>>
  BY DEF Stop
<1>3. TimersTypeOK'
  BY <1>1 DEF TimersInv, TimersTypeOK
<1>4. NotBeforeTime' /\ ThreadPlaces'
  BY <1>1, SamePlaces DEF TimersInv, NotBeforeTime, ThreadPlaces
<1>5. OnePlace' /\ GivenUpOnce' /\ TimersSorted'
  BY <1>1, SamePlaces DEF TimersInv, OnePlace, GivenUpOnce
<1> QED BY <1>3, <1>4, <1>5 DEF TimersInv

\* The first part of timer_add computes a time and moves no timer.
LEMMA AddKeeps ==
    ASSUME TimersInv, NEW i \in Timer, NEW delay \in Delays, TimerAdd(i, delay) PROVE TimersInv'
<1>1. /\ adder[i].pc = "idle"
      /\ UNCHANGED <<now, allocated, timers, capacity, thread, stopping, cancelled, addedLate>>
  BY DEF TimerAdd
<1>2. PICK a \in Adder : adder' = [adder EXCEPT ![i] = a] /\ a.pc \in {"insert", "rejected"}
  <2>1. CASE allocated
    <3>1. now + delay \in Time
      BY <2>1, TimersAssumption, ThreadParts DEF TimerAdd, Time
    <3>2. [pc |-> "insert", time |-> now + delay] \in Adder
      BY <3>1 DEF Adder
    <3> QED BY <2>1, <3>2 DEF TimerAdd
  <2>2. CASE ~allocated
    <3>1. [pc |-> "rejected", time |-> 0] \in Adder
      BY TimersAssumption DEF Adder, Time
    <3> QED BY <2>2, <3>1 DEF TimerAdd
  <2> QED BY <2>1, <2>2
<1>3. /\ adder' \in [Timer -> Adder] /\ adder'[i].pc # "accepted"
      /\ \A j \in Timer : j # i => adder'[j] = adder[j]
  BY <1>2 DEF TimersInv, TimersTypeOK
<1>4. TimersTypeOK'
  BY <1>1, <1>3 DEF TimersInv, TimersTypeOK
<1>5. NotBeforeTime' /\ ThreadPlaces'
  BY <1>1, SamePlaces DEF TimersInv, NotBeforeTime, ThreadPlaces
<1>6. OnePlace' /\ TimersSorted'
  BY <1>1, <1>3, SamePlaces DEF TimersInv, OnePlace
<1>7. GivenUpOnce'
  BY <1>1, <1>3, SamePlaces DEF TimersInv, GivenUpOnce
<1> QED BY <1>4, <1>5, <1>6, <1>7 DEF TimersInv

\* Until the last loop begins, all of the list is before it.
LEMMA AllLive ==
    /\ thread.pc \notin {"drain", "ended"} => \A i \in Timer : Live(i) <=> InList(i)
    /\ thread'.pc \notin {"drain", "ended"} => \A i \in Timer : Live(i)' <=> InList(i)'
  BY DEF Live, InList

\* The critical section of timer_add keeps the list sorted and within its capacity.
LEMMA EntryAdded ==
    ASSUME TimersInv, NEW e \in Entry, AddEntry(e), ~InList(e.id)
    PROVE  /\ timers' \in Seq(Entry) /\ Len(timers') <= MAX_TIMERS
           /\ capacity' \in Nat /\ Len(timers') <= capacity'
           /\ TimersSorted' /\ NoTimerTwice'
           /\ \A i \in Timer : InList(i)' <=> InList(i) \/ i = e.id
<1>1. /\ timers' \in Seq(Entry) /\ Len(timers') = Len(timers) + 1
      /\ TimersSorted' /\ NoTimerTwice'
      /\ \A i \in Timer : InList(i)' <=> InList(i) \/ i = e.id
  BY InsertKeeps DEF AddEntry, TimersInv, TimersTypeOK, OnePlace
<1>2. Len(timers) \in Nat /\ capacity \in Nat /\ MAX_TIMERS \in Nat
  BY TimersAssumption DEF TimersInv, TimersTypeOK
<1>3. Len(timers') <= MAX_TIMERS /\ capacity' \in Nat /\ Len(timers') <= capacity'
  BY <1>1, <1>2 DEF AddEntry
<1> QED BY <1>1, <1>3

\* The second part of timer_add, in the critical section.
LEMMA TimerInsertKeeps == ASSUME TimersInv, NEW i \in Timer, TimerInsert(i) PROVE TimersInv'
<1>1. adder[i].pc = "insert" /\ UNCHANGED <<now, allocated, thread, stopping, cancelled>>
  BY DEF TimerInsert
<1>a. adder[i] \in Adder /\ adder \in [Timer -> Adder] /\ adder[i].time \in Time
  BY DEF TimersInv, TimersTypeOK, Adder
<1>n. ~InList(i) /\ ~ActiveIs(i)
  BY <1>1 DEF TimersInv, OnePlace
<1>b. ActiveIs(i)' = ActiveIs(i) /\ \A j \in Timer : ActiveIs(j)' <=> ActiveIs(j)
  BY <1>1 DEF ActiveIs, Active
<1>2. ASSUME NEW pc \in {"accepted", "rejected", "fault"}, adder' = [adder EXCEPT ![i].pc = pc]
      PROVE  /\ adder' \in [Timer -> Adder] /\ adder'[i].pc = pc
             /\ \A j \in Timer : j # i => adder'[j] = adder[j]
  BY <1>2, <1>a DEF Adder
<1>3. CASE /\ allocated
           /\ AddEntry([id |-> i, time |-> adder[i].time])
           /\ adder' = [adder EXCEPT ![i].pc = "accepted"]
           /\ addedLate' = (addedLate \/ stopping)
  <2> DEFINE e == [id |-> i, time |-> adder[i].time]
  <2>1. e \in Entry /\ e.id = i
    BY <1>a DEF Entry
  <2>2. AddEntry(e)
    BY <1>3
  <2> HIDE DEF e
  <2>3. /\ timers' \in Seq(Entry) /\ Len(timers') <= MAX_TIMERS
        /\ capacity' \in Nat /\ Len(timers') <= capacity'
        /\ TimersSorted' /\ NoTimerTwice'
        /\ \A j \in Timer : InList(j)' <=> InList(j) \/ j = i
    BY <1>n, <2>1, <2>2, EntryAdded
  <2>4. /\ adder' \in [Timer -> Adder] /\ adder'[i].pc = "accepted"
        /\ \A j \in Timer : j # i => adder'[j] = adder[j]
    BY <1>2, <1>3
  <2>5. TimersTypeOK'
    BY <1>1, <1>3, <2>3, <2>4 DEF TimersInv, TimersTypeOK
  <2>6. NotBeforeTime' /\ ThreadPlaces'
    BY <1>1, <1>3 DEF TimersInv, NotBeforeTime, ThreadPlaces, Active
  <2>7. OnePlace'
    BY <1>1, <1>b, <1>n, <2>3, <2>4 DEF TimersInv, OnePlace
  <2>8. GivenUpOnce'
    <3> SUFFICES ASSUME ~addedLate', NEW j \in Timer
                 PROVE  /\ cancelled[j] <= 1
                        /\ cancelled[j] = 1 => ~Live(j)' /\ ~ActiveIs(j)' /\ adder'[j].pc = "accepted"
                        /\ adder'[j].pc = "accepted" /\ Period[j] = 0
                              => Live(j)' \/ ActiveIs(j)' \/ cancelled[j] = 1
      BY <1>1 DEF GivenUpOnce
    <3>1. ~addedLate /\ ~stopping
      BY <1>3
    <3>2. (Live(j) <=> InList(j)) /\ (Live(j)' <=> InList(j)')
      BY <1>1, <3>1, AllLive DEF TimersInv, ThreadPlaces
    <3>3. j # i => (Live(j)' <=> Live(j)) /\ adder'[j] = adder[j]
      BY <2>3, <2>4, <3>2
    <3>4. /\ cancelled[j] <= 1
          /\ cancelled[j] = 1 => ~Live(j) /\ ~ActiveIs(j) /\ adder[j].pc = "accepted"
          /\ adder[j].pc = "accepted" /\ Period[j] = 0 => Live(j) \/ ActiveIs(j) \/ cancelled[j] = 1
      BY <3>1 DEF TimersInv, GivenUpOnce
    <3>5. CASE j = i
      BY <1>1, <1>b, <2>3, <3>2, <3>4, <3>5
    <3>6. CASE j # i
      BY <1>b, <3>3, <3>4, <3>6
    <3> QED BY <3>5, <3>6
  <2> QED BY <2>3, <2>5, <2>6, <2>7, <2>8 DEF TimersInv
<1>4. CASE /\ UNCHANGED <<timers, capacity, addedLate>>
           /\ \E pc \in {"rejected", "fault"} : adder' = [adder EXCEPT ![i].pc = pc]
  <2>1. /\ adder' \in [Timer -> Adder] /\ adder'[i].pc # "accepted"
        /\ \A j \in Timer : j # i => adder'[j] = adder[j]
    BY <1>2, <1>4
  <2>2. TimersTypeOK'
    BY <1>1, <1>4, <2>1 DEF TimersInv, TimersTypeOK
  <2>3. NotBeforeTime' /\ ThreadPlaces' /\ TimersSorted'
    BY <1>1, <1>4, SamePlaces DEF TimersInv, NotBeforeTime, ThreadPlaces
  <2>4. OnePlace'
    BY <1>1, <1>4, <1>n, <2>1, SamePlaces DEF TimersInv, OnePlace
  <2>5. GivenUpOnce'
    BY <1>1, <1>4, <2>1, SamePlaces DEF TimersInv, GivenUpOnce
  <2> QED BY <2>2, <2>3, <2>4, <2>5 DEF TimersInv
<1> QED BY <1>3, <1>4 DEF TimerInsert, AddFails

\* The first timer becomes the active one when its time has come.
LEMMA TakeTimerKeeps == TimersInv /\ TakeTimer => TimersInv'
<1> SUFFICES ASSUME TimersInv, TakeTimer PROVE TimersInv'
  OBVIOUS
<1>1. /\ thread.pc = "loop" /\ ~stopping /\ timers # <<>> /\ thread.d >= timers[1].time
      /\ thread' = [thread EXCEPT !.pc = "action", !.t = <<timers[1]>>]
      /\ timers' = Tail(timers)
      /\ UNCHANGED <<now, allocated, capacity, adder, stopping, cancelled, addedLate>>
  BY DEF TakeTimer, Due
<1>2. /\ timers' \in Seq(Entry) /\ Len(timers') = Len(timers) - 1
      /\ timers[1] \in Entry
      /\ TimersSorted' /\ NoTimerTwice'
      /\ \A i \in Timer : InList(i)' <=> InList(i) /\ i # timers[1].id
  BY <1>1, TailKeeps DEF TimersInv, TimersTypeOK, OnePlace
<1> DEFINE e == timers[1]
<1>3. e \in Entry /\ e.id \in Timer /\ e.time \in Nat
  BY <1>2, TimersAssumption DEF Entry, Time
<1>4. /\ thread' \in Thread /\ thread'.pc = "action" /\ thread'.d = thread.d
      /\ thread'.t = <<e>> /\ thread'.u = thread.u
  <2>1. thread' = ThreadOf("action", thread.d, <<e>>, thread.u)
    BY <1>1, ThreadParts DEF ThreadOf
  <2>2. <<e>> \in {<<>>} \cup [1..1 -> Entry]
    BY <1>3, ActiveEntry
  <2> QED BY <2>1, <2>2, ThreadParts, ThreadMade DEF ThreadAt
<1>5. /\ Active' = e /\ thread'.t # <<>>
      /\ \A i \in Timer : ActiveIs(i)' <=> i = e.id
      /\ \A i \in Timer : ~ActiveIs(i)
  <2>1. Active' = e /\ thread'.t # <<>>
    BY <1>3, <1>4, ActiveEntry DEF Active
  <2>2. \A i \in Timer : ~ActiveIs(i)
    BY <1>1 DEF ActiveIs, TimersInv, ThreadPlaces
  <2> QED BY <2>1, <2>2 DEF ActiveIs
<1>6. InList(e.id)
  <2>1. 1 \in 1..Len(timers)
    BY <1>1 DEF TimersInv, TimersTypeOK
  <2> QED BY <2>1 DEF InList
<1> HIDE DEF e
<1>7. TimersTypeOK'
  <2>1. Len(timers') <= MAX_TIMERS /\ Len(timers') <= capacity'
    BY <1>1, <1>2, TimersAssumption, ThreadParts DEF TimersInv, TimersTypeOK
  <2> QED BY <1>1, <1>2, <1>4, <2>1 DEF TimersInv, TimersTypeOK
<1>8. NotBeforeTime' /\ ThreadPlaces'
  <2>1. e.time <= now
    BY <1>1, <1>3, ThreadParts DEF e, TimersInv, ThreadPlaces
  <2> QED BY <1>1, <1>4, <1>5, <2>1 DEF TimersInv, NotBeforeTime, ThreadPlaces
<1>9. OnePlace'
  BY <1>1, <1>2, <1>3, <1>5, <1>6 DEF e, TimersInv, OnePlace
<1>10. GivenUpOnce'
  <2>1. \A i \in Timer : (Live(i) <=> InList(i)) /\ (Live(i)' <=> InList(i)')
    BY <1>1, <1>4, AllLive
  <2> QED BY <1>1, <1>2, <1>3, <1>5, <1>6, <2>1 DEF e, TimersInv, GivenUpOnce
<1> QED BY <1>2, <1>7, <1>8, <1>9, <1>10 DEF TimersInv

\* The timer thread reads the clock, sees the stop flag, or ends its last loop.
LEMMA ThreadMovesKeeps ==
    ASSUME TimersInv, Sleep \/ SeeStop \/ (Drain /\ thread.u >= Len(timers)) PROVE TimersInv'
<1>1. /\ UNCHANGED <<now, allocated, timers, capacity, adder, stopping, cancelled, addedLate>>
      /\ \/ thread.pc = "loop" /\ thread' = [thread EXCEPT !.d = now]
         \/ thread.pc = "loop" /\ stopping /\ thread' = [thread EXCEPT !.pc = "drain", !.u = 0]
         \/ /\ thread.pc = "drain" /\ thread.u >= Len(timers)
            /\ thread' = [thread EXCEPT !.pc = "ended"]
  BY ThreadParts DEF Sleep, SeeStop, Drain
<1>2. /\ thread' \in Thread /\ thread'.t = thread.t
      /\ \/ thread.pc = "loop" /\ thread'.pc = "loop" /\ thread'.d = now /\ thread'.u = thread.u
         \/ /\ thread.pc = "loop" /\ stopping /\ thread'.pc = "drain" /\ thread'.d = thread.d
            /\ thread'.u = 0
         \/ /\ thread.pc = "drain" /\ thread.u >= Len(timers) /\ thread'.pc = "ended"
            /\ thread'.d = thread.d /\ thread'.u = thread.u
  <2>1. \/ thread' = ThreadOf("loop", now, thread.t, thread.u) /\ thread.pc = "loop"
        \/ thread' = ThreadOf("drain", thread.d, thread.t, 0) /\ thread.pc = "loop" /\ stopping
        \/ /\ thread' = ThreadOf("ended", thread.d, thread.t, thread.u)
           /\ thread.pc = "drain" /\ thread.u >= Len(timers)
    BY <1>1, ThreadParts DEF ThreadOf
  <2>2. now \in Time
    BY DEF TimersInv, TimersTypeOK
  <2> QED BY <2>1, <2>2, ThreadParts, ThreadMade, SMTT(40) DEF ThreadAt
<1>3. /\ Active' = Active
      /\ \A i \in Timer : ActiveIs(i)' <=> ActiveIs(i)
      /\ \A i \in Timer : InList(i)' <=> InList(i)
      /\ \A i \in Timer : Live(i)' <=> Live(i)
      /\ TimersSorted' /\ NoTimerTwice'
  <2>1. /\ Active' = Active /\ \A i \in Timer : ActiveIs(i)' <=> ActiveIs(i)
    BY <1>1, <1>2 DEF Active, ActiveIs
  <2>2. \A i \in Timer : InList(i)' <=> InList(i)
    BY <1>1 DEF InList
  <2>3. \A i \in Timer : Live(i)' <=> Live(i)
    BY <1>1, <1>2 DEF Live
  <2>4. TimersSorted' /\ NoTimerTwice'
    BY <1>1 DEF TimersInv, TimersSorted, OnePlace, NoTimerTwice
  <2> QED BY <2>1, <2>2, <2>3, <2>4
<1>4. TimersTypeOK'
  BY <1>1, <1>2 DEF TimersInv, TimersTypeOK
<1>5. NotBeforeTime' /\ ThreadPlaces'
  BY <1>1, <1>2, <1>3, ThreadParts DEF TimersInv, NotBeforeTime, ThreadPlaces
<1>6. OnePlace' /\ GivenUpOnce'
  BY <1>1, <1>3 DEF TimersInv, OnePlace, GivenUpOnce
<1> QED BY <1>3, <1>4, <1>5, <1>6 DEF TimersInv

\* The action is to be called again: the timer stays the active one, with its next time.
LEMMA ActionAgainKeeps == TimersInv /\ ActionAgain => TimersInv'
<1> SUFFICES ASSUME TimersInv, ActionAgain PROVE TimersInv'
  OBVIOUS
<1> DEFINE e == [Active EXCEPT !.time = NextTime]
<1>1. /\ thread.pc = "action" /\ Period[Active.id] > 0 /\ NextTime <= MaxTime
      /\ thread' = [thread EXCEPT !.pc = "readd", !.t = <<e>>]
      /\ UNCHANGED <<now, allocated, timers, capacity, adder, stopping, cancelled, addedLate>>
  BY DEF ActionAgain
<1>2. Active \in Entry /\ Active.id \in Timer /\ Active.time \in Nat
  BY <1>1, ThreadParts, TimersAssumption DEF TimersInv, ThreadPlaces, Time
<1>3. e \in Entry /\ e.id = Active.id
  <2>1. NextTime \in Time
    BY <1>1, <1>2, ThreadParts, TimersAssumption DEF NextTime, Time
  <2> QED BY <1>2, <2>1 DEF Entry
<1> HIDE DEF e
<1>4. /\ thread' \in Thread /\ thread'.pc = "readd" /\ thread'.d = thread.d
      /\ thread'.t = <<e>> /\ thread'.u = thread.u
  <2>1. thread' = ThreadOf("readd", thread.d, <<e>>, thread.u)
    BY <1>1, ThreadParts DEF ThreadOf
  <2>2. <<e>> \in {<<>>} \cup [1..1 -> Entry]
    BY <1>3, ActiveEntry
  <2> QED BY <2>1, <2>2, ThreadParts, ThreadMade DEF ThreadAt
<1>5. /\ Active' = e /\ thread'.t # <<>>
      /\ \A i \in Timer : ActiveIs(i)' <=> ActiveIs(i)
  <2>1. Active' = e /\ thread'.t # <<>>
    BY <1>3, <1>4, ActiveEntry DEF Active
  <2>2. thread.t # <<>>
    BY <1>1 DEF TimersInv, ThreadPlaces
  <2> QED BY <1>3, <2>1, <2>2 DEF ActiveIs
<1>6. /\ \A i \in Timer : (InList(i)' <=> InList(i)) /\ (Live(i)' <=> Live(i))
      /\ TimersSorted' /\ NoTimerTwice'
  BY <1>1, <1>4 DEF InList, Live, TimersInv, TimersSorted, OnePlace, NoTimerTwice
<1>7. TimersTypeOK'
  BY <1>1, <1>4 DEF TimersInv, TimersTypeOK
<1>8. NotBeforeTime' /\ ThreadPlaces'
  BY <1>1, <1>3, <1>4, <1>5 DEF TimersInv, NotBeforeTime, ThreadPlaces
<1>9. OnePlace' /\ GivenUpOnce'
  BY <1>1, <1>5, <1>6 DEF TimersInv, OnePlace, GivenUpOnce
<1> QED BY <1>6, <1>7, <1>8, <1>9 DEF TimersInv

\* The thread is back in its loop, without an active timer.
LEMMA BackInLoop ==
    ASSUME TimersInv, thread' = [thread EXCEPT !.pc = "loop", !.t = <<>>]
    PROVE  /\ thread' \in Thread /\ thread'.pc = "loop" /\ thread'.d = thread.d
           /\ thread'.t = <<>> /\ thread'.u = thread.u
           /\ \A i \in Timer : ~ActiveIs(i)'
<1>1. thread' = ThreadOf("loop", thread.d, <<>>, thread.u)
  BY ThreadParts DEF ThreadOf
<1>2. /\ thread' \in Thread /\ thread'.pc = "loop" /\ thread'.d = thread.d
      /\ thread'.t = <<>> /\ thread'.u = thread.u
  <2>1. <<>> \in {<<>>} \cup [1..1 -> Entry] /\ "loop" \in ThreadAt
    BY DEF ThreadAt
  <2>2. thread.d \in Time /\ thread.u \in Nat
    BY ThreadParts
  <2>3. ThreadOf("loop", thread.d, <<>>, thread.u) \in Thread
    BY <2>1, <2>2, ThreadMade
  <2> QED BY <1>1, <2>3 DEF ThreadOf
<1> QED BY <1>2 DEF ActiveIs

\* The action was the last one, and its timer is given up.
LEMMA ActionLastKeeps == TimersInv /\ ActionLast => TimersInv'
<1> SUFFICES ASSUME TimersInv, ActionLast PROVE TimersInv'
  OBVIOUS
<1>1. /\ thread.pc = "action" /\ cancelled' = [cancelled EXCEPT ![Active.id] = @ + 1]
      /\ thread' = [thread EXCEPT !.pc = "loop", !.t = <<>>]
      /\ UNCHANGED <<now, allocated, timers, capacity, adder, stopping, addedLate>>
  BY DEF ActionLast
<1>2. Active.id \in Timer /\ thread.t # <<>> /\ ActiveIs(Active.id)
      /\ \A i \in Timer : ActiveIs(i) <=> i = Active.id
  BY <1>1, ThreadParts DEF TimersInv, ThreadPlaces, ActiveIs
<1>3. /\ thread' \in Thread /\ thread'.pc = "loop" /\ thread'.d = thread.d
      /\ thread'.t = <<>> /\ thread'.u = thread.u
      /\ \A i \in Timer : ~ActiveIs(i)'
  BY <1>1, BackInLoop
<1>4. /\ cancelled \in [Timer -> Nat] /\ cancelled' \in [Timer -> Nat]
      /\ cancelled'[Active.id] = cancelled[Active.id] + 1
      /\ \A i \in Timer : i # Active.id => cancelled'[i] = cancelled[i]
  BY <1>1, <1>2 DEF TimersInv, TimersTypeOK
<1>5. /\ \A i \in Timer : (InList(i)' <=> InList(i)) /\ (Live(i)' <=> Live(i))
      /\ \A i \in Timer : Live(i) <=> InList(i)
      /\ TimersSorted' /\ NoTimerTwice'
  BY <1>1, <1>3, AllLive DEF InList, Live, TimersInv, TimersSorted, OnePlace, NoTimerTwice
<1>6. TimersTypeOK'
  BY <1>1, <1>3, <1>4 DEF TimersInv, TimersTypeOK
<1>7. NotBeforeTime' /\ ThreadPlaces'
  BY <1>1, <1>3 DEF TimersInv, NotBeforeTime, ThreadPlaces
<1>8. OnePlace'
  BY <1>1, <1>3, <1>5 DEF TimersInv, OnePlace
<1>9. GivenUpOnce'
  <2> SUFFICES ASSUME ~addedLate', NEW j \in Timer
               PROVE  /\ cancelled'[j] <= 1
                      /\ cancelled'[j] = 1 => ~Live(j)' /\ ~ActiveIs(j)' /\ adder'[j].pc = "accepted"
                      /\ adder'[j].pc = "accepted" /\ Period[j] = 0
                            => Live(j)' \/ ActiveIs(j)' \/ cancelled'[j] = 1
    BY DEF GivenUpOnce
  <2>1. /\ cancelled[j] <= 1
        /\ cancelled[j] = 1 => ~Live(j) /\ ~ActiveIs(j) /\ adder[j].pc = "accepted"
        /\ adder[j].pc = "accepted" /\ Period[j] = 0 => Live(j) \/ ActiveIs(j) \/ cancelled[j] = 1
    BY <1>1 DEF TimersInv, GivenUpOnce
  <2>2. CASE j = Active.id
    <3>1. cancelled[j] = 0
      BY <1>2, <1>4, <2>1, <2>2
    <3>2. ~InList(j) /\ adder[j].pc = "accepted"
      BY <1>2, <2>2 DEF TimersInv, OnePlace
    <3> QED BY <1>1, <1>3, <1>4, <1>5, <2>2, <3>1, <3>2
  <2>3. CASE j # Active.id
    BY <1>1, <1>2, <1>3, <1>4, <1>5, <2>1, <2>3
  <2> QED BY <2>2, <2>3
<1> QED BY <1>5, <1>6, <1>7, <1>8, <1>9 DEF TimersInv

\* A periodic timer is put back into the list, or forgotten when there is no room.
LEMMA ReaddKeeps == TimersInv /\ Readd => TimersInv'
<1> SUFFICES ASSUME TimersInv, Readd PROVE TimersInv'
  OBVIOUS
<1>1. /\ thread.pc = "readd" /\ (AddEntry(Active) \/ AddFails)
      /\ thread' = [thread EXCEPT !.pc = "loop", !.t = <<>>]
      /\ UNCHANGED <<now, allocated, adder, stopping, cancelled, addedLate>>
  BY DEF Readd
<1>2. /\ Active \in Entry /\ Active.id \in Timer /\ thread.t # <<>> /\ Period[Active.id] > 0
      /\ \A i \in Timer : ActiveIs(i) <=> i = Active.id
      /\ Period[Active.id] \in Nat
  BY <1>1, ThreadParts, TimersAssumption DEF TimersInv, ThreadPlaces, ActiveIs
<1>3. /\ thread' \in Thread /\ thread'.pc = "loop" /\ thread'.d = thread.d
      /\ thread'.t = <<>> /\ thread'.u = thread.u
      /\ \A i \in Timer : ~ActiveIs(i)'
  BY <1>1, BackInLoop
<1>4. ~InList(Active.id) /\ adder[Active.id].pc = "accepted"
  BY <1>2 DEF TimersInv, OnePlace
<1>5. /\ timers' \in Seq(Entry) /\ Len(timers') <= MAX_TIMERS
      /\ capacity' \in Nat /\ Len(timers') <= capacity'
      /\ TimersSorted' /\ NoTimerTwice'
      /\ \/ \A i \in Timer : InList(i)' <=> InList(i) \/ i = Active.id
         \/ \A i \in Timer : InList(i)' <=> InList(i)
  <2>1. CASE AddEntry(Active)
    BY <1>2, <1>4, <2>1, EntryAdded
  <2>2. CASE AddFails
    BY <2>2 DEF AddFails, TimersInv, TimersTypeOK, TimersSorted, OnePlace, NoTimerTwice, InList
  <2> QED BY <1>1, <2>1, <2>2
<1>6. TimersTypeOK'
  BY <1>1, <1>3, <1>5 DEF TimersInv, TimersTypeOK
<1>7. NotBeforeTime' /\ ThreadPlaces'
  BY <1>1, <1>3 DEF TimersInv, NotBeforeTime, ThreadPlaces
<1>8. OnePlace'
  BY <1>1, <1>3, <1>4, <1>5 DEF TimersInv, OnePlace
<1>9. GivenUpOnce'
  <2>1. \A i \in Timer : (Live(i) <=> InList(i)) /\ (Live(i)' <=> InList(i)')
    BY <1>1, <1>3, AllLive
  <2>2. Period[Active.id] # 0
    BY <1>2
  <2> QED BY <1>1, <1>2, <1>3, <1>5, <2>1, <2>2 DEF TimersInv, GivenUpOnce
<1> QED BY <1>5, <1>6, <1>7, <1>8, <1>9 DEF TimersInv

\* The last loop gives up the next timer of the list.
LEMMA DrainKeeps == ASSUME TimersInv, Drain, thread.u < Len(timers) PROVE TimersInv'
<1> DEFINE e == timers[thread.u + 1]
<1>1. /\ thread.pc = "drain" /\ cancelled' = [cancelled EXCEPT ![e.id] = @ + 1]
      /\ thread' = [thread EXCEPT !.u = @ + 1]
      /\ UNCHANGED <<now, allocated, timers, capacity, adder, stopping, addedLate>>
  BY DEF Drain
<1>2. thread.u + 1 \in 1..Len(timers) /\ e \in Entry /\ e.id \in Timer /\ thread.u \in Nat
  <2>1. thread.u + 1 \in 1..Len(timers) /\ thread.u \in Nat
    BY ThreadParts
  <2>2. e \in Entry
    BY <2>1 DEF TimersInv, TimersTypeOK
  <2> QED BY <2>1, <2>2 DEF Entry
<1>3. /\ thread' \in Thread /\ thread'.pc = "drain" /\ thread'.d = thread.d
      /\ thread'.t = thread.t /\ thread'.u = thread.u + 1
  <2>1. thread' = ThreadOf("drain", thread.d, thread.t, thread.u + 1)
    BY <1>1, ThreadParts DEF ThreadOf
  <2>2. thread.u + 1 \in Nat
    BY <1>2
  <2> QED BY <2>1, <2>2, ThreadParts, ThreadMade DEF ThreadAt
<1>4. /\ Active' = Active
      /\ \A i \in Timer : ActiveIs(i)' <=> ActiveIs(i)
      /\ \A i \in Timer : InList(i)' <=> InList(i)
      /\ TimersSorted' /\ NoTimerTwice'
  BY <1>1, <1>3 DEF Active, ActiveIs, InList, TimersInv, TimersSorted, OnePlace, NoTimerTwice
<1>5. \A i \in Timer : Live(i)' <=> Live(i) /\ i # e.id
  <2> DEFINE n == Len(timers)
             u == thread.u
  <2>1. n \in Nat /\ u \in Nat
    BY <1>2, ThreadParts
  <2>2. /\ \A i \in Timer : Live(i) <=> \E k \in (u + 1)..n : timers[k].id = i
        /\ \A i \in Timer : Live(i)' <=> \E k \in (u + 1 + 1)..n : timers[k].id = i
    BY <1>1, <1>3 DEF Live
  <2>3. \A k \in (u + 1)..n : k \in 1..n /\ (k = u + 1 \/ k \in (u + 1 + 1)..n)
    BY <2>1
  <2>4. \A k \in (u + 1 + 1)..n : k \in (u + 1)..n /\ k # u + 1
    BY <2>1
  <2>5. \A k \in 1..n : timers[k].id = e.id => k = u + 1
    BY <1>2 DEF TimersInv, OnePlace, NoTimerTwice
  <2> HIDE DEF n, u
  <2>6. ASSUME NEW i \in Timer, Live(i)' PROVE Live(i) /\ i # e.id
    <3>1. PICK k \in (u + 1 + 1)..n : timers[k].id = i
      BY <2>2, <2>6
    <3> QED BY <2>2, <2>3, <2>4, <2>5, <3>1
  <2>7. ASSUME NEW i \in Timer, Live(i), i # e.id PROVE Live(i)'
    <3>1. PICK k \in (u + 1)..n : timers[k].id = i
      BY <2>2, <2>7
    <3>2. k # u + 1
      BY <2>7, <3>1 DEF u
    <3> QED BY <2>2, <2>3, <3>1, <3>2
  <2> QED BY <2>6, <2>7
<1>6. Live(e.id)
  <2>1. thread.u + 1 \in (thread.u + 1)..Len(timers)
    BY <1>2, ThreadParts
  <2> QED BY <1>1, <2>1 DEF Live
<1>7. InList(e.id)
  BY <1>2 DEF InList
<1> HIDE DEF e
<1>8. /\ cancelled \in [Timer -> Nat] /\ cancelled' \in [Timer -> Nat]
      /\ cancelled'[e.id] = cancelled[e.id] + 1
      /\ \A i \in Timer : i # e.id => cancelled'[i] = cancelled[i]
  BY <1>1, <1>2 DEF TimersInv, TimersTypeOK
<1>9. TimersTypeOK'
  BY <1>1, <1>3, <1>8 DEF TimersInv, TimersTypeOK
<1>10. NotBeforeTime' /\ ThreadPlaces'
  BY <1>1, <1>3, <1>4 DEF TimersInv, NotBeforeTime, ThreadPlaces
<1>11. OnePlace'
  BY <1>1, <1>4 DEF TimersInv, OnePlace
<1>12. GivenUpOnce'
  <2> SUFFICES ASSUME ~addedLate', NEW j \in Timer
               PROVE  /\ cancelled'[j] <= 1
                      /\ cancelled'[j] = 1 => ~Live(j)' /\ ~ActiveIs(j)' /\ adder'[j].pc = "accepted"
                      /\ adder'[j].pc = "accepted" /\ Period[j] = 0
                            => Live(j)' \/ ActiveIs(j)' \/ cancelled'[j] = 1
    BY DEF GivenUpOnce
  <2>1. /\ cancelled[j] <= 1
        /\ cancelled[j] = 1 => ~Live(j) /\ ~ActiveIs(j) /\ adder[j].pc = "accepted"
        /\ adder[j].pc = "accepted" /\ Period[j] = 0 => Live(j) \/ ActiveIs(j) \/ cancelled[j] = 1
    BY <1>1 DEF TimersInv, GivenUpOnce
  <2>2. CASE j = e.id
    <3>1. cancelled[j] = 0
      BY <1>6, <1>8, <2>1, <2>2
    <3>2. ~ActiveIs(j) /\ adder[j].pc = "accepted"
      BY <1>7, <2>2 DEF TimersInv, OnePlace
    <3> QED BY <1>1, <1>4, <1>5, <1>8, <2>2, <3>1, <3>2
  <2>3. CASE j # e.id
    BY <1>1, <1>4, <1>5, <1>8, <2>1, <2>3
  <2> QED BY <2>2, <2>3
<1> QED BY <1>4, <1>9, <1>10, <1>11, <1>12 DEF TimersInv

\* timers_exit frees a list in which the last loop has left nothing.
LEMMA TimersExitKeeps == TimersInv /\ TimersExit => TimersInv'
<1> SUFFICES ASSUME TimersInv, TimersExit PROVE TimersInv'
  OBVIOUS
<1>1. /\ thread.pc = "ended" /\ stopping /\ allocated' = FALSE /\ timers' = <<>> /\ capacity' = 0
      /\ UNCHANGED <<now, adder, thread, stopping, cancelled, addedLate>>
  BY DEF TimersExit
<1>2. Len(timers') = 0 /\ timers' \in Seq(Entry)
  BY <1>1
<1>3. /\ Active' = Active /\ \A i \in Timer : ActiveIs(i)' <=> ActiveIs(i)
      /\ \A i \in Timer : ~InList(i)' /\ ~Live(i)'
      /\ TimersSorted' /\ NoTimerTwice'
  <2>1. Active' = Active /\ \A i \in Timer : ActiveIs(i)' <=> ActiveIs(i)
    BY <1>1 DEF Active, ActiveIs
  <2>2. \A x \in Nat : (x + 1)..0 = {} /\ 1..0 = {}
    OBVIOUS
  <2>3. TimersSorted' /\ NoTimerTwice' /\ \A i \in Timer : ~InList(i)'
    BY <1>2, <2>2 DEF TimersSorted, NoTimerTwice, InList
  <2>4. thread'.u \in Nat
    BY <1>1, ThreadParts
  <2>5. \A i \in Timer : ~Live(i)'
    BY <1>2, <2>2, <2>4 DEF Live
  <2> QED BY <2>1, <2>3, <2>5
<1>4. ~addedLate => \A i \in Timer : ~Live(i)
  <2> SUFFICES ASSUME ~addedLate, NEW i \in Timer PROVE ~Live(i)
    OBVIOUS
  <2>1. (thread.u + 1)..Len(timers) = {}
    BY <1>1, ThreadParts DEF TimersInv, ThreadPlaces
  <2> QED BY <1>1, <2>1 DEF Live
<1>5. TimersTypeOK'
  <2>1. 0 <= MAX_TIMERS /\ 0 \in Nat /\ 0 <= 0
    BY TimersAssumption
  <2> QED BY <1>1, <1>2, <2>1 DEF TimersInv, TimersTypeOK
<1>6. NotBeforeTime' /\ ThreadPlaces'
  BY <1>1, <1>2, <1>3, ThreadParts DEF TimersInv, NotBeforeTime, ThreadPlaces
<1>7. OnePlace' /\ GivenUpOnce'
  BY <1>1, <1>3, <1>4 DEF TimersInv, OnePlace, GivenUpOnce
<1> QED BY <1>3, <1>5, <1>6, <1>7 DEF TimersInv

\* Every step that concerns the timers keeps their invariant.
LEMMA TimersStepInv == TimersInv /\ (TimersNext \/ UNCHANGED timerVars) => TimersInv'
<1> SUFFICES ASSUME TimersInv, TimersNext \/ UNCHANGED timerVars PROVE TimersInv'
  OBVIOUS
<1>1. CASE UNCHANGED timerVars
  <2>1. UNCHANGED <<now, allocated, timers, capacity, adder, thread, stopping, cancelled, addedLate>>
    BY <1>1 DEF timerVars
  <2> QED BY <2>1, SamePlaces DEF TimersInv, TimersTypeOK, NotBeforeTime, ThreadPlaces, OnePlace,
                                   GivenUpOnce
<1>2. CASE Drain
  <2>1. thread.u < Len(timers) \/ thread.u >= Len(timers)
    BY ThreadParts
  <2> QED BY <1>2, <2>1, DrainKeeps, ThreadMovesKeeps
<1>3. CASE LoopStep
  BY <1>2, <1>3, TakeTimerKeeps, ReaddKeeps, ThreadMovesKeeps DEF LoopStep
<1> QED BY <1>1, <1>3, TickKeeps, StopKeeps, TimersExitKeeps, ActionAgainKeeps, ActionLastKeeps,
           TimerInsertKeeps, AddKeeps DEF TimersNext

\* There is no timer at the start.
LEMMA TimersInitial == TimersInit => TimersInv
<1> SUFFICES ASSUME TimersInit PROVE TimersInv
  OBVIOUS
<1>1. 0 \in Time
  BY TimersAssumption DEF Time
<1>2. thread \in Thread /\ adder \in [Timer -> Adder] /\ timers \in Seq(Entry) /\ Len(timers) = 0
  BY <1>1 DEF TimersInit, Thread, Adder
<1>3. TimersTypeOK
  <2>1. 0 <= MAX_TIMERS /\ 0 \in Nat /\ 0 <= 0
    BY TimersAssumption
  <2> QED BY <1>1, <1>2, <2>1 DEF TimersInit, TimersTypeOK
<1>4. 1..Len(timers) = {}
  BY <1>2
<1>5. \A i \in Timer : ~InList(i) /\ ~ActiveIs(i) /\ adder[i].pc = "idle" /\ cancelled[i] = 0
  BY <1>4 DEF InList, ActiveIs, TimersInit
<1>6. TimersSorted /\ NoTimerTwice
  BY <1>4 DEF TimersSorted, NoTimerTwice
<1>7. NotBeforeTime /\ ThreadPlaces
  BY DEF TimersInit, NotBeforeTime, ThreadPlaces
<1> QED BY <1>3, <1>5, <1>6, <1>7 DEF TimersInv, OnePlace, GivenUpOnce

\* Every step of a request, of the timer thread and of mg_stop is one of these, or leaves
\* the timers alone.
LEMMA NextOfTimers == [Next]_vars => TimersNext \/ UNCHANGED timerVars
<1> SUFFICES ASSUME [Next]_vars PROVE TimersNext \/ UNCHANGED timerVars
  OBVIOUS
<1>1. ASSUME NEW c \in Cgi, WorkerStep(c) \/ Forwarded(c) PROVE TimersNext \/ UNCHANGED timerVars
  <2>1. c \in Timer
    BY CgiAssumption
  <2>2. CASE StartTimer(c)
    BY <2>1, <2>2 DEF StartTimer, TimersNext
  <2> QED BY <1>1, <2>2 DEF WorkerStep, Forwarded, Spawn, SpawnFails, WorkerAborts
<1>2. CASE TimerThread
  BY <1>2 DEF TimerThread, TimerAborts, TimersNext
<1>3. ASSUME NEW i \in Timer \ Cgi, OtherTimer(i) PROVE TimersNext
  BY <1>3 DEF OtherTimer, TimersNext
<1>4. CASE MgStop
  BY <1>4 DEF MgStop, TimersNext
<1>5. CASE Terminated \/ UNCHANGED vars \/ \E p \in Pid : ProcessExits(p) \/ ForeignStarts(p)
  BY <1>5 DEF Terminated, vars, ProcessExits, ForeignStarts
<1>6. CASE Tick
  BY <1>6 DEF TimersNext
<1> QED BY <1>1, <1>2, <1>3, <1>4, <1>5, <1>6 DEF Next

\* The number of positions that satisfy a condition at most one of them can satisfy.
LEMMA AtMostOnePosition ==
    ASSUME NEW S, \A i, j \in S : i = j
    PROVE  Cardinality(S) = IF S = {} THEN 0 ELSE 1
<1>1. CASE S = {}
  BY <1>1, FS_EmptySet
<1>2. CASE S # {}
  <2>1. PICK x \in S : TRUE
    BY <1>2
  <2>2. S = {x}
    BY <2>1
  <2> QED BY <1>2, <2>2, FS_Singleton
<1> QED BY <1>1, <1>2

\* Listed counts the positions of a timer: there is one when it is live.
LEMMA ListedIsLive == ASSUME TimersInv, NEW i \in Timer PROVE Listed(i) = IF Live(i) THEN 1 ELSE 0
<1> DEFINE first == IF thread.pc \in {"drain", "ended"} THEN thread.u + 1 ELSE 1
           S == {k \in first..Len(timers) : timers[k].id = i}
<1>1. first..Len(timers) \subseteq 1..Len(timers)
  BY ThreadParts
<1>2. \A j, k \in S : j = k
  BY <1>1 DEF TimersInv, OnePlace, NoTimerTwice
<1>3. Live(i) <=> S # {}
  BY DEF Live
<1>4. Listed(i) = Cardinality(S)
  BY DEF Listed
<1> HIDE DEF S
<1> QED BY <1>2, <1>3, <1>4, AtMostOnePosition

\* The timers are sorted, start no action before its time, and end once: for any timers and
\* threads, any capacity of the list, and wherever the stop of the server falls.
THEOREM TimersAreExact == Spec => []TimersExact
<1>1. TimersInv => TimersExact
  <2> SUFFICES ASSUME TimersInv PROVE EndsOnce
    BY DEF TimersInv, TimersExact
  <2> SUFFICES ASSUME ~addedLate, NEW i \in Timer, adder[i].pc = "accepted"
               PROVE  LET places == Listed(i) + cancelled[i]
                                    + IF thread.t # <<>> /\ Active.id = i THEN 1 ELSE 0
                      IN  places <= 1 /\ (Period[i] = 0 => places = 1)
    BY DEF EndsOnce
  <2>1. Listed(i) = IF Live(i) THEN 1 ELSE 0
    BY ListedIsLive
  <2>2. cancelled[i] \in {0, 1}
    BY DEF TimersInv, TimersTypeOK, GivenUpOnce
  <2>3. /\ cancelled[i] = 1 => ~Live(i) /\ ~ActiveIs(i)
        /\ Period[i] = 0 => Live(i) \/ ActiveIs(i) \/ cancelled[i] = 1
    BY DEF TimersInv, GivenUpOnce
  <2>4. Live(i) => ~ActiveIs(i)
    <3>1. Live(i) => InList(i)
      BY ThreadParts DEF Live, InList
    <3> QED BY <3>1 DEF TimersInv, OnePlace
  <2> QED BY <2>1, <2>2, <2>3, <2>4 DEF ActiveIs
<1>2. Init => TimersInv
  BY TimersInitial DEF Init
<1>3. TimersInv /\ [Next]_vars => TimersInv'
  BY TimersStepInv, NextOfTimers
<1> QED BY <1>1, <1>2, <1>3, PTL DEF Spec
-----------------------------------------------------------------------------
(* CgiProcess *)

CgiTypeOK ==
    /\ process \in [Pid -> Process]
    /\ proc \in [Cgi -> ProcState]
    /\ worker \in [Cgi -> {"start", "timer", "run", "done"} \cup AbortStep]
    /\ aborter \in {"none", "returned"} \cup AbortStep
    /\ killed \subseteq Cgi \X (Cgi \cup {"foreign"})

\* The worker has a pointer to the process data; so has the timer, from the call of timer_add
\* on, and in the list also after the last loop has passed it.
WorkerHolds(c) == worker[c] \in {"timer", "run"} \cup AbortStep
TimerRefers(c) == \/ worker[c] = "timer" /\ adder[c].pc = "idle"
                  \/ adder[c].pc = "insert"
                  \/ InList(c)
                  \/ ActiveIs(c) /\ aborter # "returned"
Held(c) == (IF WorkerHolds(c) THEN 1 ELSE 0) + (IF TimerRefers(c) THEN 1 ELSE 0)

\* No pointer without a reference, and as long as timers can be added and are called, no
\* reference without a pointer; the data is freed when there is no reference left.
ReferencesExact(c) ==
    /\ Held(c) <= proc[c].references
    /\ ~stopping /\ adder[c].pc # "rejected" => proc[c].references = Held(c)
    /\ proc[c].freed <=> proc[c].pid # "none" /\ proc[c].references = 0

\* Nothing happens for a request before its process is there.
RequestPlaces(c) ==
    /\ worker[c] = "start" => /\ adder[c].pc = "idle" /\ proc[c].pid = "none"
                              /\ proc[c].references = 0
    /\ WorkerHolds(c) \/ adder[c].pc # "idle" => proc[c].pid # "none"

\* A process that its request has not waited for is under the pid that the request knows.
ChildPlaces ==
    \A c \in Cgi, p \in Pid :
        process[p].owner = c => /\ proc[c].pid = p
                                /\ worker[c] \in {"timer", "run", "check", "kill", "wait"}

\* The timer thread is in abort_cgi_process only for an active timer of a request.
AborterPlaces == aborter # "none" => thread.pc = "action" /\ Active.id \in Cgi

CgiInv ==
    /\ CgiTypeOK /\ ChildPlaces /\ AborterPlaces
    /\ \A c \in Cgi : ReferencesExact(c) /\ RequestPlaces(c)

\* A request of which nothing changes but, perhaps, that its timer no longer refers to it.
SameReferences(c) ==
    /\ TimerRefers(c)' => TimerRefers(c)
    /\ ~stopping' /\ adder'[c].pc # "rejected" =>
         ~stopping /\ adder[c].pc # "rejected" /\ (TimerRefers(c)' <=> TimerRefers(c))

\* Such a request keeps its references.
LEMMA ReferencesKept ==
    ASSUME CgiInv, NEW c \in Cgi, SameReferences(c), proc'[c] = proc[c],
           WorkerHolds(c)' <=> WorkerHolds(c)
    PROVE  ReferencesExact(c)'
<1>1. proc[c].references \in Nat
  BY DEF CgiInv, CgiTypeOK, ProcState
<1>2. Held(c) \in Nat /\ Held(c)' <= Held(c) /\ (SameReferences(c) /\ ~stopping'
        /\ adder'[c].pc # "rejected" => Held(c)' = Held(c))
  BY DEF Held, SameReferences
<1>3. Held(c)' \in Nat
  BY DEF Held
<1> QED BY <1>1, <1>2, <1>3 DEF CgiInv, ReferencesExact, SameReferences

\* A step that leaves processes and workers alone keeps the invariant of the requests.
LEMMA CgiFrame ==
    ASSUME CgiInv, UNCHANGED <<process, proc, worker, killed>>,
           aborter' \in {"none", "returned"} \cup AbortStep, AborterPlaces',
           \A c \in Cgi : SameReferences(c),
           \A c \in Cgi : adder'[c].pc # "idle" => adder[c].pc # "idle" \/ worker[c] = "timer"
    PROVE  CgiInv'
<1>1. CgiTypeOK' /\ ChildPlaces'
  BY DEF CgiInv, CgiTypeOK, ChildPlaces
<1>2. ASSUME NEW c \in Cgi PROVE ReferencesExact(c)' /\ RequestPlaces(c)'
  <2>1. WorkerHolds(c)' <=> WorkerHolds(c)
    BY DEF WorkerHolds
  <2>2. ReferencesExact(c)'
    BY <2>1, ReferencesKept
  <2>3. RequestPlaces(c)'
    BY <2>1 DEF CgiInv, RequestPlaces, WorkerHolds
  <2> QED BY <2>2, <2>3
<1> QED BY <1>1, <1>2 DEF CgiInv

\* What a step on the timers alone does to the references of the requests.
LEMMA TimersAndRequests ==
    ASSUME TimersInv, TimersInv', CgiInv, UNCHANGED cgiVars,
           \/ LoopStep \/ Tick \/ Stop \/ TimersExit
           \/ thread.pc = "action" /\ Active.id \notin Cgi /\ (ActionAgain \/ ActionLast)
    PROVE  CgiInv'
<1>u. UNCHANGED <<process, proc, worker, killed, aborter>>
  BY DEF cgiVars
<1>a. adder' = adder
  BY DEF LoopStep, TakeTimer, Readd, Sleep, SeeStop, Drain, Tick, Stop, TimersExit, ActionAgain,
         ActionLast
<1>c. \A c \in Cgi : c \in Timer /\ Period[c] = 0
  BY CgiAssumption
<1>s. stopping' = stopping \/ stopping' = TRUE
  BY DEF LoopStep, TakeTimer, Readd, Sleep, SeeStop, Drain, Tick, Stop, TimersExit, ActionAgain,
         ActionLast
<1>k. aborter' \in {"none", "returned"} \cup AbortStep
  BY <1>u DEF CgiInv, CgiTypeOK
<1>p. ASSUME AborterPlaces',
             \A c \in Cgi : /\ InList(c)' \/ (ActiveIs(c)' /\ aborter # "returned")
                                 => InList(c) \/ (ActiveIs(c) /\ aborter # "returned")
                            /\ ~stopping' /\ (InList(c) \/ (ActiveIs(c) /\ aborter # "returned"))
                                 => InList(c)' \/ (ActiveIs(c)' /\ aborter # "returned")
      PROVE  CgiInv'
  <2>1. \A c \in Cgi : SameReferences(c)
    BY <1>a, <1>s, <1>u, <1>p DEF SameReferences, TimerRefers
  <2> QED BY <1>a, <1>k, <1>p, <1>u, <2>1, CgiFrame
<1>1. CASE TakeTimer
  <2>1. /\ thread.pc = "loop" /\ timers # <<>> /\ timers' = Tail(timers)
        /\ thread' = [thread EXCEPT !.pc = "action", !.t = <<timers[1]>>]
    BY <1>1 DEF TakeTimer, Due
  <2>2. /\ timers[1] \in Entry
        /\ \A i \in Timer : InList(i)' <=> InList(i) /\ i # timers[1].id
    BY <2>1, TailKeeps DEF TimersInv, TimersTypeOK, OnePlace
  <2>3. aborter = "none"
    BY <2>1 DEF CgiInv, AborterPlaces
  <2>4. \A i \in Timer : ~ActiveIs(i)
    BY <2>1 DEF ActiveIs, TimersInv, ThreadPlaces
  <2>5. \A i \in Timer : ActiveIs(i)' <=> i = timers[1].id
    <3>1. thread'.t = <<timers[1]>>
      BY <2>1, ThreadParts DEF ThreadOf
    <3> QED BY <2>2, <3>1, ActiveEntry DEF ActiveIs, Active
  <2>6. InList(timers[1].id)
    <3>1. 1 \in 1..Len(timers)
      BY <2>1 DEF TimersInv, TimersTypeOK
    <3> QED BY <3>1 DEF InList
  <2> QED BY <1>c, <1>p, <1>u, <2>2, <2>3, <2>4, <2>5, <2>6 DEF AborterPlaces
<1>2. CASE Readd
  <2>1. /\ thread.pc = "readd" /\ (AddEntry(Active) \/ AddFails)
        /\ thread' = [thread EXCEPT !.pc = "loop", !.t = <<>>]
    BY <1>2 DEF Readd
  <2>2. /\ Active \in Entry /\ Active.id \in Timer /\ thread.t # <<>> /\ Period[Active.id] # 0
        /\ Active.id \notin Cgi
    BY <1>c, <2>1, ThreadParts, TimersAssumption DEF TimersInv, ThreadPlaces
  <2>3. \A c \in Cgi : ~ActiveIs(c) /\ ~ActiveIs(c)'
    BY <1>c, <2>1, <2>2, BackInLoop DEF ActiveIs
  <2>4. aborter = "none"
    BY <2>1 DEF CgiInv, AborterPlaces
  <2>5. \A c \in Cgi : InList(c)' <=> InList(c)
    <3>1. CASE AddEntry(Active)
      <4>1. ~InList(Active.id)
        BY <2>2 DEF TimersInv, OnePlace, ActiveIs
      <4> QED BY <1>c, <2>2, <3>1, <4>1, EntryAdded
    <3>2. CASE AddFails
      BY <3>2 DEF AddFails, InList
    <3> QED BY <2>1, <3>1, <3>2
  <2> QED BY <1>p, <1>u, <2>3, <2>4, <2>5 DEF AborterPlaces
<1>3. CASE Sleep \/ SeeStop \/ Drain \/ Tick \/ Stop
  <2>1. timers' = timers /\ thread'.t = thread.t /\ (thread'.pc # thread.pc => thread.pc # "action")
    BY <1>3, ThreadParts DEF Sleep, SeeStop, Drain, Tick, Stop, ThreadOf
  <2>2. \A i \in Timer : (InList(i)' <=> InList(i)) /\ (ActiveIs(i)' <=> ActiveIs(i))
    BY <2>1 DEF InList, ActiveIs, Active
  <2>3. AborterPlaces'
    BY <1>u, <2>1 DEF CgiInv, AborterPlaces, Active
  <2> QED BY <1>c, <1>p, <2>2, <2>3
<1>4. CASE TimersExit
  <2>1. timers' = <<>> /\ thread' = thread /\ stopping' /\ Len(timers') = 0
    BY <1>4 DEF TimersExit
  <2>2. \A i \in Timer : ~InList(i)' /\ (ActiveIs(i)' <=> ActiveIs(i))
    <3>1. 1..0 = {}
      OBVIOUS
    <3> QED BY <2>1, <3>1 DEF InList, ActiveIs, Active
  <2>3. AborterPlaces'
    BY <1>u, <2>1 DEF CgiInv, AborterPlaces, Active
  <2> QED BY <1>c, <1>p, <2>1, <2>2, <2>3
<1>5. CASE thread.pc = "action" /\ Active.id \notin Cgi /\ ActionLast
  <2>1. timers' = timers /\ thread' = [thread EXCEPT !.pc = "loop", !.t = <<>>]
    BY <1>5 DEF ActionLast
  <2>2. aborter = "none"
    BY <1>5 DEF CgiInv, AborterPlaces
  <2>3. \A c \in Cgi : ~ActiveIs(c) /\ ~ActiveIs(c)' /\ (InList(c)' <=> InList(c))
    BY <1>5, <1>c, <2>1, BackInLoop DEF ActiveIs, InList
  <2> QED BY <1>p, <1>u, <2>2, <2>3 DEF AborterPlaces
<1>6. CASE thread.pc = "action" /\ Active.id \notin Cgi /\ ActionAgain
  <2>1. timers' = timers /\ thread' = [thread EXCEPT !.pc = "readd",
                                                      !.t = <<[Active EXCEPT !.time = NextTime]>>]
    BY <1>6 DEF ActionAgain
  <2>2. aborter = "none"
    BY <1>6 DEF CgiInv, AborterPlaces
  <2>3. Active \in Entry
    BY <1>6, ThreadParts DEF TimersInv, ThreadPlaces
  <2>4. thread'.t = <<[Active EXCEPT !.time = NextTime]>>
    BY <2>1, ThreadParts DEF ThreadOf
  <2>5. Active' = [Active EXCEPT !.time = NextTime]
    BY <2>4 DEF Active
  <2>6. Active'.id = Active.id
    BY <2>3, <2>5 DEF Entry
  <2>7. \A c \in Cgi : ~ActiveIs(c) /\ ~ActiveIs(c)' /\ (InList(c)' <=> InList(c))
    BY <1>6, <2>1, <2>6 DEF ActiveIs, InList
  <2> QED BY <1>p, <1>u, <2>2, <2>7 DEF AborterPlaces
<1> QED BY <1>1, <1>2, <1>3, <1>4, <1>5, <1>6 DEF LoopStep

\* A request that the step does not change, and whose timer it does not touch, stays as it is.
LEMMA OtherRequest ==
    ASSUME CgiInv, NEW c \in Cgi, proc'[c] = proc[c], worker'[c] = worker[c],
           adder'[c] = adder[c], stopping' = stopping, TimerRefers(c)' <=> TimerRefers(c)
    PROVE  ReferencesExact(c)' /\ RequestPlaces(c)'
<1>1. WorkerHolds(c)' <=> WorkerHolds(c)
  BY DEF WorkerHolds
<1>2. ReferencesExact(c)'
  BY <1>1, ReferencesKept DEF SameReferences
<1>3. RequestPlaces(c)'
  BY <1>1 DEF CgiInv, RequestPlaces
<1> QED BY <1>2, <1>3

\* The process table and the pids of the requests, for any change of what the kernel knows of
\* one pid.
LEMMA TableMade ==
    ASSUME CgiInv, NEW p \in Pid, NEW x \in Process, process' = [process EXCEPT ![p] = x]
    PROVE  /\ process' \in [Pid -> Process] /\ process'[p] = x
           /\ \A q \in Pid : q # p => process'[q] = process[q]
  BY DEF CgiInv, CgiTypeOK

\* The processes there can be.
LEMMA Processes ==
    /\ NoProcess \in Process /\ [owner |-> "foreign", state |-> "running"] \in Process
    /\ NoProcess.owner = "none" /\ NoProcess.owner \notin Cgi /\ "foreign" \notin Cgi
    /\ \A c \in Cgi, s \in {"running", "exit0", "exit1"} : [owner |-> c, state |-> s] \in Process
    /\ \A x \in Process : /\ x.owner \in Cgi \cup {"foreign", "none"}
                          /\ x.owner \in Cgi => /\ x.state \in {"running", "exit0", "exit1"}
                                                /\ \A s \in {"exit0", "exit1"} :
                                                     [x EXCEPT !.state = s] \in Process
                                                     /\ [x EXCEPT !.state = s].owner = x.owner
  BY CgiAssumption DEF Process, NoProcess

\* A request starts: it finds no memory or no process, or it has one of its own.
LEMMA SpawnKeeps == ASSUME TimersInv, CgiInv, NEW c \in Cgi, Spawn(c) PROVE CgiInv'
<1>1. PICK p \in Pid, timeout \in BOOLEAN :
         /\ process[p] = NoProcess
         /\ process' = [process EXCEPT ![p] = [owner |-> c, state |-> "running"]]
         /\ proc' = [proc EXCEPT ![c] = [pid |-> p, references |-> IF timeout THEN 2 ELSE 1,
                                         freed |-> FALSE]]
         /\ worker' = [worker EXCEPT ![c] = IF timeout THEN "timer" ELSE "run"]
  BY DEF Spawn
<1>2. /\ worker[c] = "start"
      /\ UNCHANGED <<now, allocated, timers, capacity, adder, thread, stopping, cancelled,
                     addedLate, aborter, killed>>
  BY DEF Spawn, timerVars
<1>3. /\ process' \in [Pid -> Process] /\ process'[p] = [owner |-> c, state |-> "running"]
      /\ \A q \in Pid : q # p => process'[q] = process[q]
  BY <1>1, Processes, TableMade
<1>4. /\ proc'[c] = [pid |-> p, references |-> IF timeout THEN 2 ELSE 1, freed |-> FALSE]
      /\ worker'[c] = IF timeout THEN "timer" ELSE "run"
      /\ \A d \in Cgi : d # c => proc'[d] = proc[d] /\ worker'[d] = worker[d]
  BY <1>1 DEF CgiInv, CgiTypeOK
<1>5. CgiTypeOK'
  <2>1. proc' \in [Cgi -> ProcState]
    BY <1>1 DEF CgiInv, CgiTypeOK, ProcState
  <2>2. worker' \in [Cgi -> {"start", "timer", "run", "done"} \cup AbortStep]
    BY <1>1 DEF CgiInv, CgiTypeOK
  <2> QED BY <1>2, <1>3, <2>1, <2>2 DEF CgiInv, CgiTypeOK
<1>6. ChildPlaces'
  <2> SUFFICES ASSUME NEW d \in Cgi, NEW q \in Pid, process'[q].owner = d
               PROVE  /\ proc'[d].pid = q
                      /\ worker'[d] \in {"timer", "run", "check", "kill", "wait"}
    BY DEF ChildPlaces
  <2>1. CASE q = p
    BY <1>3, <1>4, <2>1
  <2>2. CASE q # p
    <3>1. process[q].owner = d /\ d # c
      BY <1>2, <1>3, <2>2 DEF CgiInv, ChildPlaces
    <3> QED BY <1>4, <3>1 DEF CgiInv, ChildPlaces
  <2> QED BY <2>1, <2>2
<1>7. AborterPlaces'
  BY <1>2 DEF CgiInv, AborterPlaces, Active
<1>8. ReferencesExact(c)' /\ RequestPlaces(c)'
  <2>1. adder[c].pc = "idle" /\ c \in Timer
    BY <1>2, CgiAssumption DEF CgiInv, RequestPlaces
  <2>2. ~InList(c) /\ ~ActiveIs(c)
    BY <2>1 DEF TimersInv, OnePlace
  <2>3. ~InList(c)' /\ ~ActiveIs(c)'
    BY <1>2, <2>2 DEF InList, ActiveIs, Active
  <2>4. WorkerHolds(c)' /\ (TimerRefers(c)' <=> timeout)
    BY <1>2, <1>4, <2>1, <2>3 DEF WorkerHolds, TimerRefers, AbortStep
  <2>5. Held(c)' = IF timeout THEN 2 ELSE 1
    BY <2>4 DEF Held
  <2>6. /\ proc'[c].references = IF timeout THEN 2 ELSE 1
        /\ proc'[c].pid = p /\ ~proc'[c].freed /\ p # "none"
    BY <1>4, CgiAssumption
  <2>7. ReferencesExact(c)'
    BY <2>5, <2>6 DEF ReferencesExact
  <2>8. RequestPlaces(c)'
    BY <1>4, <2>6 DEF RequestPlaces
  <2> QED BY <2>7, <2>8
<1>9. ASSUME NEW d \in Cgi, d # c PROVE ReferencesExact(d)' /\ RequestPlaces(d)'
  <2>1. TimerRefers(d)' <=> TimerRefers(d)
    BY <1>2, <1>4, <1>9 DEF TimerRefers, InList, ActiveIs, Active
  <2> QED BY <1>2, <1>4, <1>9, <2>1, OtherRequest
<1> QED BY <1>5, <1>6, <1>7, <1>8, <1>9 DEF CgiInv

\* No process, or the output of the process is forwarded: the worker goes on alone.
LEMMA WorkerMoves ==
    ASSUME TimersInv, CgiInv, NEW c \in Cgi, SpawnFails(c) \/ Forwarded(c)
    PROVE  CgiInv'
<1>1. /\ \/ worker[c] = "start" /\ worker' = [worker EXCEPT ![c] = "done"]
         \/ worker[c] = "run" /\ worker' = [worker EXCEPT ![c] = "check"]
      /\ UNCHANGED <<now, allocated, timers, capacity, adder, thread, stopping, cancelled,
                     addedLate, process, proc, aborter, killed>>
  BY DEF SpawnFails, Forwarded, timerVars
<1>2. /\ \/ worker[c] = "start" /\ worker'[c] = "done"
         \/ worker[c] = "run" /\ worker'[c] = "check"
      /\ \A d \in Cgi : d # c => worker'[d] = worker[d]
  BY <1>1 DEF CgiInv, CgiTypeOK
<1>3. CgiTypeOK'
  BY <1>1 DEF CgiInv, CgiTypeOK, AbortStep
<1>4. ChildPlaces'
  BY <1>1, <1>2 DEF CgiInv, ChildPlaces
<1>5. AborterPlaces'
  BY <1>1 DEF CgiInv, AborterPlaces, Active
<1>6. ASSUME NEW d \in Cgi PROVE ReferencesExact(d)' /\ RequestPlaces(d)'
  <2>1. (WorkerHolds(d)' <=> WorkerHolds(d)) /\ (TimerRefers(d)' <=> TimerRefers(d))
    BY <1>1, <1>2 DEF WorkerHolds, AbortStep, TimerRefers, InList, ActiveIs, Active
  <2>2. ReferencesExact(d)'
    BY <1>1, <2>1, ReferencesKept DEF SameReferences
  <2>3. RequestPlaces(d)'
    BY <1>1, <1>2, <2>1 DEF CgiInv, RequestPlaces
  <2> QED BY <2>2, <2>3
<1> QED BY <1>3, <1>4, <1>5, <1>6 DEF CgiInv

\* Neither a process that ends by itself nor one of another program is of concern.
LEMMA KernelKeeps ==
    ASSUME TimersInv, CgiInv, NEW p \in Pid, ProcessExits(p) \/ ForeignStarts(p)
    PROVE  CgiInv'
<1>1. UNCHANGED <<now, allocated, timers, capacity, adder, thread, stopping, cancelled,
                  addedLate, proc, worker, aborter, killed>>
  BY DEF ProcessExits, ForeignStarts, timerVars
<1>2. PICK x \in Process : /\ process' = [process EXCEPT ![p] = x]
                           /\ x.owner \in Cgi => x.owner = process[p].owner
  <2>1. process[p] \in Process
    BY DEF CgiInv, CgiTypeOK
  <2>2. CASE ForeignStarts(p)
    BY <2>2, Processes DEF ForeignStarts
  <2>3. CASE ProcessExits(p)
    <3>1. PICK s \in {"exit0", "exit1"} :
             process' = [process EXCEPT ![p] = IF Child(p) THEN [process[p] EXCEPT !.state = s]
                                                           ELSE NoProcess]
      BY <2>3 DEF ProcessExits
    <3> QED BY <2>1, <3>1, Processes DEF Child
  <2> QED BY <2>2, <2>3
<1>3. /\ process' \in [Pid -> Process] /\ process'[p] = x
      /\ \A q \in Pid : q # p => process'[q] = process[q]
  BY <1>2, TableMade
<1>4. CgiTypeOK'
  BY <1>1, <1>3 DEF CgiInv, CgiTypeOK
<1>5. ChildPlaces'
  BY <1>1, <1>2, <1>3 DEF CgiInv, ChildPlaces
<1>6. AborterPlaces'
  BY <1>1 DEF CgiInv, AborterPlaces, Active
<1>7. ASSUME NEW d \in Cgi PROVE ReferencesExact(d)' /\ RequestPlaces(d)'
  <2>1. TimerRefers(d)' <=> TimerRefers(d)
    BY <1>1 DEF TimerRefers, InList, ActiveIs, Active
  <2> QED BY <1>1, <2>1, OtherRequest
<1> QED BY <1>4, <1>5, <1>6, <1>7 DEF CgiInv

\* abort_cgi_process up to its last step, by either thread: children only vanish from the
\* process table, and the one of the request has vanished when the loop is left.
LEMMA AbortEffect ==
    ASSUME CgiInv, NEW c \in Cgi, NEW at, NEW next, proc[c].pid \in Pid,
           WaitNoHang(c, at, next) \/ Kill(c, at, next) \/ Wait(c, at, next)
    PROVE  /\ at \in {"check", "kill", "wait"} /\ next \in AbortStep /\ proc' = proc
           /\ process' \in [Pid -> Process] /\ killed' \subseteq Cgi \X (Cgi \cup {"foreign"})
           /\ \A q \in Pid : process'[q].owner \in Cgi => process'[q].owner = process[q].owner
           /\ next = "release" => process'[proc[c].pid].owner # c
<1> DEFINE p == proc[c].pid
<1>1. process \in [Pid -> Process] /\ process[p] \in Process
      /\ killed \subseteq Cgi \X (Cgi \cup {"foreign"})
  BY DEF CgiInv, CgiTypeOK
<1>2. proc' = proc
  BY DEF WaitNoHang, Kill, Wait
<1>3. at \in {"check", "kill", "wait"} /\ next \in AbortStep
  BY DEF WaitNoHang, Kill, Wait, AbortStep
<1>4. CASE WaitNoHang(c, at, next)
  <2>1. /\ next = IF Child(p) /\ process[p].state # "exit1" THEN "kill" ELSE "release"
        /\ process' = IF Child(p) /\ Zombie(p) THEN [process EXCEPT ![p] = NoProcess] ELSE process
        /\ killed' = killed
    BY <1>4 DEF WaitNoHang
  <2>2. CASE Child(p) /\ Zombie(p)
    BY <1>1, <1>2, <1>3, <2>1, <2>2, Processes
  <2>3. CASE ~(Child(p) /\ Zombie(p))
    <3>1. next = "release" => process[p].owner # c
      BY <2>1, <2>3 DEF Child, Zombie
    <3> QED BY <1>1, <1>2, <1>3, <2>1, <2>3, <3>1
  <2> QED BY <2>2, <2>3
<1>5. CASE Kill(c, at, next)
  <2>1. next = "wait"
    BY <1>5 DEF Kill
  <2>2. CASE process[p].state # "running"
    <3>1. process' = process /\ killed' = killed
      BY <1>5, <2>2 DEF Kill
    <3> QED BY <1>1, <1>2, <1>3, <2>1, <3>1
  <2>3. CASE process[p].state = "running"
    <3>1. /\ process' = [process EXCEPT ![p] = IF Child(p) THEN [process[p] EXCEPT !.state = "exit1"]
                                                           ELSE NoProcess]
          /\ killed' = killed \cup {<<c, process[p].owner>>}
      BY <1>5, <2>3 DEF Kill
    <3>2. process[p].owner \in Cgi \cup {"foreign"}
      BY <1>1, <2>3 DEF Process, NoProcess
    <3>3. killed' \subseteq Cgi \X (Cgi \cup {"foreign"})
      BY <1>1, <3>1, <3>2
    <3>4. process' \in [Pid -> Process]
      BY <1>1, <3>1, Processes DEF Child
    <3>5. \A q \in Pid : process'[q].owner \in Cgi => process'[q].owner = process[q].owner
      BY <1>1, <3>1, Processes DEF Child
    <3> QED BY <1>2, <1>3, <2>1, <3>3, <3>4, <3>5
  <2> QED BY <2>2, <2>3
<1>6. CASE Wait(c, at, next)
  <2>1. killed' = killed
    BY <1>6 DEF Wait
  <2>2. CASE process' = [process EXCEPT ![p] = NoProcess]
    BY <1>1, <1>2, <1>3, <2>1, <2>2, Processes
  <2>3. CASE process' = process /\ ~Child(p)
    <3>1. process[p].owner # c
      BY <2>3 DEF Child
    <3> QED BY <1>1, <1>2, <1>3, <2>1, <2>3, <3>1
  <2> QED BY <1>6, <2>2, <2>3 DEF Wait
<1> QED BY <1>4, <1>5, <1>6

\* The last step of abort_cgi_process takes away one reference, and frees the data with the last.
LEMMA ReleaseEffect ==
    ASSUME CgiInv, NEW c \in Cgi, proc[c].references >= 1,
           proc' = [proc EXCEPT ![c].references = @ - 1, ![c].freed = (proc[c].references = 1)]
    PROVE  /\ proc' \in [Cgi -> ProcState] /\ proc'[c].pid = proc[c].pid
           /\ proc'[c].references = proc[c].references - 1
           /\ proc'[c].freed <=> proc'[c].references = 0
           /\ \A d \in Cgi : d # c => proc'[d] = proc[d]
<1>1. proc \in [Cgi -> ProcState] /\ proc[c] \in ProcState
  BY DEF CgiInv, CgiTypeOK
<1>2. proc[c].references \in 1..2 /\ proc[c].pid \in Pid \cup {"none"}
  BY <1>1 DEF ProcState
<1> DEFINE r == [pid |-> proc[c].pid, references |-> proc[c].references - 1,
                 freed |-> (proc[c].references = 1)]
<1>3. /\ proc'[c] = r
      /\ \A d \in Cgi : d # c => proc'[d] = proc[d]
      /\ DOMAIN proc' = Cgi
  <2> DEFINE one == [proc EXCEPT ![c].references = @ - 1]
  <2>1. proc' = [one EXCEPT ![c].freed = (proc[c].references = 1)]
    BY <1>1
  <2>2. one \in [Cgi -> ProcState]
    BY <1>1, <1>2 DEF ProcState
  <2>3. one[c] = [pid |-> proc[c].pid, references |-> proc[c].references - 1,
                  freed |-> proc[c].freed]
    BY <1>1 DEF ProcState
  <2>4. \A d \in Cgi : d # c => one[d] = proc[d]
    BY <1>1
  <2> HIDE DEF one
  <2>5. proc'[c] = [one[c] EXCEPT !.freed = (proc[c].references = 1)]
    BY <2>1, <2>2
  <2>6. proc'[c] = r
    BY <2>3, <2>5
  <2>7. DOMAIN proc' = Cgi /\ \A d \in Cgi : d # c => proc'[d] = proc[d]
    BY <2>1, <2>2, <2>4
  <2> HIDE DEF r
  <2> QED BY <2>6, <2>7
<1>4. r \in ProcState
  BY <1>2 DEF ProcState
<1>5. r.pid = proc[c].pid /\ r.references = proc[c].references - 1 /\ (r.freed <=> r.references = 0)
  <2>1. r.pid = proc[c].pid /\ r.references = proc[c].references - 1
        /\ r.freed = (proc[c].references = 1)
    OBVIOUS
  <2>2. proc[c].references = 1 <=> proc[c].references - 1 = 0
    BY <1>2
  <2> HIDE DEF r
  <2> QED BY <2>1, <2>2
<1>6. \A d \in Cgi : proc'[d] \in ProcState
  BY <1>1, <1>3, <1>4
<1>7. proc' \in [Cgi -> ProcState]
  BY <1>1, <1>3, <1>6
<1> HIDE DEF r
<1> QED BY <1>3, <1>5, <1>7

\* The worker in abort_cgi_process.
LEMMA WorkerAbortsKeeps == ASSUME TimersInv, CgiInv, NEW c \in Cgi, WorkerAborts(c) PROVE CgiInv'
<1>1. PICK next \in AbortStep \cup {"done"} :
         /\ abort_cgi_process(c, worker[c], next, "done")
         /\ worker' = [worker EXCEPT ![c] = next]
  BY DEF WorkerAborts
<1>2. UNCHANGED <<now, allocated, timers, capacity, adder, thread, stopping, cancelled, addedLate,
                  aborter>>
  BY DEF WorkerAborts, timerVars
<1>3. worker'[c] = next /\ \A d \in Cgi : d # c => worker'[d] = worker[d]
  BY <1>1 DEF CgiInv, CgiTypeOK
<1>4. worker' \in [Cgi -> {"start", "timer", "run", "done"} \cup AbortStep]
  BY <1>1 DEF CgiInv, CgiTypeOK
<1>5. worker[c] \in AbortStep
  BY <1>1 DEF abort_cgi_process, WaitNoHang, Kill, Wait, Release, AbortStep
<1>6. WorkerHolds(c) /\ proc[c].pid \in Pid /\ proc[c].pid # "none"
  <2>1. WorkerHolds(c) /\ proc[c].pid # "none"
    BY <1>5 DEF WorkerHolds, CgiInv, RequestPlaces
  <2> QED BY <2>1 DEF CgiInv, CgiTypeOK, ProcState
<1>7. AborterPlaces'
  BY <1>2 DEF CgiInv, AborterPlaces, Active
<1>8. \A d \in Cgi : (InList(d)' <=> InList(d)) /\ (ActiveIs(d)' <=> ActiveIs(d))
  BY <1>2 DEF InList, ActiveIs, Active
<1>9. next # "timer" /\ worker[c] # "timer"
  BY <1>5 DEF AbortStep
<1>10. \A d \in Cgi : TimerRefers(d)' <=> TimerRefers(d)
  BY <1>2, <1>3, <1>8, <1>9 DEF TimerRefers
<1>11. CASE \/ WaitNoHang(c, worker[c], next) \/ Kill(c, worker[c], next)
            \/ Wait(c, worker[c], next)
  <2>1. /\ worker[c] \in {"check", "kill", "wait"} /\ next \in AbortStep /\ proc' = proc
        /\ process' \in [Pid -> Process] /\ killed' \subseteq Cgi \X (Cgi \cup {"foreign"})
        /\ \A q \in Pid : process'[q].owner \in Cgi => process'[q].owner = process[q].owner
        /\ next = "release" => process'[proc[c].pid].owner # c
    BY <1>6, <1>11, AbortEffect
  <2>2. CgiTypeOK'
    BY <1>2, <1>4, <2>1 DEF CgiInv, CgiTypeOK
  <2>3. ChildPlaces'
    BY <1>3, <2>1 DEF CgiInv, ChildPlaces, AbortStep
  <2>4. ASSUME NEW d \in Cgi PROVE ReferencesExact(d)' /\ RequestPlaces(d)'
    <3>1. WorkerHolds(d)' <=> WorkerHolds(d)
      BY <1>3, <1>6, <2>1 DEF WorkerHolds
    <3>2. ReferencesExact(d)'
      BY <1>2, <1>10, <2>1, <3>1, ReferencesKept DEF SameReferences
    <3>3. RequestPlaces(d)'
      BY <1>2, <1>3, <2>1, <3>1 DEF CgiInv, RequestPlaces, AbortStep
    <3> QED BY <3>2, <3>3
  <2> QED BY <1>7, <2>2, <2>3, <2>4 DEF CgiInv
<1>12. CASE Release(c, worker[c], next, "done")
  <2>1. /\ worker[c] = "release" /\ next = "done" /\ process' = process /\ killed' = killed
        /\ proc' = [proc EXCEPT ![c].references = @ - 1, ![c].freed = (proc[c].references = 1)]
    BY <1>12 DEF Release
  <2>2. /\ proc[c].references \in Nat /\ Held(c) \in Nat /\ Held(c) >= 1 /\ Held(c)' \in Nat
        /\ Held(c)' = Held(c) - 1 /\ ~WorkerHolds(c)'
    <3>1. ~WorkerHolds(c)'
      BY <1>3, <2>1 DEF WorkerHolds, AbortStep
    <3>2. proc[c].references \in Nat
      BY DEF CgiInv, CgiTypeOK, ProcState
    <3> QED BY <1>6, <1>10, <3>1, <3>2 DEF Held
  <2>3. proc[c].references >= 1
    BY <2>2 DEF CgiInv, ReferencesExact
  <2>4. /\ proc' \in [Cgi -> ProcState] /\ proc'[c].pid = proc[c].pid
        /\ proc'[c].references = proc[c].references - 1
        /\ proc'[c].freed <=> proc'[c].references = 0
        /\ \A d \in Cgi : d # c => proc'[d] = proc[d]
    BY <2>1, <2>3, ReleaseEffect
  <2>5. CgiTypeOK'
    BY <1>2, <1>4, <2>1, <2>4 DEF CgiInv, CgiTypeOK
  <2>6. ChildPlaces'
    BY <1>3, <2>1, <2>4 DEF CgiInv, ChildPlaces
  <2>7. ReferencesExact(c)'
    BY <1>2, <1>6, <2>2, <2>4 DEF CgiInv, ReferencesExact
  <2>8. RequestPlaces(c)'
    BY <1>3, <1>6, <2>1, <2>4 DEF RequestPlaces
  <2>9. ASSUME NEW d \in Cgi, d # c PROVE ReferencesExact(d)' /\ RequestPlaces(d)'
    BY <1>2, <1>3, <1>10, <2>4, <2>9, OtherRequest
  <2> QED BY <1>7, <2>5, <2>6, <2>7, <2>8, <2>9 DEF CgiInv
<1> QED BY <1>1, <1>11, <1>12 DEF abort_cgi_process

\* The timer thread in abort_cgi_process: the timer has a reference of its own until it returns.
LEMMA TimerAbortsKeeps ==
    ASSUME TimersInv, CgiInv, NEW c \in Cgi, NEW next,
           thread.pc = "action", Active.id = c, UNCHANGED <<timerVars, worker>>,
           abort_cgi_process(c, aborter, next, "returned"), aborter' = next
    PROVE  CgiInv'
<1>1. UNCHANGED <<now, allocated, timers, capacity, adder, thread, stopping, cancelled, addedLate,
                  worker>>
  BY DEF timerVars
<1>2. c \in Cgi /\ c \in Timer /\ thread.t # <<>>
  BY CgiAssumption DEF TimersInv, ThreadPlaces
<1>3. ActiveIs(c) /\ ~InList(c) /\ adder[c].pc = "accepted"
  BY <1>2 DEF ActiveIs, TimersInv, OnePlace
<1>4. aborter \in AbortStep /\ aborter # "returned" /\ aborter # "none"
  BY DEF abort_cgi_process, WaitNoHang, Kill, Wait, Release, AbortStep
<1>5. proc[c].pid \in Pid /\ proc[c].pid # "none" /\ worker[c] # "start"
  <2>1. proc[c].pid # "none" /\ worker[c] # "start"
    BY <1>2, <1>3 DEF CgiInv, RequestPlaces
  <2> QED BY <1>2, <2>1 DEF CgiInv, CgiTypeOK, ProcState
<1>6. AborterPlaces'
  BY <1>1, <1>2 DEF AborterPlaces, Active
<1>7. \A d \in Cgi : /\ InList(d)' <=> InList(d)
                     /\ ActiveIs(d)' <=> ActiveIs(d)
                     /\ WorkerHolds(d)' <=> WorkerHolds(d)
  BY <1>1 DEF InList, ActiveIs, Active, WorkerHolds
<1>8. \A d \in Cgi : d # c => (TimerRefers(d)' <=> TimerRefers(d))
  BY <1>1, <1>7 DEF TimerRefers, ActiveIs
<1>9. TimerRefers(c)
  BY <1>3, <1>4 DEF TimerRefers
<1>10. CASE WaitNoHang(c, aborter, next) \/ Kill(c, aborter, next) \/ Wait(c, aborter, next)
  <2>1. /\ next \in AbortStep /\ proc' = proc
        /\ process' \in [Pid -> Process] /\ killed' \subseteq Cgi \X (Cgi \cup {"foreign"})
        /\ \A q \in Pid : process'[q].owner \in Cgi => process'[q].owner = process[q].owner
    BY <1>2, <1>5, <1>10, AbortEffect
  <2>2. CgiTypeOK'
    BY <1>1, <2>1 DEF CgiInv, CgiTypeOK
  <2>3. ChildPlaces'
    BY <1>1, <2>1 DEF CgiInv, ChildPlaces
  <2>4. TimerRefers(c)'
    BY <1>2, <1>3, <1>7, <2>1 DEF TimerRefers, AbortStep
  <2>5. ASSUME NEW d \in Cgi PROVE ReferencesExact(d)' /\ RequestPlaces(d)'
    BY <1>1, <1>8, <1>9, <2>1, <2>4, OtherRequest
  <2> QED BY <1>6, <2>2, <2>3, <2>5 DEF CgiInv
<1>11. CASE Release(c, aborter, next, "returned")
  <2>1. /\ next = "returned" /\ process' = process /\ killed' = killed
        /\ proc' = [proc EXCEPT ![c].references = @ - 1, ![c].freed = (proc[c].references = 1)]
    BY <1>11 DEF Release
  <2>2. ~TimerRefers(c)'
    BY <1>1, <1>2, <1>3, <1>7, <2>1 DEF TimerRefers
  <2>3. /\ proc[c].references \in Nat /\ Held(c) \in Nat /\ Held(c) >= 1 /\ Held(c)' \in Nat
        /\ Held(c)' = Held(c) - 1
    <3>1. proc[c].references \in Nat
      BY <1>2 DEF CgiInv, CgiTypeOK, ProcState
    <3> QED BY <1>2, <1>7, <1>9, <2>2, <3>1 DEF Held
  <2>4. proc[c].references >= 1
    BY <1>2, <2>3 DEF CgiInv, ReferencesExact
  <2>5. /\ proc' \in [Cgi -> ProcState] /\ proc'[c].pid = proc[c].pid
        /\ proc'[c].references = proc[c].references - 1
        /\ proc'[c].freed <=> proc'[c].references = 0
        /\ \A d \in Cgi : d # c => proc'[d] = proc[d]
    BY <1>2, <2>1, <2>4, ReleaseEffect
  <2>6. CgiTypeOK'
    BY <1>1, <2>1, <2>5 DEF CgiInv, CgiTypeOK
  <2>7. ChildPlaces'
    BY <1>1, <2>1, <2>5 DEF CgiInv, ChildPlaces
  <2>8. ReferencesExact(c)'
    BY <1>1, <1>2, <1>5, <2>3, <2>5 DEF CgiInv, ReferencesExact
  <2>9. RequestPlaces(c)'
    BY <1>1, <1>5, <2>5 DEF RequestPlaces
  <2>10. ASSUME NEW d \in Cgi, d # c PROVE ReferencesExact(d)' /\ RequestPlaces(d)'
    BY <1>1, <1>8, <2>5, <2>10, OtherRequest
  <2> QED BY <1>2, <1>6, <2>6, <2>7, <2>8, <2>9, <2>10 DEF CgiInv
<1> QED BY <1>10, <1>11 DEF abort_cgi_process

\* All that the timer thread does for the timer of a request.
LEMMA TimerThreadKeeps == ASSUME TimersInv, CgiInv, TimerAborts PROVE CgiInv'
<1>1. PICK c \in Cgi : Active.id = c
  BY DEF TimerAborts
<1>2. thread.pc = "action" /\ worker' = worker /\ thread.t # <<>> /\ c \in Timer
  BY CgiAssumption DEF TimerAborts, TimersInv, ThreadPlaces
<1>3. CASE aborter = "none" /\ aborter' = "check" /\ UNCHANGED <<timerVars, process, proc, killed>>
  <2>1. UNCHANGED <<timers, adder, thread, stopping, process, proc, killed, worker>>
    BY <1>2, <1>3 DEF timerVars
  <2>2. \A d \in Cgi : SameReferences(d)
    BY <1>3, <2>1 DEF SameReferences, TimerRefers, InList, ActiveIs, Active
  <2>3. AborterPlaces'
    BY <1>1, <1>2, <2>1 DEF AborterPlaces, Active
  <2>4. aborter' \in {"none", "returned"} \cup AbortStep
    BY <1>3 DEF AbortStep
  <2> QED BY <2>1, <2>2, <2>3, <2>4, CgiFrame
<1>4. CASE \E next \in AbortStep \cup {"returned"} :
             /\ abort_cgi_process(Active.id, aborter, next, "returned")
             /\ aborter' = next
             /\ UNCHANGED timerVars
  BY <1>1, <1>2, <1>4, TimerAbortsKeeps
<1>5. CASE aborter = "returned" /\ ActionLast /\ aborter' = "none" /\ UNCHANGED <<process, proc, killed>>
  <2>1. /\ thread' = [thread EXCEPT !.pc = "loop", !.t = <<>>]
        /\ UNCHANGED <<timers, adder, stopping, process, proc, killed, worker>>
    BY <1>2, <1>5 DEF ActionLast
  <2>2. \A d \in Cgi : ~ActiveIs(d)' /\ (InList(d)' <=> InList(d)) /\ d \in Timer
    BY <2>1, BackInLoop, CgiAssumption DEF InList
  <2>3. \A d \in Cgi : SameReferences(d)
    BY <1>5, <2>1, <2>2 DEF SameReferences, TimerRefers
  <2> QED BY <1>5, <2>1, <2>3, CgiFrame DEF AborterPlaces
<1> QED BY <1>3, <1>4, <1>5 DEF TimerAborts

\* A call of timer_add is about one timer.
LEMMA AddingOne ==
    ASSUME TimersInv, NEW i \in Timer, TimerInsert(i) \/ \E delay \in Delays : TimerAdd(i, delay)
    PROVE  /\ thread' = thread /\ stopping' = stopping
           /\ \A j \in Timer : j # i => adder'[j] = adder[j] /\ (InList(j)' <=> InList(j))
           /\ \A j \in Timer : ActiveIs(j)' <=> ActiveIs(j)
           /\ \/ adder[i].pc = "idle" /\ adder'[i].pc = "insert"
              \/ adder[i].pc \in {"idle", "insert"} /\ adder'[i].pc = "rejected"
              \/ adder[i].pc = "insert" /\ adder'[i].pc = "accepted" /\ InList(i)'
              \/ adder[i].pc = "insert" /\ adder'[i].pc = "fault" /\ stopping
           /\ ~InList(i) /\ ~ActiveIs(i)
           /\ adder'[i].pc # "accepted" => ~InList(i)'
<1>1. adder \in [Timer -> Adder] /\ \A j \in Timer : adder[j] = [pc |-> adder[j].pc, time |-> adder[j].time]
  BY DEF TimersInv, TimersTypeOK, Adder
<1>2. thread' = thread /\ stopping' = stopping
  BY DEF TimerInsert, TimerAdd
<1>3. \A j \in Timer : ActiveIs(j)' <=> ActiveIs(j)
  BY <1>2 DEF ActiveIs, Active
<1>4. adder[i].pc \in {"idle", "insert"}
  BY DEF TimerInsert, TimerAdd
<1>5. ~InList(i) /\ ~ActiveIs(i)
  BY <1>4 DEF TimersInv, OnePlace
<1>6. CASE \E delay \in Delays : TimerAdd(i, delay)
  <2>1. PICK delay \in Delays : TimerAdd(i, delay)
    BY <1>6
  <2>2. timers' = timers /\ adder[i].pc = "idle"
        /\ adder' = [adder EXCEPT ![i] =
                        IF allocated THEN [pc |-> "insert", time |-> now + delay]
                                     ELSE [pc |-> "rejected", time |-> 0]]
    BY <2>1 DEF TimerAdd
  <2>3. /\ adder'[i].pc \in {"insert", "rejected"}
        /\ \A j \in Timer : j # i => adder'[j] = adder[j]
    BY <1>1, <2>2
  <2>4. \A j \in Timer : InList(j)' <=> InList(j)
    BY <2>2 DEF InList
  <2> QED BY <1>2, <1>3, <1>5, <2>2, <2>3, <2>4
<1>7. CASE TimerInsert(i)
  <2>1. adder[i].pc = "insert"
    BY <1>7 DEF TimerInsert
  <2>2. CASE /\ allocated /\ AddEntry([id |-> i, time |-> adder[i].time])
             /\ adder' = [adder EXCEPT ![i].pc = "accepted"]
    <3>1. [id |-> i, time |-> adder[i].time] \in Entry
      BY <1>1 DEF Entry, Adder
    <3>2. \A j \in Timer : InList(j)' <=> InList(j) \/ j = i
      BY <1>5, <2>2, <3>1, EntryAdded
    <3>3. adder'[i].pc = "accepted" /\ \A j \in Timer : j # i => adder'[j] = adder[j]
      BY <1>1, <2>2
    <3> QED BY <1>2, <1>3, <1>5, <2>1, <3>2, <3>3
  <2>3. CASE AddFails /\ adder' = [adder EXCEPT ![i].pc = "rejected"]
    <3>1. adder'[i].pc = "rejected" /\ \A j \in Timer : j # i => adder'[j] = adder[j]
      BY <1>1, <2>3
    <3>2. \A j \in Timer : InList(j)' <=> InList(j)
      BY <2>3 DEF AddFails, InList
    <3> QED BY <1>2, <1>3, <1>5, <2>1, <3>1, <3>2
  <2>4. CASE ~allocated /\ adder' = [adder EXCEPT ![i].pc = "fault"] /\ timers' = timers
    <3>1. adder'[i].pc = "fault" /\ \A j \in Timer : j # i => adder'[j] = adder[j]
      BY <1>1, <2>4
    <3>2. \A j \in Timer : InList(j)' <=> InList(j)
      BY <2>4 DEF InList
    <3>3. stopping
      BY <2>4 DEF TimersInv, ThreadPlaces
    <3> QED BY <1>2, <1>3, <1>5, <2>1, <3>1, <3>2, <3>3
  <2> QED BY <1>7, <2>2, <2>3, <2>4 DEF TimerInsert
<1> QED BY <1>6, <1>7

\* timer_add, for a request or for another timer, moves the timer's reference along with it.
LEMMA AddsKeep ==
    ASSUME TimersInv, CgiInv, NEW i \in Timer, UNCHANGED cgiVars,
           TimerInsert(i) \/ \E delay \in Delays : TimerAdd(i, delay),
           i \in Cgi => worker[i] = "timer"
    PROVE  CgiInv'
<1>1. UNCHANGED <<process, proc, worker, killed, aborter>>
  BY DEF cgiVars
<1>2. \A c \in Cgi : c \in Timer
  BY CgiAssumption
<1>3. \A c \in Cgi : SameReferences(c)
  <2> SUFFICES ASSUME NEW c \in Cgi PROVE SameReferences(c)
    OBVIOUS
  <2>1. CASE c # i
    <3>1. TimerRefers(c)' <=> TimerRefers(c)
      BY <1>1, <1>2, <2>1, AddingOne DEF TimerRefers
    <3> QED BY <1>2, <2>1, <3>1, AddingOne DEF SameReferences
  <2>2. CASE c = i
    <3>1. worker[i] = "timer" /\ adder[i].pc \in {"idle", "insert"}
      BY <2>2, AddingOne
    <3>2. TimerRefers(i)
      BY <3>1 DEF TimerRefers
    <3>3. ~stopping' /\ adder'[i].pc # "rejected" => TimerRefers(i)'
      BY AddingOne DEF TimerRefers
    <3> QED BY <2>2, <3>1, <3>2, <3>3, AddingOne DEF SameReferences
  <2> QED BY <2>1, <2>2
<1>4. AborterPlaces'
  BY <1>1, AddingOne DEF CgiInv, AborterPlaces, Active
<1>5. \A c \in Cgi : adder'[c].pc # "idle" => adder[c].pc # "idle" \/ worker[c] = "timer"
  BY <1>2, AddingOne
<1>6. aborter' \in {"none", "returned"} \cup AbortStep
  BY <1>1 DEF CgiInv, CgiTypeOK
<1> QED BY <1>1, <1>3, <1>4, <1>5, <1>6, CgiFrame

\* The worker calls timer_add, and goes on whatever became of it.
LEMMA StartTimerKeeps == ASSUME TimersInv, CgiInv, NEW c \in Cgi, StartTimer(c) PROVE CgiInv'
<1>1. worker[c] = "timer" /\ UNCHANGED <<process, proc, aborter, killed>> /\ c \in Timer
  BY CgiAssumption DEF StartTimer
<1>2. CASE UNCHANGED worker /\ (TimerInsert(c) \/ \E delay \in Delays : TimerAdd(c, delay))
  BY <1>1, <1>2, AddsKeep DEF cgiVars
<1>3. CASE /\ adder[c].pc \in {"accepted", "rejected"}
           /\ worker' = [worker EXCEPT ![c] = "run"] /\ UNCHANGED timerVars
  <2>1. UNCHANGED <<timers, adder, thread, stopping>>
    BY <1>3 DEF timerVars
  <2>2. worker'[c] = "run" /\ \A d \in Cgi : d # c => worker'[d] = worker[d]
    BY <1>3 DEF CgiInv, CgiTypeOK
  <2>3. CgiTypeOK'
    BY <1>1, <1>3 DEF CgiInv, CgiTypeOK
  <2>4. ChildPlaces' /\ AborterPlaces'
    BY <1>1, <2>1, <2>2 DEF CgiInv, ChildPlaces, AborterPlaces, Active
  <2>5. ASSUME NEW d \in Cgi PROVE ReferencesExact(d)' /\ RequestPlaces(d)'
    <3>1. (WorkerHolds(d)' <=> WorkerHolds(d)) /\ (TimerRefers(d)' <=> TimerRefers(d))
      BY <1>1, <1>3, <2>1, <2>2 DEF WorkerHolds, TimerRefers, InList, ActiveIs, Active
    <3>2. ReferencesExact(d)'
      BY <1>1, <2>1, <3>1, ReferencesKept DEF SameReferences
    <3>3. RequestPlaces(d)'
      BY <1>1, <2>1, <2>2, <3>1 DEF CgiInv, RequestPlaces
    <3> QED BY <3>2, <3>3
  <2> QED BY <2>3, <2>4, <2>5 DEF CgiInv
<1> QED BY <1>2, <1>3 DEF StartTimer

\* Every step keeps the invariant of the requests.
LEMMA CgiStepInv == TimersInv /\ TimersInv' /\ CgiInv /\ [Next]_vars => CgiInv'
<1> SUFFICES ASSUME TimersInv, TimersInv', CgiInv, [Next]_vars PROVE CgiInv'
  OBVIOUS
<1>1. ASSUME NEW c \in Cgi, WorkerStep(c) \/ Forwarded(c) PROVE CgiInv'
  BY <1>1, SpawnKeeps, WorkerMoves, StartTimerKeeps, WorkerAbortsKeeps DEF WorkerStep
<1>2. ASSUME NEW i \in Timer \ Cgi, OtherTimer(i) PROVE CgiInv'
  <2>1. UNCHANGED cgiVars /\ (TimerInsert(i) \/ \E delay \in Delays : TimerAdd(i, delay))
    BY <1>2 DEF OtherTimer
  <2> QED BY <1>2, <2>1, AddsKeep
<1>3. CASE TimerThread
  BY <1>3, TimerThreadKeeps, TimersAndRequests DEF TimerThread
<1>4. CASE MgStop \/ (Tick /\ UNCHANGED cgiVars)
  BY <1>4, TimersAndRequests DEF MgStop
<1>5. ASSUME NEW p \in Pid, ProcessExits(p) \/ ForeignStarts(p) PROVE CgiInv'
  BY <1>5, KernelKeeps
<1>6. CASE Terminated \/ UNCHANGED vars
  <2>1. UNCHANGED <<timers, adder, thread, stopping, process, proc, worker, killed, aborter>>
    BY <1>6 DEF Terminated, vars, timerVars, cgiVars
  <2>2. \A c \in Cgi : SameReferences(c)
    BY <2>1 DEF SameReferences, TimerRefers, InList, ActiveIs, Active
  <2>3. AborterPlaces' /\ aborter' \in {"none", "returned"} \cup AbortStep
    BY <2>1 DEF CgiInv, CgiTypeOK, AborterPlaces, Active
  <2> QED BY <2>1, <2>2, <2>3, CgiFrame
<1> QED BY <1>1, <1>2, <1>3, <1>4, <1>5, <1>6 DEF Next

\* At the start there is no process, and no pointer to one.
LEMMA CgiInitial == Init => CgiInv
<1> SUFFICES ASSUME Init PROVE CgiInv
  OBVIOUS
<1>1. \A c \in Cgi : c \in Timer /\ adder[c].pc = "idle"
  BY CgiAssumption DEF Init, TimersInit
<1>2. \A c \in Cgi : ~InList(c) /\ ~ActiveIs(c)
  BY <1>1, TimersInitial DEF Init, TimersInv, OnePlace
<1>3. CgiTypeOK
  BY Processes DEF Init, CgiTypeOK, ProcState
<1>4. ChildPlaces /\ AborterPlaces
  BY Processes DEF Init, ChildPlaces, AborterPlaces
<1>5. ASSUME NEW c \in Cgi PROVE ReferencesExact(c) /\ RequestPlaces(c)
  <2>1. /\ worker[c] = "start" /\ proc[c].pid = "none" /\ proc[c].references = 0
        /\ ~proc[c].freed
    BY DEF Init
  <2>2. ~WorkerHolds(c) /\ ~TimerRefers(c)
    BY <1>1, <1>2, <2>1 DEF WorkerHolds, TimerRefers, AbortStep
  <2>3. Held(c) = 0
    BY <2>2 DEF Held
  <2> QED BY <1>1, <2>1, <2>2, <2>3 DEF ReferencesExact, RequestPlaces
<1> QED BY <1>3, <1>4, <1>5 DEF CgiInv

\* What the invariants say of the control data.
LEMMA CgiInvImplies == TimersInv /\ CgiInv => ProcExact
<1> SUFFICES ASSUME TimersInv, CgiInv PROVE ProcAlive /\ ProcFreed /\ ChildReaped
  BY DEF ProcExact
<1>1. ASSUME NEW c \in Cgi
      PROVE  /\ TimerHolds(c) => TimerRefers(c)
             /\ ~stopping /\ worker[c] # "timer" /\ TimerRefers(c) => TimerHolds(c)
  <2>1. c \in Timer
    BY CgiAssumption
  <2>2. Listed(c) > 0 <=> Live(c)
    BY <2>1, ListedIsLive
  <2>3. Live(c) => InList(c)
    BY ThreadParts DEF Live, InList
  <2>4. ~stopping => (Live(c) <=> InList(c))
    BY <2>1, AllLive DEF TimersInv, ThreadPlaces
  <2> QED BY <2>2, <2>3, <2>4 DEF TimerHolds, TimerRefers, ActiveIs
<1>2. ASSUME NEW c \in Cgi
      PROVE  /\ proc[c].references \in Nat /\ Held(c) \in Nat
             /\ Held(c) = 0 <=> ~WorkerHolds(c) /\ ~TimerRefers(c)
  BY DEF CgiInv, CgiTypeOK, ProcState, Held
<1>3. ASSUME NEW c \in Cgi PROVE worker[c] = "done" <=> ~WorkerHolds(c) /\ worker[c] # "start"
  BY DEF CgiInv, CgiTypeOK, WorkerHolds, AbortStep
<1>4. ProcAlive
  <2> SUFFICES ASSUME NEW c \in Cgi, proc[c].freed PROVE worker[c] = "done" /\ ~TimerHolds(c)
    BY DEF ProcAlive
  <2>1. proc[c].references = 0 /\ proc[c].pid # "none" /\ Held(c) = 0
    BY <1>2 DEF CgiInv, ReferencesExact
  <2> QED BY <1>1, <1>2, <1>3, <2>1 DEF CgiInv, RequestPlaces
<1>5. ProcFreed
  <2> SUFFICES ASSUME NEW c \in Cgi, worker[c] = "done", proc[c].pid # "none", ~stopping,
                      adder[c].pc # "rejected", ~TimerHolds(c)
               PROVE  proc[c].freed
    BY DEF ProcFreed
  <2>1. Held(c) = 0
    BY <1>1, <1>2, <1>3
  <2> QED BY <2>1 DEF CgiInv, ReferencesExact
<1>6. ChildReaped
  BY DEF CgiInv, ChildPlaces, ChildReaped
<1> QED BY <1>4, <1>5, <1>6

\* The control data of a CGI process is freed once, by the last of the worker and the timer
\* thread, and the process is waited for: for any number of requests, timers and pids, however
\* the pids are used again, and wherever the stop of the server falls.
THEOREM ProcessDataIsExact == Spec => []ProcExact
<1>1. Init => TimersInv /\ CgiInv
  BY TimersInitial, CgiInitial DEF Init
<1>2. TimersInv /\ CgiInv /\ [Next]_vars => TimersInv' /\ CgiInv'
  BY NextOfTimers, TimersStepInv, CgiStepInv
<1> QED BY <1>1, <1>2, CgiInvImplies, PTL DEF Spec
=============================================================================
