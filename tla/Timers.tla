------------------------------- MODULE Timers -------------------------------
(***************************************************************************)
(* The timer thread (timer.inl) and the threads that start timers with     *)
(* timer_add.  Every member of Timer stands for one call of timer_add by   *)
(* some thread of the server, and for the timer that call starts.          *)
(*                                                                         *)
(* timer_add looks at ctx->timers and at the clock before it takes the     *)
(* mutex, so it is two steps.  The timer thread reads the clock only when  *)
(* it has slept, calls actions without the mutex, and runs over the        *)
(* remaining timers at the end without the mutex.                          *)
(***************************************************************************)
EXTENDS Integers, Sequences, FiniteSets

CONSTANTS Timer,              \* calls of timer_add
          MAX_TIMERS,         \* capacity of the list
          Period,             \* Timer -> period, 0 for a one-shot timer
          Delays,             \* relative times timer_add is called with
          MaxTime             \* bound: the clock and the times of timers

ASSUME TimersAssumption ==
    /\ MAX_TIMERS \in Nat \ {0}
    /\ Period \in [Timer -> Nat]
    /\ Delays \subseteq Nat
    /\ MaxTime \in Nat

VARIABLES
    now,        \* CLOCK_MONOTONIC
    allocated,  \* ctx->timers # NULL
    timers,     \* ctx->timers->timers
    capacity,   \* ctx->timers->timer_capacity
    adder,      \* the call of timer_add each timer is in
    thread,     \* the timer thread
    stopping,   \* ctx->stop_flag # 0
    cancelled,  \* how often each timer was given up (cancel, or its last action)
    addedLate   \* a timer was added although the server was stopping

timerVars == <<now, allocated, timers, capacity, adder, thread, stopping, cancelled,
               addedLate>>

Time == 0..MaxTime

Entry == [id : Timer, time : Time]      \* struct ttimer

\* pc, the local d, the active timer t (no entry when t = <<>>) and the index u
Thread == [pc : {"loop", "action", "readd", "drain", "ended"},
           d : Time, t : {<<>>} \cup [1..1 -> Entry], u : Nat]

Adder == [pc : {"idle", "insert", "accepted", "rejected", "fault"}, time : Time]

TimersTypeOK ==
    /\ now \in Time
    /\ allocated \in BOOLEAN
    /\ timers \in Seq(Entry) /\ Len(timers) <= MAX_TIMERS
    /\ capacity \in Nat /\ Len(timers) <= capacity
    /\ adder \in [Timer -> Adder]
    /\ thread \in Thread
    /\ stopping \in BOOLEAN
    /\ cancelled \in [Timer -> Nat]
    /\ addedLate \in BOOLEAN

\* timers_init
TimersInit ==
    /\ now = 0
    /\ allocated = TRUE
    /\ timers = <<>>
    /\ capacity = 0
    /\ adder = [i \in Timer |-> [pc |-> "idle", time |-> 0]]
    /\ thread = [pc |-> "loop", d |-> 0, t |-> <<>>, u |-> 0]
    /\ stopping = FALSE
    /\ cancelled = [i \in Timer |-> 0]
    /\ addedLate = FALSE

Tick == /\ now < MaxTime
        /\ now' = now + 1
        /\ UNCHANGED <<allocated, timers, capacity, adder, thread, stopping, cancelled, addedLate>>

------------------------------------------------------------------------------
(* timer_add                                                               *)

\* Is there a timer thread?  Then turn the delay into an absolute time.
TimerAdd(i, delay) ==
    /\ adder[i].pc = "idle"
    /\ allocated => now + delay <= MaxTime
    /\ adder' = [adder EXCEPT ![i] =
                    IF allocated THEN [pc |-> "insert", time |-> now + delay]
                                 ELSE [pc |-> "rejected", time |-> 0]]
    /\ UNCHANGED <<now, allocated, timers, capacity, thread, stopping, cancelled, addedLate>>

\* Mutant: a timer is put before the ones with an earlier time.
InsertAtFront(e) == timers' = <<e>> \o timers

\* Move the timers with a later time up by one, from the end of the list.
Insert(e) ==
    \E u \in 0..Len(timers) :
        /\ u > 0 => timers[u].time <= e.time
        /\ \A k \in (u + 1)..Len(timers) : timers[k].time > e.time
        /\ timers' = [k \in 1..(Len(timers) + 1) |->
                         IF k <= u THEN timers[k]
                         ELSE IF k = u + 1 THEN e ELSE timers[k - 1]]

\* In the critical section: the list has room, or can grow ...
AddEntry(e) ==
    /\ Len(timers) < MAX_TIMERS
    /\ \/ Len(timers) < capacity /\ UNCHANGED capacity
       \/ Len(timers) = capacity /\ capacity' = 2 * capacity + 1
    /\ Insert(e)

\* ... or it is full, or the memory is.
AddFails ==
    /\ Len(timers) \in {MAX_TIMERS, capacity}
    /\ UNCHANGED <<timers, capacity>>

\* The mutex and the list are gone if timers_exit came first: the thread uses
\* freed memory, which ends it here.
TimerInsert(i) ==
    /\ adder[i].pc = "insert"
    /\ \/ /\ allocated
          /\ AddEntry([id |-> i, time |-> adder[i].time])
          /\ adder' = [adder EXCEPT ![i].pc = "accepted"]
          /\ addedLate' = (addedLate \/ stopping)
       \/ /\ allocated
          /\ AddFails
          /\ adder' = [adder EXCEPT ![i].pc = "rejected"]
          /\ UNCHANGED addedLate
       \/ /\ ~allocated
          /\ adder' = [adder EXCEPT ![i].pc = "fault"]
          /\ UNCHANGED <<timers, capacity, addedLate>>
    /\ UNCHANGED <<now, allocated, thread, stopping, cancelled>>

------------------------------------------------------------------------------
(* timer_thread_run                                                        *)

Due == timers # <<>> /\ thread.d >= timers[1].time

\* Mutant: the first timer is called whether it is due or not.
TakeFirst ==
    /\ thread.pc = "loop" /\ ~stopping
    /\ timers # <<>>
    /\ thread' = [thread EXCEPT !.pc = "action", !.t = <<timers[1]>>]
    /\ timers' = Tail(timers)
    /\ UNCHANGED <<now, allocated, capacity, adder, stopping, cancelled, addedLate>>

\* "First action should run now": take it from the list and call it.
TakeTimer ==
    /\ thread.pc = "loop" /\ ~stopping
    /\ Due
    /\ thread' = [thread EXCEPT !.pc = "action", !.t = <<timers[1]>>]
    /\ timers' = Tail(timers)
    /\ UNCHANGED <<now, allocated, capacity, adder, stopping, cancelled, addedLate>>

Active == thread.t[1]

NextTime == LET next == Active.time + Period[Active.id]
            IN  IF next < now THEN now ELSE next

\* The action returns 1 and has a period: schedule it again ...
ActionAgain ==
    /\ thread.pc = "action"
    /\ Period[Active.id] > 0
    /\ NextTime <= MaxTime
    /\ thread' = [thread EXCEPT !.pc = "readd", !.t = <<[Active EXCEPT !.time = NextTime]>>]
    /\ UNCHANGED <<now, allocated, timers, capacity, adder, stopping, cancelled, addedLate>>

\* ... or it does not: "Allow user to free timer argument".
ActionLast ==
    /\ thread.pc = "action"
    /\ cancelled' = [cancelled EXCEPT ![Active.id] = @ + 1]
    /\ thread' = [thread EXCEPT !.pc = "loop", !.t = <<>>]
    /\ UNCHANGED <<now, allocated, timers, capacity, adder, stopping, addedLate>>

\* timer_add called by the timer thread; its result is not looked at.
Readd ==
    /\ thread.pc = "readd"
    /\ AddEntry(Active) \/ AddFails
    /\ thread' = [thread EXCEPT !.pc = "loop", !.t = <<>>]
    /\ UNCHANGED <<now, allocated, adder, stopping, cancelled, addedLate>>

\* Mutant: the clock is read only once, before the loop.
SleepKeepsClock ==
    /\ thread.pc = "loop" /\ ~stopping
    /\ ~Due
    /\ UNCHANGED timerVars

\* Nothing to do: sleep and read the clock.
Sleep ==
    /\ thread.pc = "loop" /\ ~stopping
    /\ ~Due
    /\ thread' = [thread EXCEPT !.d = now]
    /\ UNCHANGED <<now, allocated, timers, capacity, adder, stopping, cancelled, addedLate>>

\* The stop flag ends the loop; "Remove remaining timers" begins.
SeeStop ==
    /\ thread.pc = "loop" /\ stopping
    /\ thread' = [thread EXCEPT !.pc = "drain", !.u = 0]
    /\ UNCHANGED <<now, allocated, timers, capacity, adder, stopping, cancelled, addedLate>>

\* Mutant: the loop over the remaining timers counts from one.
DrainSkipsFirst ==
    /\ thread.pc = "drain"
    /\ IF thread.u + 1 < Len(timers)
       THEN /\ cancelled' = [cancelled EXCEPT ![timers[thread.u + 2].id] = @ + 1]
            /\ thread' = [thread EXCEPT !.u = @ + 1]
       ELSE /\ thread' = [thread EXCEPT !.pc = "ended", !.u = Len(timers)]
            /\ UNCHANGED cancelled
    /\ UNCHANGED <<now, allocated, timers, capacity, adder, stopping, addedLate>>

\* One iteration over the remaining timers, without the mutex.
Drain ==
    /\ thread.pc = "drain"
    /\ IF thread.u < Len(timers)
       THEN /\ cancelled' = [cancelled EXCEPT ![timers[thread.u + 1].id] = @ + 1]
            /\ thread' = [thread EXCEPT !.u = @ + 1]
       ELSE /\ thread' = [thread EXCEPT !.pc = "ended"]
            /\ UNCHANGED cancelled
    /\ UNCHANGED <<now, allocated, timers, capacity, adder, stopping, addedLate>>

\* mg_stop sets the stop flag ...
Stop ==
    /\ ~stopping
    /\ stopping' = TRUE
    /\ UNCHANGED <<now, allocated, timers, capacity, adder, thread, cancelled, addedLate>>

\* ... and timers_exit joins the timer thread and frees the list.
TimersExit ==
    /\ stopping /\ allocated
    /\ thread.pc = "ended"
    /\ allocated' = FALSE
    /\ timers' = <<>>
    /\ capacity' = 0
    /\ UNCHANGED <<now, adder, thread, stopping, cancelled, addedLate>>

LoopStep == TakeTimer \/ Readd \/ Sleep \/ SeeStop \/ Drain

------------------------------------------------------------------------------
(* Properties of the timers                                                *)

\* The list is sorted by time, whichever threads add timers and however often
\* periodic timers are put back: the timer thread looks only at the first.
TimersSorted == \A j, k \in 1..Len(timers) : j < k => timers[j].time <= timers[k].time

\* No action is called before its time, although the timer thread compares with
\* a clock value it may have read long ago.
NotBeforeTime == thread.pc = "action" => Active.time <= now

\* How often timer i is in the part of the list the last loop has yet to reach.
Listed(i) == LET first == IF thread.pc \in {"drain", "ended"} THEN thread.u + 1 ELSE 1
             IN  Cardinality({k \in first..Len(timers) : timers[k].id = i})

\* An accepted timer is in the list, is active or has been given up, never two
\* of these and never twice, so that its argument is not freed twice; one that
\* is not periodic is not forgotten either (a periodic one is when there is no
\* room to put it back).  Provided no timer is added while the server stops.
EndsOnce ==
    ~addedLate =>
        \A i \in Timer : adder[i].pc = "accepted" =>
            LET places == Listed(i) + cancelled[i]
                          + IF thread.t # <<>> /\ Active.id = i THEN 1 ELSE 0
            IN  places <= 1 /\ (Period[i] = 0 => places = 1)

\* The timer thread and timer_add between them keep the list sorted, start no action before
\* its time, and end every timer exactly once, by its last action or by its cancelling.
TimersExact == TimersSorted /\ NotBeforeTime /\ EndsOnce
=============================================================================
