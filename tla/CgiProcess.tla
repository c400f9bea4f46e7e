----------------------------- MODULE CgiProcess -----------------------------
(***************************************************************************)
(* CGI requests: a worker thread in handle_cgi_request spawns a process,   *)
(* starts a timer that aborts it after cgi_timeout_ms, forwards its        *)
(* output, and aborts it in the end.  The timer thread of Timers calls the *)
(* same abort_cgi_process, so both may be in it at once; the number of     *)
(* references decides who frees struct process_control_data.               *)
(***************************************************************************)
EXTENDS Timers

CONSTANTS Cgi,  \* CGI requests, each handled by a worker of its own
          Pid   \* process ids; a free one may be used again

ASSUME CgiAssumption ==
    /\ Cgi \subseteq Timer
    /\ \A c \in Cgi : Period[c] = 0
    /\ Cgi \cap {"foreign", "none"} = {} /\ "none" \notin Pid

VARIABLES
    process,     \* the kernel's process table: what runs under each pid
    proc,        \* struct process_control_data of each request
    worker,      \* the worker thread of each request, in handle_cgi_request
    aborter,     \* the timer thread in abort_cgi_process
    killed       \* <<c, owner>>: the abort of request c has killed owner's process

cgiVars == <<process, proc, worker, aborter, killed>>
vars == <<timerVars, cgiVars>>

NoProcess == [owner |-> "none", state |-> "none"]

\* A process: its owner is the request that spawned it, or "foreign" when it is
\* not a child of the server.  exit0 and exit1 are zombies, by exit status.
Process == [owner : Cgi, state : {"running", "exit0", "exit1"}]
             \cup {[owner |-> "foreign", state |-> "running"], NoProcess}

ProcState == [pid : Pid \cup {"none"}, references : 0..2, freed : BOOLEAN]

AbortStep == {"check", "kill", "wait", "release"}

TypeOK ==
    /\ TimersTypeOK
    /\ process \in [Pid -> Process]
    /\ proc \in [Cgi -> ProcState]
    /\ worker \in [Cgi -> {"start", "timer", "run", "done"} \cup AbortStep]
    /\ aborter \in {"none", "returned"} \cup AbortStep
    /\ killed \subseteq Cgi \X (Cgi \cup {"foreign"})

Init ==
    /\ TimersInit
    /\ process = [p \in Pid |-> NoProcess]
    /\ proc = [c \in Cgi |-> [pid |-> "none", references |-> 0, freed |-> FALSE]]
    /\ worker = [c \in Cgi |-> "start"]
    /\ aborter = "none"
    /\ killed = {}

------------------------------------------------------------------------------
(* handle_cgi_request                                                      *)

\* No environment, no pipes, no memory, or fork fails.
SpawnFails(c) ==
    /\ worker[c] = "start"
    /\ worker' = [worker EXCEPT ![c] = "done"]
    /\ UNCHANGED <<timerVars, process, proc, aborter, killed>>

\* Mutant: the timer's reference to the process data is not counted.
SpawnOneReference(c) ==
    /\ worker[c] = "start"
    /\ \E p \in Pid :
          /\ process[p] = NoProcess
          /\ process' = [process EXCEPT ![p] = [owner |-> c, state |-> "running"]]
          /\ proc' = [proc EXCEPT ![c] = [pid |-> p, references |-> 1, freed |-> FALSE]]
    /\ worker' = [worker EXCEPT ![c] = "timer"]
    /\ UNCHANGED <<timerVars, aborter, killed>>

\* spawn_process, then one reference for the worker and one for the timer, if
\* a timeout is configured.
Spawn(c) ==
    /\ worker[c] = "start"
    /\ \E p \in Pid, timeout \in BOOLEAN :
          /\ process[p] = NoProcess
          /\ process' = [process EXCEPT ![p] = [owner |-> c, state |-> "running"]]
          /\ proc' = [proc EXCEPT ![c] = [pid |-> p, references |-> IF timeout THEN 2 ELSE 1,
                                          freed |-> FALSE]]
          /\ worker' = [worker EXCEPT ![c] = IF timeout THEN "timer" ELSE "run"]
    /\ UNCHANGED <<timerVars, aborter, killed>>

\* timer_add, its result is not looked at.
StartTimer(c) ==
    /\ worker[c] = "timer"
    /\ \/ \E delay \in Delays : TimerAdd(c, delay) /\ UNCHANGED worker
       \/ TimerInsert(c) /\ UNCHANGED worker
       \/ /\ adder[c].pc \in {"accepted", "rejected"}
          /\ worker' = [worker EXCEPT ![c] = "run"]
          /\ UNCHANGED timerVars
    /\ UNCHANGED <<process, proc, aborter, killed>>

HasEnded(c) == \A p \in Pid : process[p] # [owner |-> c, state |-> "running"]

\* The output has been forwarded, or an error ends the request: goto done.
Forwarded(c) ==
    /\ worker[c] = "run"
    /\ worker' = [worker EXCEPT ![c] = "check"]
    /\ UNCHANGED <<timerVars, process, proc, aborter, killed>>

------------------------------------------------------------------------------
(* abort_cgi_process, by the worker or by the timer thread: each operator   *)
(* relates the step before (at) to the step after (next) for request c.     *)

Child(p) == process[p].owner \in Cgi
Zombie(p) == process[p].state \in {"exit0", "exit1"}

\* waitpid(WNOHANG): 0 for a running child, its pid for one it reaps, else -1.
WaitNoHang(c, at, next) ==
    LET p == proc[c].pid
    IN  /\ at = "check"
        /\ next = IF Child(p) /\ process[p].state # "exit1" THEN "kill" ELSE "release"
        /\ process' = IF Child(p) /\ Zombie(p) THEN [process EXCEPT ![p] = NoProcess] ELSE process
        /\ UNCHANGED <<proc, killed>>

\* kill(SIGABRT): whatever runs under the pid now ends.
Kill(c, at, next) ==
    LET p == proc[c].pid
    IN  /\ at = "kill"
        /\ next = "wait"
        /\ process' = IF process[p].state # "running" THEN process
                      ELSE [process EXCEPT ![p] = IF Child(p) THEN [@ EXCEPT !.state = "exit1"]
                                                              ELSE NoProcess]
        /\ killed' = IF process[p].state # "running" THEN killed
                     ELSE killed \cup {<<c, process[p].owner>>}
        /\ UNCHANGED proc

\* Mutant: the zombie is left behind.
WaitNot(c, at, next) ==
    /\ at = "wait"
    /\ next = "release"
    /\ UNCHANGED <<process, proc, killed>>

\* waitpid(0), again and again until there is no such child.
Wait(c, at, next) ==
    LET p == proc[c].pid
    IN  /\ at = "wait"
        /\ \/ /\ Child(p) /\ Zombie(p)
              /\ process' = [process EXCEPT ![p] = NoProcess]
              /\ next = "wait"
           \/ /\ ~Child(p)
              /\ UNCHANGED process
              /\ next = "release"
        /\ UNCHANGED <<proc, killed>>

\* Mutant: the data is freed by the first of the two threads.
ReleaseFreesFirst(c, at, next, end) ==
    /\ at = "release"
    /\ next = end
    /\ proc' = [proc EXCEPT ![c].references = @ - 1, ![c].freed = TRUE]
    /\ UNCHANGED <<process, killed>>

\* Mutant: the counter is compared before it is decremented.
ReleaseComparesFirst(c, at, next, end) ==
    /\ at = "release"
    /\ next = end
    /\ proc' = [proc EXCEPT ![c].references = @ - 1, ![c].freed = (proc[c].references = 0)]
    /\ UNCHANGED <<process, killed>>

\* Decrement the reference counter; the last one frees the data.
Release(c, at, next, end) ==
    /\ at = "release"
    /\ next = end
    /\ proc' = [proc EXCEPT ![c].references = @ - 1, ![c].freed = (proc[c].references = 1)]
    /\ UNCHANGED <<process, killed>>

abort_cgi_process(c, at, next, end) ==
    \/ WaitNoHang(c, at, next) \/ Kill(c, at, next) \/ Wait(c, at, next)
    \/ Release(c, at, next, end)

WorkerAborts(c) ==
    /\ \E next \in AbortStep \cup {"done"} :
          /\ abort_cgi_process(c, worker[c], next, "done")
          /\ worker' = [worker EXCEPT ![c] = next]
    /\ UNCHANGED <<timerVars, aborter>>

\* The timer thread calls the action of a CGI timer, which returns 0.
TimerAborts ==
    /\ thread.pc = "action" /\ Active.id \in Cgi
    /\ \/ /\ aborter = "none"
          /\ aborter' = "check"
          /\ UNCHANGED <<timerVars, process, proc, killed>>
       \/ \E next \in AbortStep \cup {"returned"} :
             /\ abort_cgi_process(Active.id, aborter, next, "returned")
             /\ aborter' = next
             /\ UNCHANGED timerVars
       \/ /\ aborter = "returned"
          /\ ActionLast
          /\ aborter' = "none"
          /\ UNCHANGED <<process, proc, killed>>
    /\ UNCHANGED worker

------------------------------------------------------------------------------
(* Processes                                                               *)

ProcessExits(p) ==
    /\ process[p].state = "running"
    /\ \E s \in {"exit0", "exit1"} :
          process' = [process EXCEPT ![p] = IF Child(p) THEN [@ EXCEPT !.state = s] ELSE NoProcess]
    /\ UNCHANGED <<timerVars, proc, worker, aborter, killed>>

ForeignStarts(p) ==
    /\ process[p] = NoProcess
    /\ process' = [process EXCEPT ![p] = [owner |-> "foreign", state |-> "running"]]
    /\ UNCHANGED <<timerVars, proc, worker, aborter, killed>>

------------------------------------------------------------------------------
\* Timers of Lua scripts: any thread, with a period and a cancel function.
OtherTimer(i) == /\ \/ \E delay \in Delays : TimerAdd(i, delay)
                    \/ TimerInsert(i)
                 /\ UNCHANGED cgiVars

TimerThread == \/ TimerAborts
               \/ LoopStep /\ UNCHANGED cgiVars
               \/ /\ thread.pc = "action" /\ Active.id \notin Cgi
                  /\ ActionAgain \/ ActionLast
                  /\ UNCHANGED cgiVars

MgStop == (Stop \/ TimersExit) /\ UNCHANGED cgiVars

\* Everything has ended.
Terminated == /\ stopping /\ ~allocated
              /\ \A c \in Cgi : worker[c] = "done" \/ adder[c].pc = "fault"
              /\ UNCHANGED vars

WorkerStep(c) == Spawn(c) \/ SpawnFails(c) \/ StartTimer(c) \/ WorkerAborts(c)

Next == \/ \E c \in Cgi : WorkerStep(c) \/ Forwarded(c)
        \/ \E i \in Timer \ Cgi : OtherTimer(i)
        \/ TimerThread \/ MgStop \/ Terminated
        \/ \E p \in Pid : ProcessExits(p) \/ ForeignStarts(p)
        \/ Tick /\ UNCHANGED cgiVars

Spec == Init /\ [][Next]_vars

\* Threads are scheduled and time passes.  A process need not end, and a worker
\* gets to the end of its output only when the process has.
Fairness == /\ \A c \in Cgi : /\ WF_vars(WorkerStep(c))
                              /\ WF_vars(HasEnded(c) /\ Forwarded(c))
            /\ WF_vars(TimerThread)
            /\ WF_vars(Tick /\ UNCHANGED cgiVars)

FairSpec == Spec /\ Fairness

------------------------------------------------------------------------------
(* Properties                                                              *)

\* The timer of request c still holds a pointer to the process data.
TimerHolds(c) == \/ adder[c].pc = "insert"
                 \/ Listed(c) > 0
                 \/ thread.t # <<>> /\ Active.id = c /\ aborter # "returned"

\* Whoever can still reach struct process_control_data, the worker or the timer
\* thread in any order, finds it not yet freed (references in abort_cgi_process).
ProcAlive ==
    \A c \in Cgi : proc[c].freed =>
        worker[c] = "done" /\ ~TimerHolds(c)

\* The data is freed in the end, unless the server stopped or the timer could
\* not be started.
ProcFreed ==
    \A c \in Cgi : worker[c] = "done" /\ proc[c].pid # "none" /\ ~stopping
                     /\ adder[c].pc # "rejected" /\ ~TimerHolds(c)
                   => proc[c].freed

\* When a CGI request is over, its process has ended and is no zombie, whichever
\* thread killed it or waited for it ("don't leave zombies").
ChildReaped ==
    \A c \in Cgi, p \in Pid : worker[c] = "done" => process[p].owner # c

\* Under FairSpec: a CGI program that never ends is terminated after its
\* timeout, so that its request ends, unless the server is stopped.
TimeoutEnds ==
    \A c \in Cgi : worker[c] = "run" /\ adder[c].pc = "accepted"
                   ~> worker[c] = "done" \/ stopping

\* abort_cgi_process: "Waitpid checks for child status and won't work for a pid
\* that does not identify a child of the current process. Thus, if the pid is
\* reused, we will not affect a different process."  It does not hold: a child that ended
\* with status 0 is reaped by that very call.
KillsOwnChild == \A k \in killed : k[2] = k[1]

\* The control data of a CGI process is freed once, when handler and timer have both let go
\* of it and not before (the timer of a stopping server aside), and no child that was started
\* stays a zombie.
ProcExact == ProcAlive /\ ProcFreed /\ ChildReaped
=============================================================================
