----------------------------- MODULE WinCondvar -----------------------------
(***************************************************************************)
(* The condition variables of the Windows build: a list of waiting threads *)
(* under a critical section of its own (threadIdSec), and one auto-reset   *)
(* event per thread (pthread_cond_helper_mutex in its TLS).  A wait can    *)
(* have a timeout, which races with a signal.                              *)
(***************************************************************************)
EXTENDS Naturals, Sequences

CONSTANT CvThreads

VARIABLES
    waiting_thread,   \* the list, longest waiting first
    helper,           \* [thread -> is its event set]
    cvMutex,          \* who holds the caller's mutex, "none" when nobody does
    cvPc,             \* [thread -> where it is]
    cvResult          \* [thread -> what its last wait returned]

cvVars == <<waiting_thread, helper, cvMutex, cvPc, cvResult>>

ASSUME WinCondvarAssumption == "none" \notin CvThreads

CvInit ==
    /\ waiting_thread = <<>> /\ helper = [t \in CvThreads |-> FALSE]
    /\ cvMutex = "none" /\ cvPc = [t \in CvThreads |-> "run"]
    /\ cvResult = [t \in CvThreads |-> "none"]

Listed(t) == \E i \in DOMAIN waiting_thread : waiting_thread[i] = t
OwnerStep(t, pc) == cvMutex = t /\ cvPc[t] = "locked" /\ cvPc' = [cvPc EXCEPT ![t] = pc]
CvStep(t, from, to) == cvPc[t] = from /\ cvPc' = [cvPc EXCEPT ![t] = to]

MutexLock(t) ==
    /\ CvStep(t, "run", "locked") /\ cvMutex = "none" /\ cvMutex' = t
    /\ UNCHANGED <<waiting_thread, helper, cvResult>>

MutexUnlock(t) ==
    /\ OwnerStep(t, "run") /\ cvMutex' = "none" /\ cvResult' = [cvResult EXCEPT ![t] = "none"]
    /\ UNCHANGED <<waiting_thread, helper>>

-----------------------------------------------------------------------------
\* pthread_cond_timedwait adds the thread at the end of the list...
CondEnlist(t) ==
    /\ OwnerStep(t, "enlisted")
    /\ waiting_thread' = Append(waiting_thread, t)
    /\ UNCHANGED <<helper, cvMutex, cvResult>>

\* ... and then releases the caller's mutex.
CondRelease(t, timed) ==
    /\ CvStep(t, "enlisted", IF timed THEN "timed" ELSE "forever") /\ cvMutex' = "none"
    /\ UNCHANGED <<waiting_thread, helper, cvResult>>

\* WaitForSingleObject returns with the event, which resets it.
CondWoken(t) ==
    /\ \E from \in {"timed", "forever"} : CvStep(t, from, "relock")
    /\ helper[t] /\ helper' = [helper EXCEPT ![t] = FALSE]
    /\ cvResult' = [cvResult EXCEPT ![t] = "ok"]
    /\ UNCHANGED <<waiting_thread, cvMutex>>

\* WaitForSingleObject runs into the timeout.
CondTimeout(t) ==
    /\ CvStep(t, "timed", "timeout") /\ ~helper[t]
    /\ UNCHANGED <<waiting_thread, helper, cvMutex, cvResult>>

\* *ptls = tls->next_waiting_thread for the first entry that is the thread.
Unlink(t) ==
    \E i \in 1..Len(waiting_thread) :
        /\ waiting_thread[i] = t /\ \A k \in 1..(i - 1) : waiting_thread[k] # t
        /\ waiting_thread' = [k \in 1..(Len(waiting_thread) - 1) |->
                                 waiting_thread[IF k < i THEN k ELSE k + 1]]

\* Mutant: a thread that is signalled after its timeout leaves its event alone.
CondDelistOnly(t) ==
    /\ IF Listed(t) THEN Unlink(t) ELSE UNCHANGED waiting_thread
    /\ CvStep(t, "timeout", "relock") /\ cvResult' = [cvResult EXCEPT ![t] = "timeout"]
    /\ UNCHANGED <<helper, cvMutex>>

\* The thread takes itself off the list; when it is not there it has been signalled.
CondDelist(t) ==
    /\ IF Listed(t)
       THEN /\ Unlink(t)
            /\ CvStep(t, "timeout", "relock") /\ cvResult' = [cvResult EXCEPT ![t] = "timeout"]
       ELSE CvStep(t, "timeout", "forever") /\ UNCHANGED <<waiting_thread, cvResult>>
    /\ UNCHANGED <<helper, cvMutex>>

CondRelock(t) ==
    /\ CvStep(t, "relock", "locked") /\ cvMutex = "none" /\ cvMutex' = t
    /\ UNCHANGED <<waiting_thread, helper, cvResult>>

\* pthread_cond_signal: the longest waiting thread, if there is one.
CondSignal(t) ==
    /\ OwnerStep(t, "locked") /\ waiting_thread # <<>>
    /\ helper' = [helper EXCEPT ![Head(waiting_thread)] = TRUE]
    /\ waiting_thread' = Tail(waiting_thread)
    /\ UNCHANGED <<cvMutex, cvResult>>

\* pthread_cond_broadcast: signals until the list is empty, without leaving threadIdSec.
CondBroadcast(t) ==
    /\ OwnerStep(t, "locked")
    /\ helper' = [u \in CvThreads |-> helper[u] \/ Listed(u)]
    /\ waiting_thread' = <<>>
    /\ UNCHANGED <<cvMutex, cvResult>>

\* The callers leave somebody who can signal.
Awake(t) == \E u \in CvThreads \ {t} : cvPc[u] # "forever"

CvNext ==
    \E t \in CvThreads :
        \/ MutexLock(t) \/ MutexUnlock(t) \/ CondEnlist(t)
        \/ \E timed \in BOOLEAN : (timed \/ Awake(t)) /\ CondRelease(t, timed)
        \/ CondWoken(t) \/ CondTimeout(t) \/ CondDelist(t) \/ CondRelock(t)
        \/ CondSignal(t) \/ CondBroadcast(t)

CvSpec == CvInit /\ [][CvNext]_cvVars

-----------------------------------------------------------------------------
(* Properties *)

InWait == {"enlisted", "timed", "forever", "timeout"}

\* Every signal wakes exactly one wait, and no wait ends but by a signal of its own or by
\* its timeout (civetweb.c pthread_cond_timedwait): the event of a thread is set exactly
\* from the signal that took the thread off the list until that wait ends, however the
\* signal falls between timeout and list, so that no event is left for a later wait.
SignalsExact ==
    \A t \in CvThreads :
        /\ helper[t] <=> cvPc[t] \in InWait /\ ~Listed(t)
        /\ Listed(t) => cvPc[t] \in InWait
        /\ \A i, j \in DOMAIN waiting_thread : waiting_thread[i] = waiting_thread[j] => i = j
=============================================================================
