--------------------------- MODULE LuaWebsockets ---------------------------
(***************************************************************************)
(* Lua websocket scripts (mod_lua.inl).  All connections to one script     *)
(* share a Lua state, a list of connections and a mutex (ws_mutex); the    *)
(* scripts of a server are in a list that the context lock protects.  The  *)
(* handlers of a script run in the worker of the connection, its timers in *)
(* the timer thread.  A script has at most one timer at a time (a bound).  *)
(***************************************************************************)
EXTENDS Naturals, Sequences, FiniteSets, SequencesExt

CONSTANTS LuaWorkers,   \* the worker threads, which stand for their connections too
          LuaScripts    \* the script files

ASSUME LuaWebsocketsAssumption == {"none", "timer"} \cap LuaWorkers = {} /\ "null" \notin LuaScripts

VARIABLES
    lwPc,        \* [worker -> where it is]
    lwScript,    \* [worker -> the script of its connection]
    lwContext,   \* who holds the context lock, "none" when nobody does
    lwList,      \* shared_lua_websockets: scripts, "null" for an entry without a name
    lwMutex,     \* [script -> who holds ws_mutex]
    lwConns,     \* [script -> ws->conn, of length ws->references]
    lwTimer,     \* [script -> what its timer is doing, and whether it is periodic]
    lwStray,     \* has mg.write written to a connection that was gone
    lwStop,      \* stop_flag
    lwExit       \* how lua_ctx_exit went, "none" before

lwVars == <<lwPc, lwScript, lwContext, lwList, lwMutex, lwConns, lwTimer, lwStray, lwStop, lwExit>>
lwLocks == <<lwContext, lwMutex>>

NoTimer == [at |-> "none", periodic |-> FALSE]

LwInit ==
    /\ lwPc = [w \in LuaWorkers |-> "idle"] /\ lwScript = [w \in LuaWorkers |-> "null"]
    /\ lwContext = "none" /\ lwList = <<>> /\ lwMutex = [s \in LuaScripts |-> "none"]
    /\ lwConns = [s \in LuaScripts |-> <<>>] /\ lwTimer = [s \in LuaScripts |-> NoTimer]
    /\ lwStray = FALSE /\ lwStop = FALSE /\ lwExit = "none"

\* Worker w, whose connection is one of script s, goes on from one place to another.
LwStep(w, s, from, to) ==
    /\ lwPc[w] \in from /\ lwScript[w] = s /\ lwPc' = [lwPc EXCEPT ![w] = to]
    /\ lwScript' = [lwScript EXCEPT ![w] = IF to = "idle" THEN "null" ELSE @]

LockScript(w, s) == lwMutex[s] = "none" /\ lwMutex' = [lwMutex EXCEPT ![s] = w]
UnlockScript(s) == lwMutex' = [lwMutex EXCEPT ![s] = "none"]

\* strcmp along the list gets to the entry of s, to the end, or to an entry without a name.
Found(s) == \E i \in DOMAIN lwList : lwList[i] = s /\ \A j \in 1..i : lwList[j] # "null"
NullBefore(s) == ~Found(s) /\ Contains(lwList, "null")

-----------------------------------------------------------------------------
(* lua_websocket_new *)

NewLock(w, s) ==
    /\ lwPc[w] = "idle" /\ lwPc' = [lwPc EXCEPT ![w] = "search"]
    /\ lwScript' = [lwScript EXCEPT ![w] = s]
    /\ lwContext = "none" /\ lwContext' = w
    /\ UNCHANGED <<lwList, lwMutex, lwConns, lwTimer, lwStray, lwStop, lwExit>>

\* The list entry and the script's name are allocated, or one of them is not: then an
\* entry without a name stays in the list.
NewFails(w, s) ==
    /\ LwStep(w, s, {"search"}, "idle") /\ ~Found(s) /\ ~NullBefore(s) /\ lwContext' = "none"
    /\ \/ UNCHANGED lwList
       \/ lwList' = Append(lwList, "null")
    /\ UNCHANGED <<lwMutex, lwConns, lwTimer, lwStray, lwStop, lwExit>>

\* A new entry: its mutex is locked, and the script is loaded and run.
NewEntry(w, s) ==
    /\ LwStep(w, s, {"search"}, "init") /\ ~Found(s) /\ ~NullBefore(s)
    /\ lwList' = Append(lwList, s) /\ lwMutex' = [lwMutex EXCEPT ![s] = w]
    /\ lwConns' = [lwConns EXCEPT ![s] = <<w>>]
    /\ UNCHANGED <<lwContext, lwTimer, lwStray, lwStop, lwExit>>

NewEntryReady(w, s) ==
    /\ LwStep(w, s, {"init"}, "inopen") /\ lwContext' = "none"
    /\ UNCHANGED <<lwList, lwMutex, lwConns, lwTimer, lwStray, lwStop, lwExit>>

\* An entry that is there: its mutex is waited for with the context locked.
NewFound(w, s) ==
    /\ LwStep(w, s, {"search"}, "join") /\ Found(s)
    /\ UNCHANGED <<lwLocks, lwList, lwConns, lwTimer, lwStray, lwStop, lwExit>>

NewJoin(w, s) ==
    /\ LwStep(w, s, {"join"}, "inopen") /\ LockScript(w, s) /\ lwContext' = "none"
    /\ lwConns' = [lwConns EXCEPT ![s] = Append(@, w)]
    /\ UNCHANGED <<lwList, lwTimer, lwStray, lwStop, lwExit>>

\* The search compares with a NULL pointer; the process ends.
NewCrashes(w, s) ==
    /\ lwPc[w] = "search" /\ lwScript[w] = s /\ NullBefore(s)
    /\ lwPc' = [u \in LuaWorkers |-> "crashed"]
    /\ lwTimer' = [t \in LuaScripts |-> NoTimer]
    /\ UNCHANGED <<lwScript, lwLocks, lwList, lwConns, lwStray, lwStop, lwExit>>

\* Mutant: a rejected connection clears its place and stays counted.
OpenRejectsKeeps(w, s) ==
    /\ LwStep(w, s, {"inopen"}, "idle") /\ UnlockScript(s)
    /\ UNCHANGED <<lwContext, lwList, lwConns, lwTimer, lwStray, lwStop, lwExit>>

\* The open handler fails or does not return true: the last connection is taken off.
OpenRejects(w, s) ==
    /\ LwStep(w, s, {"inopen"}, "idle") /\ UnlockScript(s)
    /\ lwConns' = [lwConns EXCEPT ![s] = Front(@)]
    /\ UNCHANGED <<lwContext, lwList, lwTimer, lwStray, lwStop, lwExit>>

OpenAccepts(w, s) ==
    /\ LwStep(w, s, {"inopen"}, "opened") /\ UnlockScript(s)
    /\ UNCHANGED <<lwContext, lwList, lwConns, lwTimer, lwStray, lwStop, lwExit>>

-----------------------------------------------------------------------------
(* The ready and data handlers, and the end of a connection *)

HandlerCalled(w, s) ==
    /\ LwStep(w, s, {"opened", "read"}, "inhandler") /\ LockScript(w, s)
    /\ UNCHANGED <<lwContext, lwList, lwConns, lwTimer, lwStray, lwStop, lwExit>>

HandlerReturns(w, s, ok) ==
    /\ LwStep(w, s, {"inhandler"}, IF ok THEN "read" ELSE "closing") /\ UnlockScript(s)
    /\ UNCHANGED <<lwContext, lwList, lwConns, lwTimer, lwStray, lwStop, lwExit>>

\* The handshake fails, or the read loop ends.
ConnectionEnds(w, s) ==
    /\ LwStep(w, s, {"opened", "read"}, "closing")
    /\ UNCHANGED <<lwLocks, lwList, lwConns, lwTimer, lwStray, lwStop, lwExit>>

\* lua_websocket_close, called by close_connection.
CloseCalled(w, s) ==
    /\ LwStep(w, s, {"closing"}, "inclose") /\ LockScript(w, s)
    /\ UNCHANGED <<lwContext, lwList, lwConns, lwTimer, lwStray, lwStop, lwExit>>

\* The place of the connection is filled with the last one.
Without(conns, w) ==
    LET last == Len(conns)
    IN  [i \in 1..last - 1 |-> IF conns[i] = w THEN conns[last] ELSE conns[i]]

\* Mutant: the last place is given up, whoever is in it.
CloseRemovesLast(w, s) ==
    LET conns == Front(lwConns[s])
    IN  /\ LwStep(w, s, {"inclose"}, IF conns = <<>> THEN "unlist" ELSE "idle")
        /\ lwConns' = [lwConns EXCEPT ![s] = conns]
        /\ IF conns = <<>> THEN UNCHANGED lwMutex ELSE UnlockScript(s)
        /\ UNCHANGED <<lwContext, lwList, lwTimer, lwStray, lwStop, lwExit>>

\* The connection is removed; the last one of a script goes for the context lock next.
CloseRemoves(w, s) ==
    LET conns == Without(lwConns[s], w)
    IN  /\ LwStep(w, s, {"inclose"}, IF conns = <<>> THEN "unlist" ELSE "idle")
        /\ lwConns' = [lwConns EXCEPT ![s] = conns]
        /\ IF conns = <<>> THEN UNCHANGED lwMutex ELSE UnlockScript(s)
        /\ UNCHANGED <<lwContext, lwList, lwTimer, lwStray, lwStop, lwExit>>

\* Under the context lock the entry is searched for; entry and Lua state are kept.
CloseSearches(w, s) ==
    /\ LwStep(w, s, {"unlist"}, "idle") /\ lwContext = "none" /\ UnlockScript(s)
    /\ UNCHANGED <<lwContext, lwList, lwConns, lwTimer, lwStray, lwStop, lwExit>>

-----------------------------------------------------------------------------
(* What a script does while it runs, and its timer *)

\* Who runs in the Lua state of s with ws_mutex locked.
Running(s) ==
    \/ lwMutex[s] = "timer"
    \/ \E w \in LuaWorkers : lwMutex[s] = w /\ lwPc[w] # "unlist"

\* The connections of s that are there, from lua_websocket_new to lua_websocket_close.
Connected(s) ==
    {w \in LuaWorkers : lwScript[w] = s
                        /\ lwPc[w] \in {"init", "inopen", "opened", "read", "inhandler", "closing", "inclose"}}

\* mg.write to all connections of the script.
LuaWrite(s) ==
    /\ Running(s) /\ lwStray' = (lwStray \/ ~(ToSet(lwConns[s]) \subseteq Connected(s)))
    /\ UNCHANGED <<lwPc, lwScript, lwLocks, lwList, lwConns, lwTimer, lwStop, lwExit>>

\* mg.set_timeout and mg.set_interval; a timer cannot be added when the server has stopped.
SetTimer(s, periodic) ==
    /\ Running(s) /\ lwTimer[s].at = "none" /\ ~lwStop
    /\ lwTimer' = [lwTimer EXCEPT ![s] = [at |-> "armed", periodic |-> periodic]]
    /\ UNCHANGED <<lwPc, lwScript, lwLocks, lwList, lwConns, lwStray, lwStop, lwExit>>

TimerStep(s, from, to) == lwTimer[s].at = from /\ lwTimer' = [lwTimer EXCEPT ![s].at = to]

\* lua_action_string and lua_action_funcref wait for ws_mutex and run the script.
TimerActs(s) ==
    /\ TimerStep(s, "armed", "act") /\ LockScript("timer", s)
    /\ \A t \in LuaScripts : lwTimer[t].at \notin {"act", "cancel"}
    /\ UNCHANGED <<lwPc, lwScript, lwContext, lwList, lwConns, lwStray, lwStop, lwExit>>

\* A periodic timer whose action returned true is added again; the others are cancelled.
TimerEnds(s, ok) ==
    /\ TimerStep(s, "act", IF ok /\ lwTimer[s].periodic THEN "armed" ELSE "cancel") /\ UnlockScript(s)
    /\ UNCHANGED <<lwPc, lwScript, lwContext, lwList, lwConns, lwStray, lwStop, lwExit>>

\* lua_action_funcref_cancel changes the Lua state and does not lock ws_mutex.
TimerCancelled(s) ==
    /\ TimerStep(s, "cancel", "none")
    /\ UNCHANGED <<lwPc, lwScript, lwLocks, lwList, lwConns, lwStray, lwStop, lwExit>>

\* The timer thread ends and cancels what is left.
TimersCancelled ==
    /\ lwStop /\ \A s \in LuaScripts : lwTimer[s].at \notin {"act", "cancel"}
    /\ \E s \in LuaScripts : lwTimer[s].at = "armed"
    /\ lwTimer' = [s \in LuaScripts |-> NoTimer]
    /\ UNCHANGED <<lwPc, lwScript, lwLocks, lwList, lwConns, lwStray, lwStop, lwExit>>

LuaStopCalled ==
    /\ ~lwStop /\ lwStop' = TRUE /\ \A w \in LuaWorkers : lwPc[w] # "crashed"
    /\ UNCHANGED <<lwPc, lwScript, lwLocks, lwList, lwConns, lwTimer, lwStray, lwExit>>

\* lua_ctx_exit, when all threads are gone.  The first entry is closed and freed.  From the
\* second on the loop runs on the variable that holds the next entry, which it overwrites
\* before it frees: the entry after the one just closed is freed, and closed after that.
LuaCtxExit ==
    /\ lwStop /\ \A w \in LuaWorkers : lwPc[w] = "idle" /\ \A s \in LuaScripts : lwTimer[s].at = "none"
    /\ lwPc' = [w \in LuaWorkers |-> "ended"]
    /\ lwExit' = IF Len(lwList) > 2 THEN "used after free"
                 ELSE IF Contains(lwList, "null") THEN "no state"
                 ELSE IF Len(lwList) = 2 THEN "leaked" ELSE "freed"
    /\ UNCHANGED <<lwScript, lwLocks, lwList, lwConns, lwTimer, lwStray, lwStop>>

\* What a worker does by itself, without a client.
LwWorker(w, s) ==
    \/ NewFails(w, s) \/ NewEntry(w, s) \/ NewEntryReady(w, s) \/ NewFound(w, s) \/ NewJoin(w, s)
    \/ NewCrashes(w, s) \/ OpenRejects(w, s) \/ OpenAccepts(w, s)
    \/ \E ok \in BOOLEAN : HandlerReturns(w, s, ok)
    \/ CloseCalled(w, s) \/ CloseRemoves(w, s) \/ CloseSearches(w, s)

LwNext ==
    \/ \E w \in LuaWorkers, s \in LuaScripts :
           NewLock(w, s) \/ LwWorker(w, s) \/ HandlerCalled(w, s) \/ ConnectionEnds(w, s)
    \/ \E s \in LuaScripts :
           \/ LuaWrite(s) \/ TimerActs(s) \/ TimerCancelled(s)
           \/ \E b \in BOOLEAN : SetTimer(s, b) \/ TimerEnds(s, b)
    \/ TimersCancelled \/ LuaStopCalled \/ LuaCtxExit

\* Threads run on and the handlers of a script return; a mutex goes to whoever waits for it.
LwFairness ==
    /\ \A w \in LuaWorkers : SF_lwVars(\E s \in LuaScripts : LwWorker(w, s))
    /\ \A s \in LuaScripts : WF_lwVars(TimerCancelled(s) \/ \E ok \in BOOLEAN : TimerEnds(s, ok))

LwSpec == LwInit /\ [][LwNext]_lwVars /\ LwFairness

-----------------------------------------------------------------------------
(* Properties *)

\* ws->conn holds every connection of the script exactly once, and no connection that was
\* rejected or closed (mod_lua.inl lua_websocket_new and lua_websocket_close): mg.write, from
\* whichever thread, never writes to a connection that is gone or belongs to another script.
LuaConnsExact ==
    (\A w \in LuaWorkers : lwPc[w] # "crashed") =>
        \A s \in LuaScripts :
            /\ ToSet(lwConns[s]) = Connected(s) /\ ~lwStray
            /\ Len(lwConns[s]) = Cardinality(Connected(s))

\* "The lock must be released with a call to mg_unlock_context()"
\* (docs/api/mg_lock_context.md): a thread that has the context lock gives it back, although
\* it waits for ws_mutex with it (mod_lua.inl:3388) while lua_websocket_close waits for the
\* context lock with ws_mutex (mod_lua.inl:3540).
ContextReleased == \A w \in LuaWorkers : lwContext = w ~> lwContext # w \/ lwPc[w] = "crashed"

\* "Save "next" pointer before freeing list element" (mod_lua.inl:3693, in lua_ctx_exit):
\* every entry of the list is closed and freed once, before its successor is looked at.  It does
\* not hold with two scripts or more.
ListFreed == lwExit \in {"none", "freed"}
=============================================================================
