------------------------------ MODULE LuaProofs ------------------------------
(***************************************************************************)
(* Proofs about the Lua states that several threads use, for any number of *)
(* workers, scripts, shared keys and pages: a script's list of connections *)
(* is exact whoever joins, is rejected or leaves; an access to the shared  *)
(* table leaves the stack as it was; pages that include each other release *)
(* what they opened.                                                       *)
(***************************************************************************)
EXTENDS Components, SequenceTheorems, FiniteSetTheorems, TLAPS

-----------------------------------------------------------------------------
(* LuaWebsockets *)

\* The places of a worker in LuaWebsockets.
LwPC == {"idle", "search", "init", "inopen", "join", "opened", "read", "inhandler",
         "closing", "inclose", "unlist", "crashed", "ended"}

\* Where a worker is in its script's list of connections, and where it holds ws_mutex.
InList == {"init", "inopen", "opened", "read", "inhandler", "closing", "inclose"}
Holding == {"init", "inopen", "inhandler", "inclose", "unlist"}

\* The types of the variables; an entry whose creation failed has no name ("null").
LwTypeOK ==
    /\ lwPc \in [LuaWorkers -> LwPC]
    /\ lwScript \in [LuaWorkers -> LuaScripts \cup {"null"}]
    /\ lwList \in Seq(LuaScripts \cup {"null"})
    /\ lwMutex \in [LuaScripts -> LuaWorkers \cup {"none", "timer"}]
    /\ lwConns \in [LuaScripts -> Seq(LuaWorkers)]
    /\ lwTimer \in [LuaScripts -> [at : {"none", "armed", "act", "cancel"}, periodic : BOOLEAN]]

\* The script has an entry in the list of scripts.
HasEntry(s) == \E i \in DOMAIN lwList : lwList[i] = s

\* Who runs Lua code of a script holds its mutex: the worker of one of its connections or
\* its timer.
MutexHeld ==
    /\ \A w \in LuaWorkers, s \in LuaScripts :
         lwScript[w] = s /\ lwPc[w] \in Holding => lwMutex[s] = w
    /\ \A s \in LuaScripts : lwTimer[s].at = "act" => lwMutex[s] = "timer"

\* A script that is locked, that has a timer or connections has an entry.
EntryThere ==
    \A s \in LuaScripts :
        lwMutex[s] # "none" \/ lwTimer[s].at # "none" \/ (\E w \in LuaWorkers : lwScript[w] = s /\ lwPc[w] \in InList)
            => HasEntry(s)

\* Who waits to join a script found its entry.
EntryWaited == \A w \in LuaWorkers, s \in LuaScripts : lwScript[w] = s /\ lwPc[w] \in {"join"} => HasEntry(s)

\* The list of a script holds its connections, each once, and the one that is opened is last.
ConnList(s) ==
    /\ \A i, j \in 1..Len(lwConns[s]) : lwConns[s][i] = lwConns[s][j] => i = j
    /\ \A w \in LuaWorkers :
         (\E i \in 1..Len(lwConns[s]) : lwConns[s][i] = w) <=> lwScript[w] = s /\ lwPc[w] \in InList
    /\ \A w \in LuaWorkers :
         lwScript[w] = s /\ lwPc[w] \in {"init", "inopen"}
            => Len(lwConns[s]) > 0 /\ lwConns[s][Len(lwConns[s])] = w

\* The inductive invariant as long as the process lives.
LwLive ==
    /\ LwTypeOK /\ MutexHeld /\ EntryThere /\ EntryWaited /\ lwStray = FALSE
    /\ \A s \in LuaScripts : ConnList(s)

\* The search has compared a name with the NULL pointer of an entry whose creation failed: the
\* process has ended.
LwCrashed == LuaWorkers # {} /\ \A w \in LuaWorkers : lwPc[w] = "crashed"

LwInv == LwCrashed \/ LwLive

\* A step of one worker that leaves the connections of all scripts alone: it goes to another
\* place, and the mutex of its script, which becomes x, is free or its own.
Goes(w, s, to, x) ==
    /\ to \in LwPC /\ lwScript[w] = s /\ lwPc' = [lwPc EXCEPT ![w] = to]
    /\ lwScript' = [lwScript EXCEPT ![w] = IF to = "idle" THEN "null" ELSE @]
    /\ lwPc[w] \in InList <=> to \in InList
    /\ to \in {"init", "inopen"} => lwPc[w] \in {"init", "inopen"}
    /\ x \in {w, lwMutex[s], "none"} /\ lwMutex' = [lwMutex EXCEPT ![s] = x]
    /\ x # lwMutex[s] => lwMutex[s] \in {"none", w}
    /\ x # "none" => HasEntry(s)
    /\ to \in Holding => x = w
    /\ to = "join" => HasEntry(s)
    /\ UNCHANGED <<lwConns, lwTimer, lwStray>>
    /\ lwList' \in Seq(LuaScripts \cup {"null"})
    /\ \A t \in LuaScripts : HasEntry(t) => HasEntry(t)'

\* Such a step keeps the invariant.
LEMMA WorkerMoves ==
    ASSUME LwLive, NEW w \in LuaWorkers, NEW s \in LuaScripts, NEW to, NEW x, Goes(w, s, to, x)
    PROVE  LwLive'
<1> USE DEF Goes
<1>a. "none" \notin LuaWorkers /\ "timer" \notin LuaWorkers /\ "null" \notin LuaScripts
  BY LuaWebsocketsAssumption
<1>t. LwTypeOK
  BY DEF LwLive
<1>p. /\ lwPc' = [lwPc EXCEPT ![w] = to] /\ lwScript[w] = s
      /\ lwScript' = [lwScript EXCEPT ![w] = IF to = "idle" THEN "null" ELSE s]
  OBVIOUS
<1>1. /\ lwPc' \in [LuaWorkers -> LwPC] /\ lwPc'[w] = to
      /\ \A u \in LuaWorkers \ {w} : lwPc'[u] = lwPc[u]
  BY <1>p, <1>t DEF LwTypeOK
<1>2. /\ lwScript' \in [LuaWorkers -> LuaScripts \cup {"null"}]
      /\ to # "idle" => lwScript'[w] = s
      /\ to = "idle" => lwScript'[w] = "null"
      /\ \A u \in LuaWorkers \ {w} : lwScript'[u] = lwScript[u]
  BY <1>p, <1>t DEF LwTypeOK
<1>3. /\ lwMutex' \in [LuaScripts -> LuaWorkers \cup {"none", "timer"}] /\ lwMutex'[s] = x
      /\ \A t \in LuaScripts \ {s} : lwMutex'[t] = lwMutex[t]
  BY <1>t DEF LwTypeOK
<1>4. LwTypeOK'
  BY <1>1, <1>2, <1>3, <1>t DEF LwTypeOK
<1>5. MutexHeld'
  <2>1. ASSUME NEW u \in LuaWorkers, NEW t \in LuaScripts, lwScript'[u] = t, lwPc'[u] \in Holding
        PROVE  lwMutex'[t] = u
    <3>1. CASE u = w
      BY <3>1, <2>1, <1>1, <1>2, <1>3, <1>a DEF Holding
    <3>2. CASE u # w
      <4>1. lwMutex[t] = u
        BY <3>2, <2>1, <1>1, <1>2 DEF LwLive, MutexHeld
      <4> QED BY <4>1, <3>2, <1>3, <1>a
    <3> QED BY <3>1, <3>2
  <2>2. ASSUME NEW t \in LuaScripts, lwTimer'[t].at = "act" PROVE lwMutex'[t] = "timer"
    <3>1. lwMutex[t] = "timer"
      BY <2>2 DEF LwLive, MutexHeld
    <3> QED BY <3>1, <1>3, <1>a
  <2> QED BY <2>1, <2>2 DEF MutexHeld
<1>6. \A u \in LuaWorkers, t \in LuaScripts :
        lwScript'[u] = t /\ lwPc'[u] \in InList <=> lwScript[u] = t /\ lwPc[u] \in InList
  BY <1>1, <1>2, <1>p, <1>a DEF InList
<1>7. EntryThere'
  <2>1. ASSUME NEW t \in LuaScripts,
               \/ lwMutex'[t] # "none" \/ lwTimer'[t].at # "none"
               \/ \E u \in LuaWorkers : lwScript'[u] = t /\ lwPc'[u] \in InList
        PROVE  HasEntry(t)'
    <3>1. HasEntry(t)
      BY <2>1, <1>3, <1>6 DEF LwLive, EntryThere
    <3> QED BY <3>1
  <2> QED BY <2>1 DEF EntryThere
<1>8. ASSUME NEW t \in LuaScripts PROVE ConnList(t)'
  <2>1. ConnList(t)
    BY DEF LwLive
  <2>2. ASSUME NEW u \in LuaWorkers, lwScript'[u] = t, lwPc'[u] \in {"init", "inopen"}
        PROVE  lwScript[u] = t /\ lwPc[u] \in {"init", "inopen"}
    BY <2>2, <1>1, <1>2, <1>p
  <2>3. lwConns'[t] = lwConns[t]
    OBVIOUS
  <2>4. \A i, j \in 1..Len(lwConns'[t]) : lwConns'[t][i] = lwConns'[t][j] => i = j
    BY <2>1, <2>3 DEF ConnList
  <2>5. \A u \in LuaWorkers :
          (\E i \in 1..Len(lwConns'[t]) : lwConns'[t][i] = u) <=> lwScript'[u] = t /\ lwPc'[u] \in InList
    BY <2>1, <2>3, <1>6 DEF ConnList
  <2>6. \A u \in LuaWorkers : lwScript'[u] = t /\ lwPc'[u] \in {"init", "inopen"}
          => Len(lwConns'[t]) > 0 /\ lwConns'[t][Len(lwConns'[t])] = u
    BY <2>1, <2>2, <2>3 DEF ConnList
  <2> QED BY <2>4, <2>5, <2>6, Zenon DEF ConnList
<1>9. EntryWaited'
  <2>1. ASSUME NEW u \in LuaWorkers, NEW t \in LuaScripts, lwScript'[u] = t, lwPc'[u] \in {"join"}
        PROVE  HasEntry(t)'
    <3>1. CASE u = w
      BY <3>1, <2>1, <1>1, <1>2, <1>a
    <3>2. CASE u # w
      BY <3>2, <2>1, <1>1, <1>2 DEF LwLive, EntryWaited
    <3> QED BY <3>1, <3>2
  <2> QED BY <2>1 DEF EntryWaited
<1> QED BY <1>4, <1>5, <1>7, <1>8, <1>9 DEF LwLive

\* The steps that WorkerMoves is about.
LEMMA MovingSteps ==
    ASSUME LwLive, NEW w \in LuaWorkers, NEW s \in LuaScripts,
           \/ NewFails(w, s) \/ NewEntryReady(w, s) \/ NewFound(w, s) \/ OpenAccepts(w, s)
           \/ HandlerCalled(w, s) \/ (\E ok \in BOOLEAN : HandlerReturns(w, s, ok))
           \/ ConnectionEnds(w, s) \/ CloseCalled(w, s) \/ CloseSearches(w, s)
    PROVE  LwLive'
<1>t. /\ LwTypeOK
      /\ \A y \in LuaScripts \cup {"null"} :
            lwList' = Append(lwList, y) =>
                /\ lwList' \in Seq(LuaScripts \cup {"null"})
                /\ \A t \in LuaScripts : HasEntry(t) => HasEntry(t)'
  <2>1. LwTypeOK /\ lwList \in Seq(LuaScripts \cup {"null"})
    BY DEF LwLive, LwTypeOK
  <2>2. ASSUME NEW y \in LuaScripts \cup {"null"}, lwList' = Append(lwList, y)
        PROVE  /\ lwList' \in Seq(LuaScripts \cup {"null"})
               /\ \A t \in LuaScripts : HasEntry(t) => HasEntry(t)'
    <3>1. /\ DOMAIN lwList = 1..Len(lwList) /\ DOMAIN lwList' = 1..Len(lwList) + 1 /\ Len(lwList) \in Nat
          /\ \A i \in 1..Len(lwList) : lwList'[i] = lwList[i]
          /\ lwList' \in Seq(LuaScripts \cup {"null"})
      BY <2>1, <2>2
    <3> QED BY <3>1 DEF HasEntry
  <2> QED BY <2>1, <2>2
<1>u. lwMutex = [lwMutex EXCEPT ![s] = lwMutex[s]]
  BY <1>t DEF LwTypeOK
<1>l. lwList' = lwList => \A t \in LuaScripts : HasEntry(t) => HasEntry(t)'
  BY DEF HasEntry
<1>e. lwScript[w] = s /\ lwPc[w] \in InList => HasEntry(s)
  BY DEF LwLive, EntryThere
<1>h. lwScript[w] = s /\ lwPc[w] \in Holding => lwMutex[s] = w
  BY DEF LwLive, MutexHeld
<1>m. lwMutex[s] # "none" => HasEntry(s)
  BY DEF LwLive, EntryThere
<1>w. ASSUME NEW from, NEW to, LwStep(w, s, from, to)
      PROVE  /\ lwScript[w] = s /\ lwPc[w] \in from /\ lwPc' = [lwPc EXCEPT ![w] = to]
             /\ lwScript' = [lwScript EXCEPT ![w] = IF to = "idle" THEN "null" ELSE @]
  BY <1>w DEF LwStep
<1> USE DEF LwPC, InList, Holding
<1>1. CASE NewFails(w, s)
  <2>1. LwStep(w, s, {"search"}, "idle") /\ UNCHANGED <<lwMutex, lwConns, lwTimer, lwStray>>
    BY <1>1 DEF NewFails
  <2>2. /\ lwList' \in Seq(LuaScripts \cup {"null"})
        /\ \A t \in LuaScripts : HasEntry(t) => HasEntry(t)'
    <3>1. CASE lwList' = lwList
      BY <3>1, <1>t, <1>l DEF LwTypeOK
    <3>2. CASE lwList' = Append(lwList, "null")
      BY <3>2, <1>t
    <3> QED BY <3>1, <3>2, <1>1 DEF NewFails
  <2>3. Goes(w, s, "idle", lwMutex[s])
    BY <2>1, <2>2, <1>w, <1>u, <1>m DEF Goes
  <2> QED BY <2>3, WorkerMoves
<1>2. CASE NewEntryReady(w, s) \/ NewFound(w, s) \/ ConnectionEnds(w, s)
  <2>1. UNCHANGED <<lwMutex, lwConns, lwTimer, lwStray, lwList>>
    BY <1>2 DEF NewEntryReady, NewFound, ConnectionEnds, lwLocks
  <2>2. \/ LwStep(w, s, {"init"}, "inopen")
        \/ LwStep(w, s, {"search"}, "join") /\ HasEntry(s)
        \/ LwStep(w, s, {"opened", "read"}, "closing")
    BY <1>2 DEF NewEntryReady, NewFound, ConnectionEnds, Found, HasEntry
  <2>3. \/ Goes(w, s, "inopen", lwMutex[s]) \/ Goes(w, s, "join", lwMutex[s])
        \/ Goes(w, s, "closing", lwMutex[s])
    BY <2>1, <2>2, <1>l, <1>t, <1>w, <1>u, <1>m, <1>h DEF LwTypeOK, Goes
  <2> QED BY <2>3, WorkerMoves
<1>4. CASE OpenAccepts(w, s) \/ CloseSearches(w, s) \/ \E ok \in BOOLEAN : HandlerReturns(w, s, ok)
  <2>1. /\ UNCHANGED <<lwConns, lwTimer, lwStray, lwList>> /\ lwMutex' = [lwMutex EXCEPT ![s] = "none"]
        /\ \/ LwStep(w, s, {"inopen"}, "opened") \/ LwStep(w, s, {"unlist"}, "idle")
           \/ LwStep(w, s, {"inhandler"}, "read") \/ LwStep(w, s, {"inhandler"}, "closing")
    BY <1>4 DEF OpenAccepts, CloseSearches, HandlerReturns, UnlockScript
  <2>2. \/ Goes(w, s, "opened", "none") \/ Goes(w, s, "idle", "none")
        \/ Goes(w, s, "read", "none") \/ Goes(w, s, "closing", "none")
    BY <2>1, <1>l, <1>t, <1>w, <1>h DEF LwTypeOK, Goes
  <2> QED BY <2>2, WorkerMoves
<1>5. CASE HandlerCalled(w, s) \/ CloseCalled(w, s)
  <2>1. /\ UNCHANGED <<lwConns, lwTimer, lwStray, lwList>>
        /\ lwMutex[s] = "none" /\ lwMutex' = [lwMutex EXCEPT ![s] = w]
        /\ \/ LwStep(w, s, {"opened", "read"}, "inhandler") \/ LwStep(w, s, {"closing"}, "inclose")
    BY <1>5 DEF HandlerCalled, CloseCalled, LockScript
  <2>2. Goes(w, s, "inhandler", w) \/ Goes(w, s, "inclose", w)
    BY <2>1, <1>l, <1>t, <1>w, <1>e DEF LwTypeOK, Goes
  <2> QED BY <2>2, WorkerMoves
<1> QED BY <1>1, <1>2, <1>4, <1>5
\* A step of one worker that changes the list of connections of its script to d.
Changes(w, s, to, x, d) ==
    /\ to \in LwPC /\ lwScript[w] = s /\ lwPc' = [lwPc EXCEPT ![w] = to]
    /\ lwScript' = [lwScript EXCEPT ![w] = IF to = "idle" THEN "null" ELSE @]
    /\ x \in {w, "none"} /\ lwMutex' = [lwMutex EXCEPT ![s] = x] /\ lwMutex[s] \in {"none", w}
    /\ to \in Holding => x = w
    /\ to # "join"
    /\ lwConns' = [lwConns EXCEPT ![s] = d]
    /\ to \in {"init", "inopen"} => Len(d) > 0 /\ d[Len(d)] = w
    /\ HasEntry(s)' /\ UNCHANGED <<lwTimer, lwStray>>
    /\ lwList' \in Seq(LuaScripts \cup {"null"})
    /\ \A t \in LuaScripts : HasEntry(t) => HasEntry(t)'

\* The list d holds the connections of s, with w where it is now.
Lists(w, s, to, d) ==
    /\ d \in Seq(LuaWorkers)
    /\ \A i, j \in 1..Len(d) : d[i] = d[j] => i = j
    /\ \A u \in LuaWorkers \ {w} : (\E i \in 1..Len(d) : d[i] = u) <=> lwScript[u] = s /\ lwPc[u] \in InList
    /\ (\E i \in 1..Len(d) : d[i] = w) <=> to \in InList

\* The step keeps the invariant when the new list is right.
LEMMA WorkerJoinsOrLeaves ==
    ASSUME LwLive, NEW w \in LuaWorkers, NEW s \in LuaScripts, NEW to, NEW x, NEW c,
           Changes(w, s, to, x, c), Lists(w, s, to, c)
    PROVE  LwLive'
<1> USE DEF Changes, Lists
<1>a. "none" \notin LuaWorkers /\ "timer" \notin LuaWorkers /\ "null" \notin LuaScripts
  BY LuaWebsocketsAssumption
<1>t. LwTypeOK
  BY DEF LwLive
<1>1. /\ lwPc' \in [LuaWorkers -> LwPC] /\ lwPc'[w] = to
      /\ \A u \in LuaWorkers \ {w} : lwPc'[u] = lwPc[u]
  BY <1>t DEF LwTypeOK
<1>2. /\ lwScript' \in [LuaWorkers -> LuaScripts \cup {"null"}]
      /\ to # "idle" => lwScript'[w] = s
      /\ to = "idle" => lwScript'[w] = "null"
      /\ \A u \in LuaWorkers \ {w} : lwScript'[u] = lwScript[u]
  BY <1>t DEF LwTypeOK
<1>3. /\ lwMutex' \in [LuaScripts -> LuaWorkers \cup {"none", "timer"}] /\ lwMutex'[s] = x
      /\ \A t \in LuaScripts \ {s} : lwMutex'[t] = lwMutex[t]
  BY <1>t DEF LwTypeOK
<1>c. /\ lwConns' \in [LuaScripts -> Seq(LuaWorkers)] /\ lwConns'[s] = c
      /\ \A t \in LuaScripts \ {s} : lwConns'[t] = lwConns[t]
  BY <1>t DEF LwTypeOK
<1>4. LwTypeOK'
  BY <1>1, <1>2, <1>3, <1>c, <1>t DEF LwTypeOK
<1>h. \A u \in LuaWorkers \ {w} : ~(lwScript[u] = s /\ lwPc[u] \in Holding)
  BY <1>a DEF LwLive, MutexHeld
<1>5. MutexHeld'
  <2>1. ASSUME NEW u \in LuaWorkers, NEW t \in LuaScripts, lwScript'[u] = t, lwPc'[u] \in Holding
        PROVE  lwMutex'[t] = u
    <3>1. CASE u = w
      BY <3>1, <2>1, <1>1, <1>2, <1>3, <1>a DEF Holding
    <3>2. CASE u # w
      <4>1. lwMutex[t] = u
        BY <3>2, <2>1, <1>1, <1>2 DEF LwLive, MutexHeld
      <4> QED BY <4>1, <3>2, <1>3, <1>a
    <3> QED BY <3>1, <3>2
  <2>2. ASSUME NEW t \in LuaScripts, lwTimer'[t].at = "act" PROVE lwMutex'[t] = "timer"
    <3>1. lwMutex[t] = "timer"
      BY <2>2 DEF LwLive, MutexHeld
    <3> QED BY <3>1, <1>3, <1>a
  <2> QED BY <2>1, <2>2 DEF MutexHeld
<1>6. \A u \in LuaWorkers, t \in LuaScripts \ {s} :
        /\ lwScript'[u] = t /\ lwPc'[u] \in InList <=> lwScript[u] = t /\ lwPc[u] \in InList
        /\ lwScript'[u] = t /\ lwPc'[u] \in {"init", "inopen"}
             => lwScript[u] = t /\ lwPc[u] \in {"init", "inopen"}
  BY <1>1, <1>2, <1>a
<1>7. EntryThere'
  <2>1. ASSUME NEW t \in LuaScripts \ {s},
               \/ lwMutex'[t] # "none" \/ lwTimer'[t].at # "none"
               \/ \E u \in LuaWorkers : lwScript'[u] = t /\ lwPc'[u] \in InList
        PROVE  HasEntry(t)'
    <3>1. HasEntry(t)
      BY <2>1, <1>3, <1>6 DEF LwLive, EntryThere
    <3> QED BY <3>1
  <2> QED BY <2>1 DEF EntryThere
<1>8. ASSUME NEW t \in LuaScripts PROVE ConnList(t)'
  <2>1. CASE t # s
    <3>1. ConnList(t) /\ lwConns'[t] = lwConns[t]
      BY <2>1, <1>c DEF LwLive
    <3>2. \A i, j \in 1..Len(lwConns'[t]) : lwConns'[t][i] = lwConns'[t][j] => i = j
      BY <3>1 DEF ConnList
    <3>3. \A u \in LuaWorkers :
            (\E i \in 1..Len(lwConns'[t]) : lwConns'[t][i] = u) <=> lwScript'[u] = t /\ lwPc'[u] \in InList
      BY <2>1, <3>1, <1>6 DEF ConnList
    <3>4. \A u \in LuaWorkers : lwScript'[u] = t /\ lwPc'[u] \in {"init", "inopen"}
            => Len(lwConns'[t]) > 0 /\ lwConns'[t][Len(lwConns'[t])] = u
      BY <2>1, <3>1, <1>6 DEF ConnList
    <3> QED BY <3>2, <3>3, <3>4, Zenon DEF ConnList
  <2>2. CASE t = s
    <3>1. lwConns'[t] = c
      BY <2>2, <1>c
    <3>2. ASSUME NEW u \in LuaWorkers
          PROVE  (\E i \in 1..Len(c) : c[i] = u) <=> lwScript'[u] = s /\ lwPc'[u] \in InList
      <4>1. CASE u = w
        BY <4>1, <1>1, <1>2, <1>a DEF InList
      <4>2. CASE u # w
        BY <4>2, <1>1, <1>2
      <4> QED BY <4>1, <4>2
    <3>3. ASSUME NEW u \in LuaWorkers, lwScript'[u] = s, lwPc'[u] \in {"init", "inopen"}
          PROVE  Len(c) > 0 /\ c[Len(c)] = u
      <4>1. u = w
        BY <3>3, <1>1, <1>2, <1>h DEF Holding
      <4> QED BY <4>1, <3>3, <1>1
    <3>4. \A i, j \in 1..Len(c) : c[i] = c[j] => i = j
      OBVIOUS
    <3> DEFINE Exact(d) ==
          /\ \A i, j \in 1..Len(d) : d[i] = d[j] => i = j
          /\ \A u \in LuaWorkers : (\E i \in 1..Len(d) : d[i] = u) <=> lwScript'[u] = s /\ lwPc'[u] \in InList
          /\ \A u \in LuaWorkers :
               lwScript'[u] = s /\ lwPc'[u] \in {"init", "inopen"} => Len(d) > 0 /\ d[Len(d)] = u
    <3>5. Exact(lwConns'[s])
      <4>1. lwConns'[s] = c
        BY <1>c
      <4>2. Exact(c)
        BY <3>2, <3>3, <3>4
      <4> HIDE DEF Exact
      <4> QED BY <4>1, <4>2
    <3>6. ConnList(s)'
      BY <3>5, Zenon DEF ConnList
    <3> QED BY <2>2, <3>6
  <2> QED BY <2>1, <2>2
<1>9. EntryWaited'
  <2>1. ASSUME NEW u \in LuaWorkers, NEW t \in LuaScripts, lwScript'[u] = t, lwPc'[u] \in {"join"}
        PROVE  HasEntry(t)'
    <3>1. CASE u = w
      BY <3>1, <2>1, <1>1, <1>2, <1>a
    <3>2. CASE u # w
      BY <3>2, <2>1, <1>1, <1>2 DEF LwLive, EntryWaited
    <3> QED BY <3>1, <3>2
  <2> QED BY <2>1 DEF EntryWaited
<1> QED BY <1>4, <1>5, <1>7, <1>8, <1>9 DEF LwLive

\* No element occurs twice in a sequence; and an element occurs in it.
Once(c) == \A i, j \in 1..Len(c) : c[i] = c[j] => i = j
Has(c, u) == \E i \in 1..Len(c) : c[i] = u

\* A connection that joins is put behind the others.
LEMMA JoinedList ==
    ASSUME NEW S, NEW c \in Seq(S), NEW w \in S, ~Has(c, w), Once(c),
           NEW d, d = Append(c, w)
    PROVE  /\ d \in Seq(S) /\ Len(d) > 0 /\ d[Len(d)] = w
           /\ Once(d)
           /\ \A u : Has(d, u) <=> u = w \/ Has(c, u)
<1> USE DEF Once, Has
<1>1. /\ d \in Seq(S) /\ Len(d) = Len(c) + 1 /\ Len(c) \in Nat /\ d[Len(c) + 1] = w
      /\ \A i \in 1..Len(c) : d[i] = c[i]
  OBVIOUS
<1>2. ASSUME NEW i \in 1..Len(d), NEW j \in 1..Len(d), d[i] = d[j] PROVE i = j
  <2>1. i \in 1..Len(c) \/ i = Len(c) + 1
    BY <1>1
  <2>2. j \in 1..Len(c) \/ j = Len(c) + 1
    BY <1>1
  <2> QED BY <1>1, <1>2, <2>1, <2>2
<1>3. \A u : (\E i \in 1..Len(d) : d[i] = u) <=> u = w \/ \E i \in 1..Len(c) : c[i] = u
  <2>1. \A i : i \in 1..Len(d) <=> i \in 1..Len(c) \/ i = Len(c) + 1
    BY <1>1
  <2> QED BY <1>1, <2>1
<1> QED BY <1>1, <1>2, <1>3

\* The last connection is taken off.
LEMMA LastTakenOff ==
    ASSUME NEW S, NEW c \in Seq(S), Len(c) > 0, Once(c),
           NEW d, d = Front(c)
    PROVE  /\ d \in Seq(S)
           /\ Once(d)
           /\ \A u : Has(d, u) <=> u # c[Len(c)] /\ Has(c, u)
<1> USE DEF Once, Has
<1>0. Len(c) \in Nat /\ Len(c) - 1 \in Nat
  OBVIOUS
<1>1. /\ d \in Seq(S) /\ Len(d) = Len(c) - 1
      /\ \A i \in 1..(Len(c) - 1) : d[i] = c[i]
  <2>1. \A i \in 1..(Len(c) - 1) : c[i] \in S
    OBVIOUS
  <2>2. /\ SubSeq(c, 1, Len(c) - 1) \in Seq(S)
        /\ Len(SubSeq(c, 1, Len(c) - 1)) = IF 1 <= Len(c) - 1 THEN Len(c) - 1 - 1 + 1 ELSE 0
        /\ \A i \in 1..(Len(c) - 1 - 1 + 1) : SubSeq(c, 1, Len(c) - 1)[i] = c[1 + i - 1]
    BY <1>0, <2>1, SubSeqProperties
  <2>3. PICK n \in Nat : n = Len(c) - 1
    BY <1>0
  <2>4. (IF 1 <= n THEN n - 1 + 1 ELSE 0) = n /\ n - 1 + 1 = n /\ \A i \in 1..n : 1 + i - 1 = i
    OBVIOUS
  <2>5. d \in Seq(S) /\ Len(d) = n /\ \A i \in 1..n : d[i] = c[i]
    BY <2>2, <2>3, <2>4 DEF Front
  <2> QED BY <2>3, <2>5
<1>2. \A i : i \in 1..Len(c) <=> i \in 1..Len(d) \/ i = Len(c)
  BY <1>0, <1>1
<1>3. \A i \in 1..Len(d) : i # Len(c)
  BY <1>0, <1>1
<1> QED BY <1>1, <1>2, <1>3

\* The last connection takes the place of the one that is removed.
LEMMA PlaceIsFilled ==
    ASSUME NEW c \in Seq(LuaWorkers), NEW p \in 1..Len(c),
           Once(c), NEW d, d = Without(c, c[p])
    PROVE  /\ d \in Seq(LuaWorkers)
           /\ Once(d)
           /\ \A u : Has(d, u) <=> u # c[p] /\ Has(c, u)
<1> USE DEF Once, Has
<1>0. Len(c) \in Nat /\ Len(c) - 1 \in Nat /\ Len(c) \in 1..Len(c)
      /\ \A i \in 1..Len(c) : c[i] \in LuaWorkers
  OBVIOUS
<1>1. d = [i \in 1..(Len(c) - 1) |-> IF c[i] = c[p] THEN c[Len(c)] ELSE c[i]]
  BY DEF Without
<1>2. d \in [1..(Len(c) - 1) -> LuaWorkers]
  BY <1>0, <1>1
<1>3. d \in Seq(LuaWorkers) /\ Len(d) = Len(c) - 1
  BY <1>0, <1>2
<1>4. \A i \in 1..(Len(c) - 1) : i \in 1..Len(c) /\ i # Len(c)
  BY <1>0
<1>5. \A i \in 1..Len(d) : d[i] = IF i = p THEN c[Len(c)] ELSE c[i]
  BY <1>1, <1>3, <1>4
<1>6. \A i : i \in 1..Len(c) <=> i \in 1..Len(d) \/ i = Len(c)
  BY <1>0, <1>3
<1>7. ASSUME NEW i \in 1..Len(d), NEW j \in 1..Len(d), d[i] = d[j] PROVE i = j
  <2>1. /\ i \in 1..Len(c) /\ j \in 1..Len(c) /\ i # Len(c) /\ j # Len(c)
        /\ i = p => d[i] = c[Len(c)]
        /\ i # p => d[i] = c[i]
        /\ j = p => d[j] = c[Len(c)]
        /\ j # p => d[j] = c[j]
    BY <1>3, <1>4, <1>5
  <2> QED BY <1>0, <1>7, <2>1
<1>8. ASSUME NEW u
      PROVE  (\E i \in 1..Len(d) : d[i] = u) <=> u # c[p] /\ \E i \in 1..Len(c) : c[i] = u
  <2>1. ASSUME NEW i \in 1..Len(d), d[i] = u PROVE u # c[p] /\ \E k \in 1..Len(c) : c[k] = u
    BY <2>1, <1>0, <1>3, <1>4, <1>5
  <2>2. ASSUME NEW k \in 1..Len(c), c[k] = u, u # c[p] PROVE \E i \in 1..Len(d) : d[i] = u
    <3>1. CASE k \in 1..Len(d)
      BY <2>2, <3>1, <1>5
    <3>2. CASE k = Len(c)
      <4>1. p \in 1..Len(d)
        BY <2>2, <3>2, <1>6
      <4> QED BY <4>1, <2>2, <3>2, <1>5
    <3> QED BY <3>1, <3>2, <1>6
  <2> QED BY <2>1, <2>2
<1> QED BY <1>3, <1>7, <1>8

\* The steps that WorkerJoinsOrLeaves is about.
LEMMA JoiningSteps ==
    ASSUME LwLive, NEW w \in LuaWorkers, NEW s \in LuaScripts,
           NewEntry(w, s) \/ NewJoin(w, s) \/ OpenRejects(w, s) \/ CloseRemoves(w, s)
    PROVE  LwLive'
<1> DEFINE c == lwConns[s]
<1>t. LwTypeOK /\ c \in Seq(LuaWorkers) /\ Len(c) \in Nat
  BY DEF LwLive, LwTypeOK
<1>a. "none" \notin LuaWorkers /\ "timer" \notin LuaWorkers /\ "null" \notin LuaScripts
  BY LuaWebsocketsAssumption
<1>c. /\ \A i, j \in 1..Len(c) : c[i] = c[j] => i = j
      /\ \A u \in LuaWorkers : (\E i \in 1..Len(c) : c[i] = u) <=> lwScript[u] = s /\ lwPc[u] \in InList
      /\ \A u \in LuaWorkers : lwScript[u] = s /\ lwPc[u] \in {"init", "inopen"} => Len(c) > 0 /\ c[Len(c)] = u
  BY DEF LwLive, ConnList
<1>l. lwList' = lwList => \A t \in LuaScripts : HasEntry(t) => HasEntry(t)'
  BY DEF HasEntry
<1>e. lwScript[w] = s /\ lwPc[w] \in InList => HasEntry(s)
  BY DEF LwLive, EntryThere
<1>h. lwScript[w] = s /\ lwPc[w] \in Holding => lwMutex[s] = w
  BY DEF LwLive, MutexHeld
<1>w. ASSUME NEW from, NEW to, LwStep(w, s, from, to)
      PROVE  /\ lwScript[w] = s /\ lwPc[w] \in from /\ lwPc' = [lwPc EXCEPT ![w] = to]
             /\ lwScript' = [lwScript EXCEPT ![w] = IF to = "idle" THEN "null" ELSE @]
  BY <1>w DEF LwStep
<1>1. CASE NewEntry(w, s)
  <2>1. /\ LwStep(w, s, {"search"}, "init") /\ ~Found(s) /\ ~NullBefore(s)
        /\ lwList' = Append(lwList, s) /\ lwMutex' = [lwMutex EXCEPT ![s] = w]
        /\ lwConns' = [lwConns EXCEPT ![s] = <<w>>] /\ UNCHANGED <<lwTimer, lwStray>>
    BY <1>1 DEF NewEntry
  <2>2. ~HasEntry(s)
    <3>1. DOMAIN lwList = 1..Len(lwList)
      BY <1>t DEF LwTypeOK
    <3> QED BY <2>1, <3>1 DEF Found, NullBefore, Contains, HasEntry
  <2>3. lwMutex[s] = "none" /\ \A u \in LuaWorkers : ~(lwScript[u] = s /\ lwPc[u] \in InList)
    BY <2>2 DEF LwLive, EntryThere
  <2>4. /\ lwList' \in Seq(LuaScripts \cup {"null"}) /\ HasEntry(s)'
        /\ \A t \in LuaScripts : HasEntry(t) => HasEntry(t)'
    <3>0. lwList \in Seq(LuaScripts \cup {"null"}) /\ s \in LuaScripts \cup {"null"}
      BY <1>t DEF LwTypeOK
    <3>1. /\ DOMAIN lwList = 1..Len(lwList) /\ DOMAIN lwList' = 1..Len(lwList) + 1 /\ Len(lwList) \in Nat
          /\ \A i \in 1..Len(lwList) : lwList'[i] = lwList[i]
          /\ lwList'[Len(lwList) + 1] = s
          /\ lwList' \in Seq(LuaScripts \cup {"null"})
      BY <2>1, <3>0
    <3> QED BY <3>1 DEF HasEntry
  <2>5. /\ <<w>> \in Seq(LuaWorkers) /\ Len(<<w>>) = 1 /\ <<w>>[1] = w
    OBVIOUS
  <2>6. Changes(w, s, "init", w, <<w>>)
    BY <2>1, <2>3, <2>4, <2>5, <1>w DEF Changes, LwPC
  <2>7. Lists(w, s, "init", <<w>>)
    BY <2>3, <2>5 DEF Lists, InList
  <2> QED BY <2>6, <2>7, WorkerJoinsOrLeaves
<1>2. CASE NewJoin(w, s)
  <2>1. /\ LwStep(w, s, {"join"}, "inopen") /\ lwMutex[s] = "none" /\ lwMutex' = [lwMutex EXCEPT ![s] = w]
        /\ lwConns' = [lwConns EXCEPT ![s] = Append(c, w)] /\ UNCHANGED <<lwList, lwTimer, lwStray>>
    BY <1>2 DEF NewJoin, LockScript
  <2>2. lwScript[w] = s /\ lwPc[w] = "join"
    BY <2>1, <1>w
  <2>3. \A i \in 1..Len(c) : c[i] # w
    BY <2>2, <1>c DEF InList
  <2>0. PICK d : d = Append(c, w)
    OBVIOUS
  <2>4. /\ d \in Seq(LuaWorkers) /\ Len(d) > 0 /\ d[Len(d)] = w
        /\ \A i, j \in 1..Len(d) : d[i] = d[j] => i = j
        /\ \A u : (\E i \in 1..Len(d) : d[i] = u) <=> u = w \/ \E i \in 1..Len(c) : c[i] = u
    <3>1. PICK e \in Seq(LuaWorkers) : e = c
      BY <1>t
    <3>2. ~Has(e, w) /\ Once(e) /\ d = Append(e, w)
      BY <2>0, <2>3, <3>1, <1>c DEF Once, Has
    <3>3. /\ d \in Seq(LuaWorkers) /\ Len(d) > 0 /\ d[Len(d)] = w /\ Once(d)
          /\ \A u : Has(d, u) <=> u = w \/ Has(e, u)
      BY ONLY <3>2, e \in Seq(LuaWorkers), w \in LuaWorkers, JoinedList
    <3>4. \A u : Has(e, u) <=> \E i \in 1..Len(c) : c[i] = u
      BY <3>1 DEF Has
    <3>5. \A u : Has(d, u) <=> \E i \in 1..Len(d) : d[i] = u
      BY DEF Has
    <3>6. \A i, j \in 1..Len(d) : d[i] = d[j] => i = j
      BY <3>3 DEF Once
    <3> HIDE DEF c
    <3> QED BY <3>3, <3>4, <3>5, <3>6, Zenon
  <2>d. lwConns' = [lwConns EXCEPT ![s] = d]
    BY <2>0, <2>1
  <2>5. HasEntry(s)'
    BY <2>1, <2>2, <1>l DEF LwLive, EntryWaited
  <2>6. Changes(w, s, "inopen", w, d)
    <3>1. lwList' \in Seq(LuaScripts \cup {"null"}) /\ \A t \in LuaScripts : HasEntry(t) => HasEntry(t)'
      BY <2>1, <1>l, <1>t DEF LwTypeOK
    <3>2. /\ lwScript[w] = s /\ lwPc' = [lwPc EXCEPT ![w] = "inopen"]
          /\ lwScript' = [lwScript EXCEPT ![w] = IF "inopen" = "idle" THEN "null" ELSE @]
      BY <2>1, <1>w
    <3> QED BY <2>1, <2>d, <2>4, <2>5, <3>1, <3>2 DEF Changes, LwPC
  <2>7. Lists(w, s, "inopen", d)
    BY <2>4, <1>c DEF Lists, InList
  <2> QED BY <2>6, <2>7, WorkerJoinsOrLeaves
<1>3. CASE OpenRejects(w, s)
  <2>1. /\ LwStep(w, s, {"inopen"}, "idle") /\ lwMutex' = [lwMutex EXCEPT ![s] = "none"]
        /\ lwConns' = [lwConns EXCEPT ![s] = Front(c)] /\ UNCHANGED <<lwList, lwTimer, lwStray>>
    BY <1>3 DEF OpenRejects, UnlockScript
  <2>2. lwScript[w] = s /\ lwPc[w] = "inopen"
    BY <2>1, <1>w
  <2>3. Len(c) > 0 /\ c[Len(c)] = w /\ HasEntry(s) /\ lwMutex[s] = w
    BY <2>2, <1>c, <1>e, <1>h DEF InList, Holding
  <2>0. PICK d : d = Front(c)
    OBVIOUS
  <2>4. /\ d \in Seq(LuaWorkers) /\ \A i, j \in 1..Len(d) : d[i] = d[j] => i = j
        /\ \A u : (\E i \in 1..Len(d) : d[i] = u) <=> u # w /\ \E i \in 1..Len(c) : c[i] = u
    <3>1. PICK e \in Seq(LuaWorkers) : e = c
      BY <1>t
    <3>2. Len(e) > 0 /\ e[Len(e)] = w /\ Once(e) /\ d = Front(e)
      BY <2>0, <2>3, <3>1, <1>c DEF Once
    <3>3. d \in Seq(LuaWorkers) /\ Once(d) /\ \A u : Has(d, u) <=> u # e[Len(e)] /\ Has(e, u)
      BY ONLY <3>2, e \in Seq(LuaWorkers), LastTakenOff
    <3>4. \A u : Has(e, u) <=> \E i \in 1..Len(c) : c[i] = u
      BY <3>1 DEF Has
    <3>5. \A u : Has(d, u) <=> \E i \in 1..Len(d) : d[i] = u
      BY DEF Has
    <3>6. \A i, j \in 1..Len(d) : d[i] = d[j] => i = j
      BY <3>3 DEF Once
    <3>7. e[Len(e)] = w
      BY <3>2
    <3> HIDE DEF c
    <3> QED BY <3>3, <3>4, <3>5, <3>6, <3>7, Zenon
  <2>d. lwConns' = [lwConns EXCEPT ![s] = d]
    BY <2>0, <2>1
  <2>6. Changes(w, s, "idle", "none", d)
    BY <2>1, <2>d, <2>3, <1>w, <1>l, <1>t DEF Changes, LwPC, LwTypeOK, Holding
  <2>7. Lists(w, s, "idle", d)
    BY <2>4, <1>c DEF Lists, InList
  <2> QED BY <2>6, <2>7, WorkerJoinsOrLeaves
<1>4. CASE CloseRemoves(w, s)
  <2>0. PICK d : d = Without(c, w)
    OBVIOUS
  <2> DEFINE to == IF d = <<>> THEN "unlist" ELSE "idle"
             x == IF d = <<>> THEN w ELSE "none"
  <2>1. /\ LwStep(w, s, {"inclose"}, to) /\ (IF d = <<>> THEN UNCHANGED lwMutex ELSE UnlockScript(s))
        /\ lwConns' = [lwConns EXCEPT ![s] = d] /\ UNCHANGED <<lwList, lwTimer, lwStray>>
    BY <1>4, <2>0 DEF CloseRemoves
  <2>2. lwScript[w] = s /\ lwPc[w] = "inclose"
    BY <2>1, <1>w
  <2>3. HasEntry(s) /\ lwMutex[s] = w /\ \E i \in 1..Len(c) : c[i] = w
    BY <2>2, <1>c, <1>e, <1>h DEF InList, Holding
  <2>p. PICK p \in 1..Len(c) : c[p] = w
    BY <2>3
  <2>4. /\ d \in Seq(LuaWorkers) /\ \A i, j \in 1..Len(d) : d[i] = d[j] => i = j
        /\ \A u : (\E i \in 1..Len(d) : d[i] = u) <=> u # w /\ \E i \in 1..Len(c) : c[i] = u
    <3>1. PICK e \in Seq(LuaWorkers) : e = c
      BY <1>t
    <3>2. p \in 1..Len(e) /\ e[p] = w /\ Once(e) /\ d = Without(e, e[p])
      BY <2>0, <2>p, <3>1, <1>c DEF Once
    <3>3. d \in Seq(LuaWorkers) /\ Once(d) /\ \A u : Has(d, u) <=> u # e[p] /\ Has(e, u)
      BY ONLY <3>2, e \in Seq(LuaWorkers), PlaceIsFilled
    <3>4. \A u : Has(e, u) <=> \E i \in 1..Len(c) : c[i] = u
      BY <3>1 DEF Has
    <3>5. \A u : Has(d, u) <=> \E i \in 1..Len(d) : d[i] = u
      BY DEF Has
    <3>6. \A i, j \in 1..Len(d) : d[i] = d[j] => i = j
      BY <3>3 DEF Once
    <3>7. e[p] = w
      BY <3>2
    <3> HIDE DEF c
    <3> QED BY <3>3, <3>4, <3>5, <3>6, <3>7, Zenon
  <2>5. lwMutex' = [lwMutex EXCEPT ![s] = x]
    BY <2>1, <2>3, <1>t DEF UnlockScript, LwTypeOK
  <2>t. to \in {"unlist", "idle"} /\ x \in {w, "none"} /\ (to = "unlist" => x = w)
    OBVIOUS
  <2> HIDE DEF to, x
  <2>6. Changes(w, s, to, x, d)
    BY <2>1, <2>3, <2>5, <2>t, <1>w, <1>l, <1>t DEF Changes, LwPC, LwTypeOK, Holding
  <2>7. Lists(w, s, to, d)
    BY <2>4, <2>t, <1>c DEF Lists, InList
  <2> QED BY <2>6, <2>7, WorkerJoinsOrLeaves
<1> QED BY <1>1, <1>2, <1>3, <1>4

\* A connection gets its script, and the search begins.
LEMMA NewLockStep == ASSUME LwLive, NEW w \in LuaWorkers, NEW s \in LuaScripts, NewLock(w, s) PROVE LwLive'
<1>t. LwTypeOK
  BY DEF LwLive
<1>1. /\ lwPc[w] = "idle" /\ lwPc'[w] = "search" /\ lwPc' \in [LuaWorkers -> LwPC]
      /\ \A u \in LuaWorkers \ {w} : lwPc'[u] = lwPc[u] /\ lwScript'[u] = lwScript[u]
      /\ lwScript' \in [LuaWorkers -> LuaScripts \cup {"null"}]
      /\ UNCHANGED <<lwList, lwMutex, lwConns, lwTimer, lwStray>>
  BY <1>t DEF NewLock, LwTypeOK, LwPC
<1>2. \A u \in LuaWorkers, t \in LuaScripts, P \in {InList, Holding, {"init", "inopen"}, {"join"}} :
        lwScript'[u] = t /\ lwPc'[u] \in P <=> lwScript[u] = t /\ lwPc[u] \in P
  <2>1. \A P \in {InList, Holding, {"init", "inopen"}, {"join"}} : "idle" \notin P /\ "search" \notin P
    BY DEF InList, Holding
  <2> QED BY <1>1, <2>1
<1>3. \A u \in LuaWorkers, t \in LuaScripts :
        /\ lwScript'[u] = t /\ lwPc'[u] \in InList <=> lwScript[u] = t /\ lwPc[u] \in InList
        /\ lwScript'[u] = t /\ lwPc'[u] \in Holding <=> lwScript[u] = t /\ lwPc[u] \in Holding
        /\ lwScript'[u] = t /\ lwPc'[u] \in {"init", "inopen"} <=> lwScript[u] = t /\ lwPc[u] \in {"init", "inopen"}
        /\ lwScript'[u] = t /\ lwPc'[u] \in {"join"} <=> lwScript[u] = t /\ lwPc[u] \in {"join"}
  BY <1>2
<1>4. LwTypeOK'
  BY <1>1, <1>t DEF LwTypeOK
<1>5. MutexHeld' /\ EntryThere' /\ EntryWaited' /\ (lwStray = FALSE)'
  BY <1>1, <1>3 DEF LwLive, MutexHeld, EntryThere, EntryWaited, HasEntry
<1>6. ASSUME NEW t \in LuaScripts PROVE ConnList(t)'
  <2>1. ConnList(t) /\ lwConns' = lwConns
    BY <1>1 DEF LwLive
  <2> QED BY <2>1, <1>3 DEF ConnList
<1> QED BY <1>4, <1>5, <1>6 DEF LwLive

\* A step that leaves the workers alone: what the script itself or its timer does.
Keeps ==
    /\ UNCHANGED <<lwPc, lwScript, lwList, lwConns, lwStray>>
    /\ lwTimer' \in [LuaScripts -> [at : {"none", "armed", "act", "cancel"}, periodic : BOOLEAN]]
    /\ lwMutex' \in [LuaScripts -> LuaWorkers \cup {"none", "timer"}]
    /\ \A s \in LuaScripts :
         /\ lwMutex'[s] # lwMutex[s] => lwMutex[s] \in {"none", "timer"} /\ lwMutex'[s] \in {"none", "timer"}
         /\ lwTimer'[s].at = "act" => lwMutex'[s] = "timer"
         /\ lwMutex'[s] # "none" \/ lwTimer'[s].at # "none" => HasEntry(s)

\* Such a step keeps the invariant.
LEMMA OthersMove == ASSUME LwLive, Keeps PROVE LwLive'
<1> USE DEF Keeps
<1>a. "none" \notin LuaWorkers /\ "timer" \notin LuaWorkers
  BY LuaWebsocketsAssumption
<1>1. LwTypeOK'
  BY DEF LwLive, LwTypeOK
<1>2. MutexHeld'
  <2>1. ASSUME NEW w \in LuaWorkers, NEW s \in LuaScripts, lwScript'[w] = s, lwPc'[w] \in Holding
        PROVE  lwMutex'[s] = w
    <3>1. lwMutex[s] = w
      BY <2>1 DEF LwLive, MutexHeld
    <3> QED BY <3>1, <1>a
  <2> QED BY <2>1 DEF MutexHeld
<1>3. EntryThere' /\ EntryWaited' /\ (lwStray = FALSE)'
  BY DEF LwLive, EntryThere, EntryWaited, HasEntry
<1>4. \A s \in LuaScripts : ConnList(s)'
  BY DEF LwLive, ConnList
<1> QED BY <1>1, <1>2, <1>3, <1>4 DEF LwLive

\* What LuaConnsExact says of one script.
LEMMA ListedAreConnected ==
    ASSUME LwLive, NEW s \in LuaScripts
    PROVE  /\ ToSet(lwConns[s]) = Connected(s)
           /\ Len(lwConns[s]) = Cardinality(Connected(s))
<1> DEFINE c == lwConns[s]
<1>t. /\ c \in Seq(LuaWorkers) /\ Len(c) \in Nat /\ DOMAIN c = 1..Len(c)
      /\ \A i \in 1..Len(c) : c[i] \in LuaWorkers
  BY DEF LwLive, LwTypeOK
<1>c. /\ \A i, j \in 1..Len(c) : c[i] = c[j] => i = j
      /\ \A u \in LuaWorkers : (\E i \in 1..Len(c) : c[i] = u) <=> lwScript[u] = s /\ lwPc[u] \in InList
  BY DEF LwLive, ConnList
<1>1. ToSet(c) = Connected(s)
  <2>1. \A u \in LuaWorkers : u \in Connected(s) <=> lwScript[u] = s /\ lwPc[u] \in InList
    BY DEF Connected, InList
  <2>2. \A u : u \in ToSet(c) <=> \E i \in 1..Len(c) : c[i] = u
    BY <1>t DEF ToSet
  <2>3. \A u : u \in Connected(s) => u \in LuaWorkers
    BY DEF Connected
  <2>4. \A u : u \in ToSet(c) => u \in LuaWorkers
    BY <2>2, <1>t
  <2> HIDE DEF c
  <2> QED BY <2>1, <2>2, <2>3, <2>4, <1>c
<1>2. c \in Bijection(1..Len(c), Connected(s))
  <2>1. c \in [1..Len(c) -> Connected(s)]
    <3>1. \A i \in 1..Len(c) : c[i] \in Connected(s)
      BY <1>1, <1>t DEF ToSet
    <3>2. c = [i \in 1..Len(c) |-> c[i]]
      BY <1>t
    <3> HIDE DEF c
    <3> QED BY <3>1, <3>2
  <2>2. \A u \in Connected(s) : \E i \in 1..Len(c) : c[i] = u
    BY <1>1, <1>t DEF ToSet
  <2>3. IsInjective(c)
    BY <1>t, <1>c DEF IsInjective
  <2> HIDE DEF c
  <2> QED BY <2>1, <2>2, <2>3 DEF Bijection, Injection, Surjection
<1>3. Cardinality(Connected(s)) = Len(c)
  <2>1. ExistsBijection(1..Len(c), Connected(s))
    BY <1>2 DEF ExistsBijection
  <2> HIDE DEF c
  <2> QED BY <2>1, <1>t, FS_CountingElements
<1> QED BY <1>1, <1>3

\* The steps of scripts and timers, and those at the end of the server.
LEMMA OtherSteps ==
    ASSUME LwLive,
           \/ \E s \in LuaScripts :
                \/ LuaWrite(s) \/ TimerActs(s) \/ TimerCancelled(s)
                \/ \E b \in BOOLEAN : SetTimer(s, b) \/ TimerEnds(s, b)
           \/ TimersCancelled \/ LuaStopCalled \/ LuaCtxExit
    PROVE  LwLive'
<1>t. LwTypeOK
  BY DEF LwLive
<1>a. "none" \notin LuaWorkers /\ "timer" \notin LuaWorkers
  BY LuaWebsocketsAssumption
<1>e. \A s \in LuaScripts : lwMutex[s] # "none" \/ lwTimer[s].at # "none" => HasEntry(s)
  BY DEF LwLive, EntryThere
<1>m. \A s \in LuaScripts : lwTimer[s].at = "act" => lwMutex[s] = "timer"
  BY DEF LwLive, MutexHeld
<1>f. \A x, y : \A s \in LuaScripts :
        /\ [lwTimer EXCEPT ![s] = x][s] = x
        /\ \A r \in LuaScripts \ {s} : [lwTimer EXCEPT ![s] = x][r] = lwTimer[r]
        /\ [lwMutex EXCEPT ![s] = y][s] = y
        /\ \A r \in LuaScripts \ {s} : [lwMutex EXCEPT ![s] = y][r] = lwMutex[r]
  BY <1>t DEF LwTypeOK
<1>1. ASSUME NEW s \in LuaScripts, LuaWrite(s) PROVE LwLive'
  <2>1. lwStray' = FALSE
    BY <1>1, ListedAreConnected DEF LuaWrite, LwLive
  <2>2. UNCHANGED <<lwPc, lwScript, lwMutex, lwList, lwConns, lwTimer>>
    BY <1>1 DEF LuaWrite, lwLocks
  <2>3. Keeps
    BY <2>1, <2>2, <1>t, <1>e, <1>m DEF Keeps, LwTypeOK, LwLive
  <2> QED BY <2>3, OthersMove
<1>2. ASSUME NEW s \in LuaScripts, NEW b \in BOOLEAN, SetTimer(s, b) PROVE LwLive'
  <2>1. /\ UNCHANGED <<lwPc, lwScript, lwMutex, lwList, lwConns, lwStray>>
        /\ lwTimer' = [lwTimer EXCEPT ![s] = [at |-> "armed", periodic |-> b]]
    BY <1>2 DEF SetTimer, lwLocks
  <2>2. HasEntry(s)
    BY <1>2, <1>a, <1>e DEF SetTimer, Running
  <2>3. [at |-> "armed", periodic |-> b] \in [at : {"none", "armed", "act", "cancel"}, periodic : BOOLEAN]
    OBVIOUS
  <2>4. Keeps
    BY <2>1, <2>2, <2>3, <1>f, <1>t, <1>e, <1>m DEF Keeps, LwTypeOK
  <2> QED BY <2>4, OthersMove
<1>s. ASSUME NEW s \in LuaScripts, NEW from, NEW to \in {"none", "armed", "act", "cancel"}, TimerStep(s, from, to)
      PROVE  /\ lwTimer' \in [LuaScripts -> [at : {"none", "armed", "act", "cancel"}, periodic : BOOLEAN]]
             /\ lwTimer[s].at = from /\ lwTimer'[s].at = to
             /\ \A r \in LuaScripts \ {s} : lwTimer'[r] = lwTimer[r]
  BY <1>s, <1>t DEF TimerStep, LwTypeOK
<1>3. ASSUME NEW s \in LuaScripts, TimerActs(s) PROVE LwLive'
  <2>1. /\ UNCHANGED <<lwPc, lwScript, lwList, lwConns, lwStray>>
        /\ TimerStep(s, "armed", "act") /\ lwMutex[s] = "none"
        /\ lwMutex' = [lwMutex EXCEPT ![s] = "timer"]
    BY <1>3 DEF TimerActs, LockScript
  <2>2. HasEntry(s)
    BY <2>1, <1>s, <1>e
  <2>3. Keeps
    BY <2>1, <2>2, <1>s, <1>f, <1>t, <1>e, <1>m DEF Keeps, LwTypeOK
  <2> QED BY <2>3, OthersMove
<1>4. ASSUME NEW s \in LuaScripts, NEW b \in BOOLEAN, TimerEnds(s, b) PROVE LwLive'
  <2>1. /\ UNCHANGED <<lwPc, lwScript, lwList, lwConns, lwStray>>
        /\ TimerStep(s, "act", "armed") \/ TimerStep(s, "act", "cancel")
        /\ lwMutex' = [lwMutex EXCEPT ![s] = "none"]
    BY <1>4 DEF TimerEnds, UnlockScript
  <2>2. lwMutex[s] = "timer" /\ HasEntry(s)
    BY <2>1, <1>s, <1>e, <1>m
  <2>3. Keeps
    BY <2>1, <2>2, <1>s, <1>f, <1>t, <1>e, <1>m DEF Keeps, LwTypeOK
  <2> QED BY <2>3, OthersMove
<1>5. ASSUME NEW s \in LuaScripts, TimerCancelled(s) PROVE LwLive'
  <2>1. /\ UNCHANGED <<lwPc, lwScript, lwMutex, lwList, lwConns, lwStray>>
        /\ TimerStep(s, "cancel", "none")
    BY <1>5 DEF TimerCancelled, lwLocks
  <2>2. Keeps
    BY <2>1, <1>s, <1>t, <1>e, <1>m DEF Keeps, LwTypeOK
  <2> QED BY <2>2, OthersMove
<1>6. CASE TimersCancelled
  <2>1. /\ UNCHANGED <<lwPc, lwScript, lwMutex, lwList, lwConns, lwStray>>
        /\ lwTimer' = [s \in LuaScripts |-> NoTimer]
    BY <1>6 DEF TimersCancelled, lwLocks
  <2>2. Keeps
    BY <2>1, <1>t, <1>e, <1>m DEF Keeps, LwTypeOK, NoTimer
  <2> QED BY <2>2, OthersMove
<1>7. CASE LuaStopCalled
  <2>1. UNCHANGED <<lwPc, lwScript, lwMutex, lwList, lwConns, lwTimer, lwStray>>
    BY <1>7 DEF LuaStopCalled, lwLocks
  <2>2. Keeps
    BY <2>1, <1>t, <1>e, <1>m DEF Keeps, LwTypeOK
  <2> QED BY <2>2, OthersMove
<1>8. CASE LuaCtxExit
  <2>1. /\ UNCHANGED <<lwScript, lwMutex, lwList, lwConns, lwTimer, lwStray>>
        /\ \A w \in LuaWorkers : lwPc[w] = "idle" /\ lwPc'[w] = "ended"
        /\ lwPc' \in [LuaWorkers -> LwPC]
    BY <1>8 DEF LuaCtxExit, lwLocks, LwPC
  <2>2. \A w \in LuaWorkers :
          /\ lwPc[w] \notin InList /\ lwPc'[w] \notin InList
          /\ lwPc'[w] \notin Holding /\ lwPc'[w] \notin {"join"} /\ lwPc'[w] \notin {"init", "inopen"}
    BY <2>1 DEF InList, Holding
  <2>3. LwTypeOK'
    BY <2>1, <1>t DEF LwTypeOK
  <2>a. MutexHeld'
    BY <2>1, <2>2, <1>m DEF MutexHeld
  <2>b. EntryThere'
    BY <2>1, <2>2, <1>e DEF EntryThere, HasEntry
  <2>c. EntryWaited'
    BY <2>2 DEF EntryWaited
  <2>4. MutexHeld' /\ EntryThere' /\ EntryWaited' /\ (lwStray = FALSE)'
    BY <2>a, <2>b, <2>c, <2>1 DEF LwLive
  <2>5. ASSUME NEW s \in LuaScripts PROVE ConnList(s)'
    BY <2>1, <2>2 DEF LwLive, ConnList
  <2> QED BY <2>3, <2>4, <2>5 DEF LwLive
<1> QED BY <1>1, <1>2, <1>3, <1>4, <1>5, <1>6, <1>7, <1>8

\* A process that has crashed stays so.
LEMMA CrashedStays == ASSUME LwCrashed, LwNext PROVE LwCrashed'
<1> USE DEF LwCrashed
<1>1. ASSUME NEW w \in LuaWorkers, NEW s \in LuaScripts PROVE ~(NewLock(w, s) \/ LwWorker(w, s) \/ HandlerCalled(w, s) \/ ConnectionEnds(w, s))
  <2>1. \A from, to : "crashed" \notin from => ~LwStep(w, s, from, to)
    BY DEF LwStep
  <2> QED BY <2>1 DEF NewLock, LwWorker, HandlerCalled, ConnectionEnds, NewFails, NewEntry, NewEntryReady,
         NewFound, NewJoin, NewCrashes, OpenRejects, OpenAccepts, HandlerReturns, CloseCalled, CloseRemoves,
         CloseSearches
<1>2. ~LuaCtxExit
  BY DEF LuaCtxExit
<1>3. ASSUME \/ \E s \in LuaScripts :
                 \/ LuaWrite(s) \/ TimerActs(s) \/ TimerCancelled(s)
                 \/ \E b \in BOOLEAN : SetTimer(s, b) \/ TimerEnds(s, b)
             \/ TimersCancelled \/ LuaStopCalled
      PROVE  lwPc' = lwPc
  BY <1>3 DEF LuaWrite, TimerActs, TimerCancelled, SetTimer, TimerEnds, TimersCancelled, LuaStopCalled
<1> QED BY <1>1, <1>2, <1>3 DEF LwNext

\* Every step keeps the invariant.
LEMMA LuaConnsStep == LwInv /\ [LwNext]_lwVars => LwInv'
<1> SUFFICES ASSUME LwInv, [LwNext]_lwVars PROVE LwInv'
  OBVIOUS
<1>1. CASE UNCHANGED lwVars
  <2>1. UNCHANGED <<lwPc, lwScript, lwMutex, lwList, lwConns, lwTimer, lwStray>>
    BY <1>1 DEF lwVars
  <2> QED BY <2>1 DEF LwInv, LwCrashed, LwLive, LwTypeOK, MutexHeld, EntryThere, EntryWaited, ConnList, HasEntry
<1>2. CASE LwCrashed /\ LwNext
  BY <1>2, CrashedStays DEF LwInv
<1>3. CASE LwLive /\ LwNext
  <2>1. ASSUME NEW w \in LuaWorkers, NEW s \in LuaScripts, NewCrashes(w, s) PROVE LwCrashed'
    BY <2>1 DEF NewCrashes, LwCrashed
  <2>2. ASSUME NEW w \in LuaWorkers, NEW s \in LuaScripts,
               NewLock(w, s) \/ LwWorker(w, s) \/ HandlerCalled(w, s) \/ ConnectionEnds(w, s)
        PROVE  LwInv'
    BY <2>1, <2>2, <1>3, NewLockStep, MovingSteps, JoiningSteps DEF LwWorker, LwInv
  <2>3. ASSUME \/ \E s \in LuaScripts :
                   \/ LuaWrite(s) \/ TimerActs(s) \/ TimerCancelled(s)
                   \/ \E b \in BOOLEAN : SetTimer(s, b) \/ TimerEnds(s, b)
               \/ TimersCancelled \/ LuaStopCalled \/ LuaCtxExit
        PROVE  LwInv'
    BY <2>3, <1>3, OtherSteps DEF LwInv
  <2> QED BY <1>3, <2>2, <2>3 DEF LwNext
<1> QED BY <1>1, <1>2, <1>3 DEF LwInv

\* Before the first connection no script has a connection, and nobody holds a mutex.
LEMMA LuaConnsStart == LwInit => LwInv
<1> SUFFICES ASSUME LwInit PROVE LwLive
  BY DEF LwInv
<1>1. /\ \A w \in LuaWorkers : lwPc[w] = "idle" /\ lwScript[w] = "null"
      /\ \A s \in LuaScripts : lwMutex[s] = "none" /\ lwConns[s] = <<>> /\ lwTimer[s] = NoTimer
  BY DEF LwInit
<1>2. LwTypeOK
  BY DEF LwInit, LwTypeOK, LwPC, NoTimer
<1>3. MutexHeld /\ EntryThere /\ EntryWaited /\ lwStray = FALSE
  BY <1>1 DEF LwInit, MutexHeld, EntryThere, EntryWaited, Holding, InList, NoTimer
<1>4. ASSUME NEW s \in LuaScripts PROVE ConnList(s)
  <2>1. lwConns[s] = <<>> /\ Len(<<>>) = 0 /\ \A i : i \notin 1..0
    BY <1>1
  <2> QED BY <2>1, <1>1 DEF ConnList, InList
<1> QED BY <1>2, <1>3, <1>4 DEF LwLive

\* Under the invariant a script's list is its open connections.
LEMMA LuaConnsSafe == LwInv => LuaConnsExact
BY ListedAreConnected DEF LwInv, LwCrashed, LuaConnsExact, LwLive

-----------------------------------------------------------------------------
(* LuaShared *)

\* A state with stack q and table t.
State(q, t, o) == [stack |-> q, table |-> t, on |-> o]

\* Between two accesses the stack of the shared state is empty.
SharedInv ==
    /\ L_shared = State(<<>>, L_shared.table, L_shared.on)
    /\ L_shared.table = [k \in AllKeys |-> L_shared.table[k]]
    /\ sharedResult = sharedWant

\* What the functions of the Lua library do to a state.
LEMMA StackSteps ==
    ASSUME NEW t, NEW o
    PROVE  /\ \A q, v : push(State(q, t, o), v) = State(Append(q, v), t, o)
           /\ \A q : getglobal(State(q, t, o)) = State(Append(q, "shared"), t, o)
           /\ \A q, n : pop(State(q, t, o), n) = State(SubSeq(q, 1, Len(q) - n), t, o)
           /\ \A q : top(State(q, t, o)) = Last(q)
           /\ \A q : rawget(State(q, t, o)) = State(Append(SubSeq(q, 1, Len(q) - 1), t[Last(q)]), t, o)
           /\ \A q : rawset(State(q, t, o)) =
                      State(SubSeq(q, 1, Len(q) - 2), [t EXCEPT ![q[Len(q) - 1]] = Last(q)], o)
<1>1. \A q, v : push(State(q, t, o), v) = State(Append(q, v), t, o)
  BY DEF push, State
<1>2. \A q, n : pop(State(q, t, o), n) = State(SubSeq(q, 1, Len(q) - n), t, o)
  <2>1. \A q, w : [State(q, t, o) EXCEPT !.stack = w] = State(w, t, o)
    BY DEF State
  <2>2. \A q : State(q, t, o).stack = q
    BY DEF State
  <2> QED BY <2>1, <2>2 DEF pop
<1>3. \A q : top(State(q, t, o)) = Last(q)
  BY DEF top, State
<1>4. \A q : getglobal(State(q, t, o)) = State(Append(q, "shared"), t, o)
  BY <1>1 DEF getglobal
<1>5. \A q : State(q, t, o).table = t /\ State(q, t, o).stack = q
  BY DEF State
<1>6. \A q : rawget(State(q, t, o)) = State(Append(SubSeq(q, 1, Len(q) - 1), t[Last(q)]), t, o)
  BY <1>1, <1>2, <1>3, <1>5 DEF rawget
<1>7. \A r, k, w : [State(r, t, o) EXCEPT !.table[k] = w] = State(r, [t EXCEPT ![k] = w], o)
  BY DEF State
<1>8. ASSUME NEW q
      PROVE  rawset(State(q, t, o)) = State(SubSeq(q, 1, Len(q) - 2), [t EXCEPT ![q[Len(q) - 1]] = Last(q)], o)
  <2> DEFINE L == State(q, t, o)
             r == SubSeq(q, 1, Len(q) - 2)
             k == q[Len(q) - 1]
  <2>1. rawset(L) = [pop(L, 2) EXCEPT !.table[k] = top(L)]
    BY <1>5 DEF rawset
  <2>2. pop(L, 2) = State(r, t, o) /\ top(L) = Last(q)
    BY <1>2, <1>3
  <2> HIDE DEF L, r, k
  <2>3. rawset(L) = [State(r, t, o) EXCEPT !.table[k] = top(L)]
    BY <2>1, <2>2
  <2>4. rawset(L) = State(r, [t EXCEPT ![k] = top(L)], o)
    BY <2>3, <1>7
  <2>5. rawset(L) = State(r, [t EXCEPT ![k] = Last(q)], o)
    BY <2>2, <2>4
  <2> QED BY <2>5 DEF L, r, k
<1> QED BY <1>1, <1>2, <1>3, <1>4, <1>6, <1>8

\* A sequence t that another one begins with.
LEMMA BeginningOf ==
    ASSUME NEW S, NEW s \in Seq(S), NEW t \in Seq(S), NEW n \in Nat \ {0}, Len(t) = n, n <= Len(s),
           \A i \in 1..n : s[i] = t[i]
    PROVE  SubSeq(s, 1, n) = t
<1>1. \A i \in 1..n : s[i] \in S
  OBVIOUS
<1>2. /\ SubSeq(s, 1, n) \in Seq(S) /\ Len(SubSeq(s, 1, n)) = IF 1 <= n THEN n - 1 + 1 ELSE 0
      /\ \A i \in 1..(n - 1 + 1) : SubSeq(s, 1, n)[i] = s[1 + i - 1]
  BY <1>1, SubSeqProperties
<1>3. Len(SubSeq(s, 1, n)) = n /\ \A i \in 1..n : SubSeq(s, 1, n)[i] = t[i]
  BY <1>2
<1> QED BY <1>2, <1>3, SeqEqual

\* A sequence t that is another one with x behind it.
LEMMA AppendedIs ==
    ASSUME NEW S, NEW s \in Seq(S), NEW x \in S, NEW t \in Seq(S), Len(t) = Len(s) + 1,
           t[Len(s) + 1] = x, \A i \in 1..Len(s) : t[i] = s[i]
    PROVE  Append(s, x) = t
<1>1. /\ Append(s, x) \in Seq(S) /\ Len(Append(s, x)) = Len(s) + 1 /\ Len(s) \in Nat
      /\ Append(s, x)[Len(s) + 1] = x /\ \A i \in 1..Len(s) : Append(s, x)[i] = s[i]
  OBVIOUS
<1>2. \A i \in 1..Len(Append(s, x)) : i \in 1..Len(s) \/ i = Len(s) + 1
  BY <1>1
<1>3. \A i \in 1..Len(Append(s, x)) : Append(s, x)[i] = t[i]
  BY <1>1, <1>2
<1>4. Len(Append(s, x)) = Len(t)
  BY <1>1
<1> QED BY <1>1, <1>3, <1>4, SeqEqual

\* Stacks of up to five elements: what is put on them, and what is left when the upper ones
\* are taken off.
Stack1(a) == <<a>>
Stack2(a, b) == <<a, b>>
Stack3(a, b, c) == <<a, b, c>>
Stack4(a, b, c, d) == <<a, b, c, d>>
Stack5(a, b, c, d, e) == <<a, b, c, d, e>>

\* The facts about these sequences that an access needs.
ShortStacks(a, b, c, d, e) ==
    /\ Append(<<>>, a) = Stack1(a) /\ Append(Stack1(a), b) = Stack2(a, b)
    /\ Append(Stack2(a, b), c) = Stack3(a, b, c)
    /\ Append(Stack3(a, b, c), d) = Stack4(a, b, c, d)
    /\ Append(Stack4(a, b, c, d), e) = Stack5(a, b, c, d, e)
    /\ SubSeq(Stack1(a), 1, Len(Stack1(a)) - 1) = <<>>
    /\ Last(Stack2(a, b)) = b
    /\ SubSeq(Stack2(a, b), 1, Len(Stack2(a, b)) - 1) = Stack1(a)
    /\ SubSeq(Stack2(a, b), 1, Len(Stack2(a, b)) - 2) = <<>>
    /\ Last(Stack3(a, b, c)) = c /\ Stack3(a, b, c)[Len(Stack3(a, b, c)) - 1] = b
    /\ SubSeq(Stack3(a, b, c), 1, Len(Stack3(a, b, c)) - 2) = Stack1(a)
    /\ SubSeq(Stack3(a, b, c), 1, Len(Stack3(a, b, c)) - 3) = <<>>
    /\ Last(Stack5(a, b, c, d, e)) = e
    /\ Stack5(a, b, c, d, e)[Len(Stack5(a, b, c, d, e)) - 1] = d
    /\ SubSeq(Stack5(a, b, c, d, e), 1, Len(Stack5(a, b, c, d, e)) - 2) = Stack3(a, b, c)

\* The sequence theorems say so.
LEMMA StacksAreShort == ASSUME NEW a, NEW b, NEW c, NEW d, NEW e PROVE ShortStacks(a, b, c, d, e)
<1> DEFINE T == {a, b, c, d, e}
           s1 == Stack1(a)
           s2 == Stack2(a, b)
           s3 == Stack3(a, b, c)
           s4 == Stack4(a, b, c, d)
           s5 == Stack5(a, b, c, d, e)
<1>t. a \in T /\ b \in T /\ c \in T /\ d \in T /\ e \in T
  OBVIOUS
<1>1. s1 \in Seq(T) /\ Len(s1) = 1 /\ s1[1] = a
  BY DEF Stack1
<1>2. s2 \in Seq(T) /\ Len(s2) = 2 /\ s2[1] = a /\ s2[2] = b
  BY DEF Stack2
<1>3. s3 \in Seq(T) /\ Len(s3) = 3 /\ s3[1] = a /\ s3[2] = b /\ s3[3] = c
  BY DEF Stack3
<1>4. s4 \in Seq(T) /\ Len(s4) = 4 /\ s4[1] = a /\ s4[2] = b /\ s4[3] = c /\ s4[4] = d
  BY DEF Stack4
<1>5. s5 \in Seq(T) /\ Len(s5) = 5 /\ s5[1] = a /\ s5[2] = b /\ s5[3] = c /\ s5[4] = d /\ s5[5] = e
  BY DEF Stack5
<1>a. Append(<<>>, a) = s1
  BY DEF Stack1
<1> HIDE DEF T, s1, s2, s3, s4, s5
<1>i. /\ \A i \in 1..1 : i = 1
      /\ \A i \in 1..2 : i \in {1, 2}
      /\ \A i \in 1..3 : i \in {1, 2, 3}
      /\ \A i \in 1..4 : i \in {1, 2, 3, 4}
  OBVIOUS
<1>b. Append(s1, b) = s2
  <2>1. /\ s1 \in Seq(T) /\ b \in T /\ s2 \in Seq(T) /\ Len(s2) = Len(s1) + 1 /\ s2[Len(s1) + 1] = b
        /\ \A i \in 1..Len(s1) : s2[i] = s1[i]
    BY <1>t, <1>1, <1>2, <1>i
  <2> QED BY ONLY <2>1, AppendedIs
<1>c. Append(s2, c) = s3
  <2>1. /\ s2 \in Seq(T) /\ c \in T /\ s3 \in Seq(T) /\ Len(s3) = Len(s2) + 1 /\ s3[Len(s2) + 1] = c
        /\ \A i \in 1..Len(s2) : s3[i] = s2[i]
    BY <1>t, <1>2, <1>3, <1>i
  <2> QED BY ONLY <2>1, AppendedIs
<1>d. Append(s3, d) = s4
  <2>1. /\ s3 \in Seq(T) /\ d \in T /\ s4 \in Seq(T) /\ Len(s4) = Len(s3) + 1 /\ s4[Len(s3) + 1] = d
        /\ \A i \in 1..Len(s3) : s4[i] = s3[i]
    BY <1>t, <1>3, <1>4, <1>i
  <2> QED BY ONLY <2>1, AppendedIs
<1>e. Append(s4, e) = s5
  <2>1. /\ s4 \in Seq(T) /\ e \in T /\ s5 \in Seq(T) /\ Len(s5) = Len(s4) + 1 /\ s5[Len(s4) + 1] = e
        /\ \A i \in 1..Len(s4) : s5[i] = s4[i]
    BY <1>t, <1>4, <1>5, <1>i
  <2> QED BY ONLY <2>1, AppendedIs
<1>6. Last(s2) = b /\ Last(s3) = c /\ Last(s5) = e
  BY <1>2, <1>3, <1>5 DEF Last
<1>7. /\ Len(s1) - 1 = 0 /\ Len(s2) - 1 = 1 /\ Len(s2) - 2 = 0 /\ Len(s3) - 1 = 2 /\ Len(s3) - 2 = 1
      /\ Len(s3) - 3 = 0 /\ Len(s5) - 1 = 4 /\ Len(s5) - 2 = 3
  BY <1>1, <1>2, <1>3, <1>5
<1>8. SubSeq(s1, 1, 0) = <<>> /\ SubSeq(s2, 1, 0) = <<>> /\ SubSeq(s3, 1, 0) = <<>>
  BY SubSeqEmpty
<1>9. SubSeq(s2, 1, 1) = s1
  BY ONLY <1>1, <1>2, <1>i, BeginningOf
<1>10. SubSeq(s3, 1, 1) = s1
  BY ONLY <1>1, <1>3, <1>i, BeginningOf
<1>11. SubSeq(s5, 1, 3) = s3
  BY ONLY <1>3, <1>5, <1>i, BeginningOf
<1>12. /\ Append(<<>>, a) = s1 /\ Append(s1, b) = s2 /\ Append(s2, c) = s3 /\ Append(s3, d) = s4 /\ Append(s4, e) = s5
       /\ SubSeq(s1, 1, Len(s1) - 1) = <<>> /\ Last(s2) = b
       /\ SubSeq(s2, 1, Len(s2) - 1) = s1 /\ SubSeq(s2, 1, Len(s2) - 2) = <<>>
       /\ Last(s3) = c /\ s3[Len(s3) - 1] = b
       /\ SubSeq(s3, 1, Len(s3) - 2) = s1 /\ SubSeq(s3, 1, Len(s3) - 3) = <<>>
       /\ Last(s5) = e /\ s5[Len(s5) - 1] = d /\ SubSeq(s5, 1, Len(s5) - 2) = s3
  BY <1>2, <1>3, <1>5, <1>6, <1>7, <1>8, <1>9, <1>10, <1>11, <1>a, <1>b, <1>c, <1>d, <1>e, Zenon
<1> QED BY <1>12 DEF ShortStacks, s1, s2, s3, s4, s5

\* What is on the stack between the steps of an access, and what the access leaves.
AccessExact(t, o, k, v) ==
    /\ rawget(push(getglobal(State(<<>>, t, o)), k)) = State(Stack2("shared", t[k]), t, o)
    /\ top(State(Stack2("shared", t[k]), t, o)) = t[k]
    /\ pop(State(Stack2("shared", t[k]), t, o), 2) = State(<<>>, t, o)
    /\ pop(rawset(push(push(getglobal(State(<<>>, t, o)), k), v)), 1)
         = State(<<>>, [t EXCEPT ![k] = v], o)
    /\ pop(rawset(push(push(getglobal(State(Stack2("shared", t[k]), t, o)), k), v)), 3)
         = State(<<>>, [t EXCEPT ![k] = v], o)

\* Reading pushes the value on the table and takes both off; writing pushes the table, the
\* key and the value, on an empty stack or on that of a read, and takes all of it off.
LEMMA Accesses == ASSUME NEW t, NEW o, NEW k, NEW v PROVE AccessExact(t, o, k, v)
<1> DEFINE x == t[k]
<1> DEFINE u == [t EXCEPT ![k] = v]
<1>p. \A q, w : push(State(q, t, o), w) = State(Append(q, w), t, o)
  BY StackSteps
<1>g. \A q : getglobal(State(q, t, o)) = State(Append(q, "shared"), t, o)
  BY StackSteps
<1>d. ASSUME NEW r PROVE \A q, n : pop(State(q, r, o), n) = State(SubSeq(q, 1, Len(q) - n), r, o)
  BY StackSteps
<1>r. \A q : /\ rawget(State(q, t, o)) = State(Append(SubSeq(q, 1, Len(q) - 1), t[Last(q)]), t, o)
             /\ top(State(q, t, o)) = Last(q)
             /\ rawset(State(q, t, o)) = State(SubSeq(q, 1, Len(q) - 2), [t EXCEPT ![q[Len(q) - 1]] = Last(q)], o)
  BY StackSteps
<1>y. ShortStacks("shared", k, v, k, v)
  BY StacksAreShort
<1>z. ShortStacks("shared", x, "shared", k, v)
  BY StacksAreShort
<1>1. getglobal(State(<<>>, t, o)) = State(Stack1("shared"), t, o)
  BY <1>g, <1>y, <1>z, Zenon DEF ShortStacks
<1>2. push(State(Stack1("shared"), t, o), k) = State(Stack2("shared", k), t, o)
  BY <1>p, <1>y, <1>z, Zenon DEF ShortStacks
<1>3. push(State(Stack2("shared", k), t, o), v) = State(Stack3("shared", k, v), t, o)
  BY <1>p, <1>y, <1>z, Zenon DEF ShortStacks
<1>4. rawget(State(Stack2("shared", k), t, o)) = State(Stack2("shared", x), t, o)
  BY <1>r, <1>y, <1>z, Zenon DEF ShortStacks
<1>5. top(State(Stack2("shared", x), t, o)) = x
  BY <1>r, <1>y, <1>z, Zenon DEF ShortStacks
<1>6. pop(State(Stack2("shared", x), t, o), 2) = State(<<>>, t, o)
  <2>1. SubSeq(Stack2("shared", x), 1, Len(Stack2("shared", x)) - 2) = <<>>
    BY <1>y, <1>z, Zenon DEF ShortStacks
  <2>2. pop(State(Stack2("shared", x), t, o), 2) = State(SubSeq(Stack2("shared", x), 1, Len(Stack2("shared", x)) - 2), t, o)
    BY <1>d
  <2> QED BY <2>1, <2>2
<1>7. rawset(State(Stack3("shared", k, v), t, o)) = State(Stack1("shared"), u, o)
  BY <1>r, <1>y, <1>z, Zenon DEF ShortStacks
<1>8. pop(State(Stack1("shared"), u, o), 1) = State(<<>>, u, o)
  <2>1. SubSeq(Stack1("shared"), 1, Len(Stack1("shared")) - 1) = <<>>
    BY <1>y, <1>z, Zenon DEF ShortStacks
  <2>2. pop(State(Stack1("shared"), u, o), 1) = State(SubSeq(Stack1("shared"), 1, Len(Stack1("shared")) - 1), u, o)
    BY <1>d
  <2> QED BY <2>1, <2>2
<1>9. getglobal(State(Stack2("shared", x), t, o)) = State(Stack3("shared", x, "shared"), t, o)
  BY <1>g, <1>y, <1>z, Zenon DEF ShortStacks
<1>10. push(State(Stack3("shared", x, "shared"), t, o), k) = State(Stack4("shared", x, "shared", k), t, o)
  BY <1>p, <1>y, <1>z, Zenon DEF ShortStacks
<1>11. push(State(Stack4("shared", x, "shared", k), t, o), v) = State(Stack5("shared", x, "shared", k, v), t, o)
  BY <1>p, <1>y, <1>z, Zenon DEF ShortStacks
<1>12. rawset(State(Stack5("shared", x, "shared", k, v), t, o)) = State(Stack3("shared", x, "shared"), u, o)
  <2> DEFINE q == Stack5("shared", x, "shared", k, v)
  <2>1. Last(q) = v /\ q[Len(q) - 1] = k /\ SubSeq(q, 1, Len(q) - 2) = Stack3("shared", x, "shared")
    BY <1>z, Zenon DEF ShortStacks
  <2> HIDE DEF q
  <2>2. rawset(State(q, t, o)) = State(Stack3("shared", x, "shared"), u, o)
    BY <2>1, <1>r, Zenon
  <2> QED BY <2>2 DEF q
<1>13. pop(State(Stack3("shared", x, "shared"), u, o), 3) = State(<<>>, u, o)
  <2>1. SubSeq(Stack3("shared", x, "shared"), 1, Len(Stack3("shared", x, "shared")) - 3) = <<>>
    BY <1>y, <1>z, Zenon DEF ShortStacks
  <2>2. pop(State(Stack3("shared", x, "shared"), u, o), 3) = State(SubSeq(Stack3("shared", x, "shared"), 1, Len(Stack3("shared", x, "shared")) - 3), u, o)
    BY <1>d
  <2> QED BY <2>1, <2>2
<1> HIDE DEF u, x
<1>14. /\ rawget(push(getglobal(State(<<>>, t, o)), k)) = State(Stack2("shared", x), t, o)
       /\ pop(rawset(push(push(getglobal(State(<<>>, t, o)), k), v)), 1) = State(<<>>, u, o)
  BY <1>1, <1>2, <1>3, <1>4, <1>7, <1>8, Zenon
<1>15. pop(rawset(push(push(getglobal(State(Stack2("shared", x), t, o)), k), v)), 3) = State(<<>>, u, o)
  BY <1>9, <1>10, <1>11, <1>12, <1>13, Zenon
<1> QED BY <1>5, <1>6, <1>14, <1>15, Zenon DEF u, x, AccessExact

\* An access leaves the stack as it was and returns what the table says.
LEMMA SharedStep == SharedInv /\ [SharedNext]_sharedVars => SharedInv'
<1> SUFFICES ASSUME SharedInv, [SharedNext]_sharedVars PROVE SharedInv'
  OBVIOUS
<1>i. PICK t, o : /\ L_shared = State(<<>>, t, o) /\ t = L_shared.table
                  /\ t = [k \in AllKeys |-> t[k]] /\ sharedResult = sharedWant
  BY DEF SharedInv
<1>a. \A k, v : AccessExact(t, o, k, v)
  BY Accesses
<1>s. ASSUME NEW q, NEW a, NEW b PROVE State(q, a, b).table = a /\ State(q, a, b).on = b /\ State(q, a, b).stack = q
  BY DEF State
<1>o. ASSUME NEW r, NEW b, L_shared' = State(<<>>, r, b), r = [k \in AllKeys |-> r[k]], sharedResult' = sharedWant'
      PROVE  SharedInv'
  <2>1. L_shared'.table = r /\ L_shared'.on = b
    BY <1>o, <1>s
  <2> QED BY <1>o, <2>1 DEF SharedInv
<1>u. ASSUME NEW k \in AllKeys, NEW v, L_shared' = State(<<>>, [t EXCEPT ![k] = v], o), sharedResult' = sharedWant'
      PROVE  SharedInv' /\ L_shared'.table[k] = v
  <2>1. L_shared'.table = [t EXCEPT ![k] = v] /\ L_shared'.on = o
    BY <1>u, <1>s
  <2>2. [t EXCEPT ![k] = v] = [j \in AllKeys |-> [t EXCEPT ![k] = v][j]] /\ [t EXCEPT ![k] = v][k] = v
    BY <1>i
  <2> QED BY <1>u, <2>1, <2>2 DEF SharedInv
<1>f. \A k : SharedFound(k) = State(Stack2("shared", t[k]), t, o) /\ top(SharedFound(k)) = t[k]
  BY <1>i, <1>a, Zenon DEF SharedFound, AccessExact
<1>x. ASSUME NEW k \in AllKeys, NEW v, Exchange(k, v)
      PROVE  L_shared' = State(<<>>, [t EXCEPT ![k] = v], o)
  <2>1. L_shared' = pop(rawset(push(push(getglobal(State(Stack2("shared", t[k]), t, o)), k), v)), 3)
    BY <1>x, <1>f, Zenon DEF Exchange
  <2> QED BY <2>1, <1>a, Zenon DEF AccessExact
<1>1. CASE UNCHANGED sharedVars
  BY <1>1 DEF sharedVars, SharedInv
<1>2. CASE lua_shared_init
  <2>1. L_shared' = State(<<>>, [k \in AllKeys |-> Nil], TRUE)
    BY <1>2 DEF lua_shared_init, SharedOff, State
  <2>2. sharedResult' = sharedWant'
    BY <1>2, <1>i DEF lua_shared_init
  <2>3. \A r : r = [k \in AllKeys |-> Nil] => r = [k \in AllKeys |-> r[k]]
    OBVIOUS
  <2> QED BY <2>1, <2>2, <2>3, <1>o
<1>3. CASE lua_shared_exit
  <2>1. L_shared' = State(<<>>, [k \in AllKeys |-> Nil], FALSE)
    BY <1>3 DEF lua_shared_exit, SharedOff, State
  <2>2. sharedResult' = sharedWant'
    BY <1>3 DEF lua_shared_exit
  <2>3. \A r : r = [k \in AllKeys |-> Nil] => r = [k \in AllKeys |-> r[k]]
    OBVIOUS
  <2> QED BY <2>1, <2>2, <2>3, <1>o
<1>4. CASE ReservedIndex
  BY <1>4 DEF ReservedIndex, SharedInv
<1>5. ASSUME NEW k \in AllKeys, NEW n, shared_locked_add(k, n) PROVE SharedInv'
  <2> DEFINE sum == number(tonumber(top(SharedFound(k))).n + n)
  <2>1. Exchange(k, sum) /\ sharedResult' = sum /\ sharedWant' = L_shared'.table[k]
    BY <1>5 DEF shared_locked_add
  <2> HIDE DEF sum
  <2>2. L_shared' = State(<<>>, [t EXCEPT ![k] = sum], o)
    BY <2>1, <1>x
  <2>3. L_shared'.table[k] = sum
    BY <2>2, <1>s, <1>i
  <2> QED BY <2>1, <2>2, <2>3, <1>u
<1>6. ASSUME NEW k \in AllKeys, NEW n, lua_shared_exchange(k, n) PROVE SharedInv'
  <2>1. /\ Exchange(k, number(n)) /\ sharedResult' = tonumber(top(SharedFound(k)))
        /\ sharedWant' = tonumber(t[k])
    BY <1>6, <1>i DEF lua_shared_exchange
  <2>2. L_shared' = State(<<>>, [t EXCEPT ![k] = number(n)], o)
    BY <2>1, <1>x
  <2>3. sharedResult' = sharedWant'
    BY <2>1, <1>f
  <2> QED BY <2>2, <2>3, <1>u
<1>7. ASSUME NEW k \in AllKeys, lua_shared_index(k) PROVE SharedInv'
  <2> DEFINE L == rawget(push(getglobal(L_shared), k))
  <2>1. L_shared' = pop(L, 2) /\ sharedResult' = top(L) /\ sharedWant' = t[k]
    BY <1>7, <1>i DEF lua_shared_index
  <2>2. L = State(Stack2("shared", t[k]), t, o)
    BY <1>i, <1>a, Zenon DEF AccessExact
  <2>3. L_shared' = State(<<>>, t, o) /\ sharedResult' = t[k]
    BY <2>1, <2>2, <1>a, Zenon DEF AccessExact
  <2>4. L_shared' = L_shared
    BY <2>3, <1>i
  <2> QED BY <2>1, <2>3, <2>4 DEF SharedInv
<1>8. ASSUME NEW k \in AllKeys, NEW v, lua_shared_newindex(k, v) PROVE SharedInv'
  <2>1. L_shared' = pop(rawset(push(push(getglobal(L_shared), k), v)), 1) /\ sharedResult' = sharedWant'
    BY <1>8, <1>i DEF lua_shared_newindex
  <2>2. L_shared' = State(<<>>, [t EXCEPT ![k] = v], o)
    BY <2>1, <1>i, <1>a, Zenon DEF AccessExact
  <2> QED BY <2>1, <2>2, <1>u
<1> QED BY <1>1, <1>2, <1>3, <1>4, <1>5, <1>6, <1>7, <1>8 DEF SharedNext

\* lua_shared_init and lua_shared_exit leave the stack empty, and so does the beginning.
LEMMA SharedStart == SharedInit => SharedInv
BY DEF SharedInit, SharedOff, SharedInv, State

\* Under the invariant nothing is left on the stack after an access.
LEMMA SharedSafe == SharedInv => SharedBalanced
BY DEF SharedInv, SharedBalanced, State

-----------------------------------------------------------------------------
(* LspPage: pages that include others *)

\* A sequence of any set.
IsSequence(s) == \E S : s \in Seq(S)

\* What nested pages have opened is on incStack; a page is only included below the limit of
\* the depth, and nothing is open when no page runs.
PagesInv ==
    /\ IsSequence(incStack)
    /\ PagesBalanced
    /\ incRun = "including" => incDepth < LspMaxDepth
    /\ incRun \in {"none", "done", "script"} => incStack = <<>>

\* A page that begins, ends, fails or includes another keeps what is opened balanced.
LEMMA PagesStep == PagesInv /\ [IncNext]_incVars => PagesInv'
<1> SUFFICES ASSUME PagesInv, [IncNext]_incVars PROVE PagesInv'
  OBVIOUS
<1>d. LspMaxDepth \in Nat \ {0}
  BY LspIncludeAssumption
<1>s. PICK S : incStack \in Seq(S)
  BY DEF PagesInv, IsSequence
<1>l. Len(incStack) \in Nat /\ (incStack = <<>> <=> Len(incStack) = 0) /\ incDepth = Len(incStack)
      /\ incDepth <= LspMaxDepth
  BY <1>s DEF PagesInv, PagesBalanced
<1>f. incRun # "fault" => incFiles = incDepth /\ incMaps = incDepth
  BY DEF PagesInv, PagesBalanced
<1>b. incRun \in {"none", "done"} => incStack = <<>> /\ ~incLua
  BY DEF PagesInv, PagesBalanced
<1>i. /\ incRun = "including" => incDepth < LspMaxDepth
      /\ incRun \in {"none", "done", "script"} => incStack = <<>>
  BY DEF PagesInv
<1> USE DEF PagesInv, PagesBalanced
<1>1. CASE UNCHANGED incVars
  BY <1>1 DEF incVars
<1>2. CASE NotOpened
  BY <1>2, <1>l, <1>f, <1>b, <1>i DEF NotOpened
<1>3. CASE NotMapped
  BY <1>3, <1>l, <1>f, <1>b, <1>i DEF NotMapped
<1>4. CASE NoLuaState
  BY <1>4, <1>l, <1>f, <1>b, <1>i DEF NoLuaState
<1>5. CASE CodeFails \/ CodeCatches
  BY <1>5, <1>l, <1>f, <1>b, <1>i DEF CodeFails, CodeCatches, IncGoes
<1>6. CASE ScriptRuns \/ ScriptEnds \/ NextPage
  BY <1>6, <1>l, <1>f, <1>b, <1>i DEF ScriptRuns, ScriptEnds, NextPage, IncGoes
<1>7. ASSUME NEW syntax, PageRuns(syntax) PROVE PagesInv'
  <2>1. /\ incRun \in {"none", "including"} /\ incRun' = "running"
        /\ incFiles' = incFiles + 1 /\ incMaps' = incMaps + 1
        /\ incDepth' = incDepth + 1 /\ incStack' = Append(incStack, syntax)
    BY <1>7 DEF PageRuns
  <2>2. incStack \in Seq(S \cup {syntax})
    BY <1>s, SeqMonotonic
  <2>3. incStack' \in Seq(S \cup {syntax}) /\ Len(incStack') = Len(incStack) + 1
    BY <2>1, <2>2
  <2>4. IsSequence(incStack')
    BY <2>3 DEF IsSequence
  <2>5. incDepth < LspMaxDepth
    BY <2>1, <1>l, <1>i, <1>d
  <2>6. incFiles = incDepth /\ incMaps = incDepth
    BY <2>1, <1>f
  <2> QED BY <2>1, <2>3, <2>4, <2>5, <2>6, <1>l, <1>d
<1>8. ASSUME NEW error \in BOOLEAN, LuaPageReturns(error) PROVE PagesInv'
  <2> DEFINE rest == SubSeq(incStack, 1, Len(incStack) - 1)
  <2>1. /\ incRun \in {"running", "error"} /\ incStack # <<>> /\ incStack' = rest /\ incDepth' = incDepth - 1
        /\ incFiles' = incFiles - 1 /\ incMaps' = incMaps - 1
        /\ incLua' = (rest # <<>>) /\ incRun' \in {"done", "error", "running"}
        /\ incRun' = "done" => rest = <<>>
    BY <1>8 DEF LuaPageReturns, Resumed
  <2>2. rest \in Seq(S) /\ Len(rest) = Len(incStack) - 1
    <3>1. \A i \in 1..(Len(incStack) - 1) : incStack[i] \in S
      BY <1>s
    <3>2. Len(incStack) - 1 \in Nat
      BY <2>1, <1>l
    <3> QED BY <3>1, <3>2, SubSeqProperties
  <2> HIDE DEF rest
  <2>3. IsSequence(incStack')
    BY <2>1, <2>2 DEF IsSequence
  <2>4. incRun' = "done" => incStack' = <<>> /\ ~incLua'
    BY <2>1, Zenon
  <2>5. incDepth' = Len(incStack') /\ incDepth' <= LspMaxDepth
    BY <2>1, <2>2, <1>l, <1>d
  <2>6. incFiles' = incDepth' /\ incMaps' = incDepth'
    BY <2>1, <1>f, <1>l
  <2> QED BY <2>1, <2>3, <2>4, <2>5, <2>6
<1>9. ASSUME NEW valid \in BOOLEAN, lsp_include(valid) PROVE PagesInv'
  BY <1>9, <1>l, <1>f, <1>b, <1>i, <1>d DEF lsp_include, IncGoes
<1> QED BY <1>1, <1>2, <1>3, <1>4, <1>5, <1>6, <1>7, <1>8, <1>9 DEF IncNext

\* No page runs at the beginning.
LEMMA PagesStart == IncInit => PagesInv
<1>1. IsSequence(<<>>)
  <2>1. <<>> \in Seq({})
    OBVIOUS
  <2> QED BY <2>1 DEF IsSequence
<1> QED BY <1>1, LspIncludeAssumption DEF IncInit, PagesInv, PagesBalanced

-----------------------------------------------------------------------------
(* The Lua states together *)

\* LuaStates: whatever happens in the websocket scripts, in the shared state and in nested
\* pages, each of them as mod_lua.inl and mod_lua_shared.inl have it.
THEOREM LuaStatesHold ==
    /\ LwInit /\ [][LwNext]_lwVars
    /\ SharedInit /\ [][SharedNext]_sharedVars
    /\ IncInit /\ [][IncNext]_incVars
    => []LuaStates
<1>1. LwInit /\ SharedInit /\ IncInit => LwInv /\ SharedInv /\ PagesInv
  BY LuaConnsStart, SharedStart, PagesStart
<1>2. /\ LwInv /\ SharedInv /\ PagesInv
      /\ [LwNext]_lwVars /\ [SharedNext]_sharedVars /\ [IncNext]_incVars
      => LwInv' /\ SharedInv' /\ PagesInv'
  BY LuaConnsStep, SharedStep, PagesStep
<1>3. LwInv /\ SharedInv /\ PagesInv => LuaStates
  BY LuaConnsSafe, SharedSafe DEF LuaStates, PagesInv
<1> QED BY <1>1, <1>2, <1>3, PTL
=============================================================================
