----------------------- MODULE HandlerRegistryProofs -----------------------
(***************************************************************************)
(* Proofs about HandlerRegistry for every number of setters and servers,   *)
(* every set of URIs and every way they match.  Reference counting is      *)
(* proved for the programs in which a callback that has declined a request *)
(* is not followed by a failing authorization: the other ones release the  *)
(* handler twice (run registry_double_release).                            *)
(***************************************************************************)
EXTENDS HandlerRegistry, FiniteSetTheorems, TLAPS

\* The modulus of the counter is large enough for every server to count.
LEMMA ModulusFacts ==
    /\ UnsignedModulus \in Nat \ {0}
    /\ Cardinality(Server) \in Nat
BY RegistryAssumption, FS_CardinalityType

\* Type correctness holds in every initial state.
LEMMA TypeInit == Init => TypeOK
<1> SUFFICES ASSUME Init PROVE TypeOK
  OBVIOUS
<1>1. info \in [1..allocated -> HandlerInfo]
  BY DEF Init
<1> QED BY <1>1, RegistryAssumption DEF Init, TypeOK

\* A request counter stays an unsigned int.
LEMMA CounterType ==
    ASSUME NEW n \in 0..(UnsignedModulus - 1)
    PROVE  /\ (n + 1) % UnsignedModulus \in 0..(UnsignedModulus - 1)
           /\ (n - 1) % UnsignedModulus \in 0..(UnsignedModulus - 1)
BY ModulusFacts

\* Acquiring and releasing change one counter of an allocated handler.
LEMMA CounterStep ==
    ASSUME TypeOK, NEW h \in Nat, AddRef(h) \/ release_handler_ref(h)
    PROVE  /\ info' \in [1..allocated -> HandlerInfo]
           /\ \A g \in 1..allocated :
                 /\ info'[g].type = info[g].type
                 /\ info'[g].uri = info[g].uri
                 /\ info'[g].cbdata = info[g].cbdata
                 /\ info'[g].removing = info[g].removing
                 /\ info'[g].leaked = info[g].leaked
                 /\ g # h => info'[g] = info[g]
<1>1. CASE h \in 1..allocated
  <2>1. info[h] \in HandlerInfo /\ h # NULL
    BY <1>1 DEF TypeOK, NULL
  <2>2. PICK n \in 0..(UnsignedModulus - 1) : info' = [info EXCEPT ![h].refcount = n]
    BY <2>1, CounterType DEF AddRef, release_handler_ref, HandlerInfo
  <2> QED BY <1>1, <2>1, <2>2 DEF TypeOK, HandlerInfo
<1>2. CASE h \notin 1..allocated
  <2>1. info' = info
    BY <1>2 DEF TypeOK, AddRef, release_handler_ref
  <2> QED BY <2>1 DEF TypeOK
<1> QED BY <1>1, <1>2

\* A lost reference changes nothing of a handler but the count of those.
LEMMA LeakStep ==
    ASSUME TypeOK, NEW q \in Server, Http2Leaves(q)
    PROVE  /\ info' \in [1..allocated -> HandlerInfo]
           /\ \A g \in 1..allocated :
                 /\ info'[g].type = info[g].type
                 /\ info'[g].uri = info[g].uri
                 /\ info'[g].cbdata = info[g].cbdata
                 /\ info'[g].removing = info[g].removing
                 /\ info'[g].refcount = info[g].refcount
                 /\ info'[g].leaked =
                       info[g].leaked + IF g = server[q].handler_info THEN 1 ELSE 0
<1> DEFINE h == server[q].handler_info
<1>1. info[h].leaked < MaxHttp2 /\ info' = [info EXCEPT ![h].leaked = @ + 1]
  BY DEF Http2Leaves
<1>2. CASE h \in 1..allocated
  <2>1. info[h] \in HandlerInfo
    BY <1>2 DEF TypeOK
  <2>2. PICK n \in 0..MaxHttp2 : n = info[h].leaked + 1
    BY <1>1, <2>1, RegistryAssumption DEF HandlerInfo
  <2>3. info' = [info EXCEPT ![h].leaked = n]
    BY <1>1, <1>2, <2>2 DEF TypeOK
  <2>4. \A g \in 1..allocated : g # h => info[g].leaked + 0 = info[g].leaked
    BY DEF TypeOK, HandlerInfo
  <2> QED BY <1>2, <2>1, <2>2, <2>3, <2>4 DEF TypeOK, HandlerInfo
<1>3. CASE h \notin 1..allocated
  <2>1. info' = info
    BY <1>1, <1>3 DEF TypeOK
  <2>2. \A g \in 1..allocated : info[g].leaked + 0 = info[g].leaked
    BY DEF TypeOK, HandlerInfo
  <2> QED BY <1>3, <2>1, <2>2 DEF TypeOK
<1> QED BY <1>2, <1>3

\* Every step keeps the state well typed.
LEMMA TypeStep == TypeOK /\ [Next]_vars => TypeOK'
<1> SUFFICES ASSUME TypeOK, [Next]_vars PROVE TypeOK'
  OBVIOUS
<1> USE RegistryAssumption DEF TypeOK
<1>1. ASSUME NEW t \in Setter, NEW type \in Types, NEW uri \in Uri, SetCall(t, type, uri)
      PROVE  TypeOK'
  BY <1>1 DEF SetCall, SetCalls, Type, CbData, NULL
<1>2. ASSUME NEW t \in Setter, NEW h \in handlers, SetWait(t, h) PROVE TypeOK'
  <2>1. info[h] \in HandlerInfo
    OBVIOUS
  <2>2. info' \in [1..allocated -> HandlerInfo]
    BY <1>2, <2>1 DEF SetWait, HandlerInfo
  <2> QED BY <1>2, <2>2 DEF SetWait
<1>3. ASSUME NEW t \in Setter, NEW h \in handlers, SetUpdate(t, h) PROVE TypeOK'
  <2>1. info[h] \in HandlerInfo /\ setter[t].cbdata \in CbData
    BY <1>3 DEF SetUpdate, SetCalls, Idle
  <2>2. info' \in [1..allocated -> HandlerInfo]
    BY <1>3, <2>1 DEF SetUpdate, HandlerInfo
  <2> QED BY <1>3, <2>1, <2>2 DEF SetUpdate, HandlerInfo
<1>4. ASSUME NEW t \in Setter, NEW h \in handlers, SetRemove(t, h) PROVE TypeOK'
  BY <1>4 DEF SetRemove, HandlerInfo
<1>5. ASSUME NEW t \in Setter, SetCreate(t) PROVE TypeOK'
  <2>1. NewHandler(t) \in HandlerInfo
    BY <1>5, ModulusFacts DEF SetCreate, NewHandler, HandlerInfo, SetCalls, Idle
  <2>2. allocated' = allocated + 1 /\ \A h \in 1..allocated' : h # allocated' => h \in 1..allocated
    BY <1>5 DEF SetCreate
  <2>3. info' \in [1..allocated' -> HandlerInfo]
    BY <1>5, <2>1, <2>2 DEF SetCreate
  <2> QED BY <1>5, <2>2, <2>3 DEF SetCreate
<1>6. ASSUME NEW t \in Setter, SetReturn(t) PROVE TypeOK'
  BY <1>6 DEF SetReturn
<1>7. ASSUME NEW q \in Server, NEW uri \in Uri, NEW ws \in BOOLEAN, NEW put \in BOOLEAN,
             FindCallback(q, uri, ws, put)
      PROVE  TypeOK'
  <2>1. PICK h \in handlers : /\ server' = [server EXCEPT ![q] = NewRequest(uri, ws, put, h)]
                              /\ IF ws THEN UNCHANGED info ELSE AddRef(h)
    BY <1>7 DEF FindCallback, Found
  <2>2. info[h] \in HandlerInfo /\ h \in Handler
    BY DEF Handler
  <2>3. NewRequest(uri, ws, put, h) \in Requests
    BY <2>2 DEF NewRequest, Requests, HandlerInfo
  <2>4. info' \in [1..allocated -> HandlerInfo]
    BY <2>1, CounterStep
  <2> QED BY <1>7, <2>1, <2>3, <2>4 DEF FindCallback
<1>8. ASSUME NEW q \in Server, NEW uri \in Uri, NEW ws \in BOOLEAN, NEW put \in BOOLEAN,
             FindNoCallback(q, uri, ws, put)
      PROVE  TypeOK'
  <2>1. NewRequest(uri, ws, put, NULL) \in Requests
    BY DEF NewRequest, Requests
  <2> QED BY <1>8, <2>1 DEF FindNoCallback
<1>9. ASSUME NEW q \in Server, FindAuth(q) PROVE TypeOK'
  <2>1. PICK h \in handlers :
            server' = [server EXCEPT ![q].pc = "auth", ![q].auth = info[h].cbdata]
    BY <1>9 DEF FindAuth, Found
  <2>2. info[h].cbdata \in CbData /\ server[q] \in Requests
    BY <1>9 DEF FindAuth, Idle, HandlerInfo
  <2>3. server' \in [Server -> Requests \cup {Idle}]
    BY <2>1, <2>2 DEF Requests
  <2> QED BY <1>9, <2>3 DEF FindAuth
<1>10. ASSUME NEW q \in Server, PutRejected(q) PROVE TypeOK'
  BY <1>10 DEF PutRejected
<1>11. ASSUME NEW q \in Server, server[q] \in Requests,
              release_handler_ref(server[q].handler_info),
              server' = [server EXCEPT ![q] = Idle]
                \/ server' = [server EXCEPT ![q].pc = "authorize", ![q].is_callback = FALSE],
              UNCHANGED <<handlers, allocated, sets, setter, retired>>
       PROVE  TypeOK'
  <2>1. info' \in [1..allocated -> HandlerInfo]
    BY <1>11, CounterStep DEF Requests, Handler, NULL
  <2>2. [server[q] EXCEPT !.pc = "authorize", !.is_callback = FALSE] \in Requests
    BY <1>11 DEF Requests
  <2>3. \/ server' = [server EXCEPT ![q] = Idle]
        \/ server' = [server EXCEPT ![q] = [server[q] EXCEPT !.pc = "authorize",
                                                            !.is_callback = FALSE]]
    BY <1>11
  <2>4. server' \in [Server -> Requests \cup {Idle}]
    BY <2>2, <2>3
  <2> QED BY <1>11, <2>1, <2>4
<1>12. ASSUME NEW q \in Server, AuthReject(q) PROVE TypeOK'
  <2>1. server[q] \in Requests
    BY <1>12 DEF AuthReject, Authorizing, Idle
  <2> QED BY <1>11, <1>12, <2>1 DEF AuthReject
<1>13. ASSUME NEW q \in Server, AuthAccept(q) PROVE TypeOK'
  <2>1. server[q] \in Requests
    BY <1>13 DEF AuthAccept, Authorizing, Idle
  <2>2. server' \in [Server -> Requests \cup {Idle}]
    BY <1>13, <2>1 DEF AuthAccept, Dispatch, Requests
  <2> QED BY <1>13, <2>2 DEF AuthAccept
<1>14. ASSUME NEW q \in Server, CallbackDone(q) \/ CallbackDeclines(q) PROVE TypeOK'
  <2>1. server[q] \in Requests
    BY <1>14 DEF CallbackDone, CallbackDeclines, Idle
  <2> QED BY <1>11, <1>14, <2>1 DEF CallbackDone, CallbackDeclines
<1>15. ASSUME NEW q \in Server, WebsocketDone(q) PROVE TypeOK'
  BY <1>15 DEF WebsocketDone
<1>16. CASE UNCHANGED vars
  BY <1>16 DEF vars
<1>17. ASSUME NEW q \in Server, Http2Leaves(q) PROVE TypeOK'
  BY <1>17, LeakStep DEF Http2Leaves
<1> QED BY <1>1, <1>2, <1>3, <1>4, <1>5, <1>6, <1>7, <1>8, <1>9, <1>10, <1>12, <1>13,
           <1>14, <1>15, <1>16, <1>17 DEF Next, SetterStep, ServerStep, Arrive

\* Type correctness of HandlerRegistry, for all threads and URIs.
THEOREM TypeCorrect == Spec => []TypeOK
<1> QED BY TypeInit, TypeStep, PTL DEF Spec

------------------------------------------------------------------------------
(* Reference counting.  The counter is exact because a request counts as a *)
(* user exactly while is_callback_resource is set; that needs to know what *)
(* handler_info is in every kind of request.                               *)

RequestState ==
    \A q \in Server : server[q] # Idle =>
        /\ server[q].is_callback /\ ~server[q].is_websocket => server[q].handler_info # NULL
        /\ server[q].is_websocket => server[q].handler_info = NULL
        /\ server[q].pc = "callback" => server[q].is_callback /\ ~server[q].is_websocket
        /\ server[q].pc = "websocket" => server[q].is_websocket
        /\ ~CallbackMayDecline /\ server[q].handler_info # NULL => server[q].is_callback

\* What a user of a handler has is registered, and is what it was registered
\* with when the request acquired it.
UsersRegistered ==
    \A q \in Server : server[q] # Idle /\ server[q].is_callback /\ server[q].handler_info # NULL =>
        /\ server[q].handler_info \in handlers
        /\ info[server[q].handler_info].type = "request"
        /\ info[server[q].handler_info].cbdata = server[q].cbdata

RefInv == TypeOK /\ RequestState /\ UsersRegistered /\ RefcountExact

\* No handler has users before the first request.
LEMMA RefInit == Init => RefInv
BY TypeInit DEF Init, RefInv, RequestState, UsersRegistered, RefcountExact

\* The users of a handler are finitely many, fewer than the counter can count.
LEMMA UsersBounded ==
    ASSUME NEW h
    PROVE  /\ IsFiniteSet(Users(h))
           /\ Cardinality(Users(h)) \in Nat
           /\ Cardinality(Users(h)) < UnsignedModulus
<1>1. Users(h) \subseteq Server
  BY DEF Users
<1>2. IsFiniteSet(Users(h)) /\ Cardinality(Users(h)) <= Cardinality(Server)
  BY <1>1, FS_Subset, RegistryAssumption
<1> QED BY <1>2, FS_CardinalityType, ModulusFacts, RegistryAssumption

\* With the servers unchanged and the registered counters unchanged, the
\* counters stay exact.
LEMMA SetterFrame ==
    ASSUME RefInv, UNCHANGED server, TypeOK',
           \A h \in handlers' : \/ /\ h \in handlers
                                   /\ info'[h].type = info[h].type
                                   /\ info'[h].refcount = info[h].refcount
                                   /\ info'[h].leaked = info[h].leaked
                                \/ /\ info'[h].refcount = 0 /\ info'[h].leaked = 0
                                   /\ Users(h) = {}
    PROVE  RequestState' /\ RefcountExact'
<1>1. \A h : Users(h)' = Users(h)
  BY DEF Users
<1>2. Cardinality({}) = 0
  BY FS_EmptySet
<1> QED BY <1>1, <1>2 DEF RefInv, RequestState, RefcountExact

\* A request handler that is not in use has no users.
LEMMA NotInUse ==
    ASSUME RefInv, NEW h \in handlers, ~InUse(h)
    PROVE  Users(h) = {}
<1> SUFFICES ASSUME NEW q \in Users(h) PROVE FALSE
  OBVIOUS
<1>1. q \in Server /\ server[q] # Idle /\ server[q].is_callback /\ server[q].handler_info = h
  BY DEF Users
<1>2. h # NULL
  BY DEF RefInv, TypeOK, NULL
<1>3. info[h].type = "request"
  BY <1>1, <1>2 DEF RefInv, UsersRegistered
<1>4. Cardinality(Users(h)) = 0
  <2>1. info[h].refcount = 0 /\ info[h].refcount = Cardinality(Users(h)) + info[h].leaked
    BY <1>3 DEF InUse, RefInv, RefcountExact
  <2>2. info[h].leaked \in Nat
    BY DEF RefInv, TypeOK, HandlerInfo
  <2> QED BY <2>1, <2>2, UsersBounded
<1> QED BY <1>4, UsersBounded, FS_EmptySet

\* Calls that set, update or remove handlers keep the counters exact.
LEMMA RefSetterStep ==
    ASSUME RefInv, TypeOK', NEW t \in Setter,
           SetterStep(t) \/ \E type \in Types, uri \in Uri : SetCall(t, type, uri)
    PROVE  RefInv'
<1> USE DEF RefInv
<1>1. ASSUME NEW type \in Types, NEW uri \in Uri, SetCall(t, type, uri) PROVE RefInv'
  <2>1. UNCHANGED <<handlers, info, server>>
    BY <1>1 DEF SetCall
  <2> QED BY <2>1, SetterFrame DEF UsersRegistered
<1>2. ASSUME NEW h \in handlers, SetWait(t, h) PROVE RefInv'
  <2>1. UNCHANGED <<handlers, server>> /\ h \in 1..allocated
    BY <1>2 DEF SetWait, TypeOK
  <2>2. \A g \in 1..allocated : /\ info'[g].type = info[g].type
                                /\ info'[g].refcount = info[g].refcount
                                /\ info'[g].leaked = info[g].leaked
                                /\ info'[g].cbdata = info[g].cbdata
    BY <1>2, <2>1 DEF SetWait, TypeOK, HandlerInfo
  <2>3. RequestState' /\ RefcountExact'
    BY <2>1, <2>2, SetterFrame DEF TypeOK
  <2>4. UsersRegistered'
    BY <2>1, <2>2 DEF UsersRegistered, TypeOK
  <2> QED BY <2>3, <2>4
<1>3. ASSUME NEW h \in handlers, SetUpdate(t, h) PROVE RefInv'
  <2>1. UNCHANGED <<handlers, server>> /\ h \in 1..allocated
    BY <1>3 DEF SetUpdate, TypeOK
  <2>2. \A g \in 1..allocated : /\ info'[g].type = info[g].type
                                /\ info'[g].refcount = info[g].refcount
                                /\ info'[g].leaked = info[g].leaked
                                /\ g # h => info'[g].cbdata = info[g].cbdata
    BY <1>3, <2>1 DEF SetUpdate, TypeOK, HandlerInfo
  <2>3. RequestState' /\ RefcountExact'
    BY <2>1, <2>2, SetterFrame DEF TypeOK
  <2>4. Users(h) = {}
    BY <1>3, NotInUse DEF SetUpdate
  <2>5. UsersRegistered'
    BY <2>1, <2>2, <2>4 DEF UsersRegistered, TypeOK, Users
  <2> QED BY <2>3, <2>5
<1>4. ASSUME NEW h \in handlers, SetRemove(t, h) PROVE RefInv'
  <2>1. UNCHANGED <<info, server>> /\ handlers' = handlers \ {h}
    BY <1>4 DEF SetRemove
  <2>2. RequestState' /\ RefcountExact'
    BY <2>1, SetterFrame
  <2>3. Users(h) = {}
    BY <1>4, NotInUse DEF SetRemove
  <2>4. UsersRegistered'
    BY <2>1, <2>3 DEF UsersRegistered, Users
  <2> QED BY <2>2, <2>4
<1>5. CASE SetCreate(t)
  <2> DEFINE new == allocated + 1
  <2>1. /\ allocated' = new /\ new \notin 1..allocated /\ new # NULL
        /\ UNCHANGED server /\ handlers' = handlers \cup {new}
        /\ info'[new] = NewHandler(t)
        /\ \A g \in 1..allocated : info'[g] = info[g]
    BY <1>5 DEF SetCreate, TypeOK, NULL
  <2>2. info'[new].refcount = 0 /\ info'[new].leaked = 0
    BY <2>1 DEF NewHandler
  <2>3. Users(new) = {}
    BY <2>1 DEF Users, UsersRegistered, TypeOK
  <2>4. \A g \in handlers : g \in 1..allocated
    BY DEF TypeOK
  <2>5. RequestState' /\ RefcountExact'
    BY <2>1, <2>2, <2>3, <2>4, SetterFrame
  <2>6. UsersRegistered'
    BY <2>1, <2>4 DEF UsersRegistered
  <2> QED BY <2>5, <2>6
<1>6. CASE SetReturn(t)
  <2>1. UNCHANGED <<handlers, info, server>>
    BY <1>6 DEF SetReturn
  <2> QED BY <2>1, SetterFrame DEF UsersRegistered
<1> QED BY <1>1, <1>2, <1>3, <1>4, <1>5, <1>6 DEF SetterStep

\* A request that neither acquires nor releases a handler keeps the counters.
LEMMA RefServerFrame ==
    ASSUME RefInv, TypeOK', NEW q \in Server, NEW r,
           UNCHANGED <<handlers, info>>,
           server' = [server EXCEPT ![q] = r],
           \A h \in handlers : q \in Users(h) <=> (r # Idle /\ r.is_callback /\ r.handler_info = h)
    PROVE  RefcountExact'
<1> SUFFICES ASSUME NEW h \in handlers PROVE Users(h)' = Users(h)
  BY DEF RefInv, RefcountExact
<1> QED BY DEF RefInv, TypeOK, Users

\* Acquiring a handler adds one user and one reference.
LEMMA RefAcquire ==
    ASSUME RefInv, TypeOK', NEW q \in Server, NEW r \in Requests, NEW h \in handlers,
           UNCHANGED handlers, AddRef(h),
           server[q] = Idle, server' = [server EXCEPT ![q] = r],
           r.is_callback, r.handler_info = h
    PROVE  RefcountExact'
<1>1. r # Idle
  BY DEF Requests, Idle
<1>2. Users(h)' = Users(h) \cup {q} /\ q \notin Users(h)
  BY <1>1 DEF RefInv, TypeOK, Users
<1>3. \A g \in handlers : g # h => Users(g)' = Users(g)
  BY DEF RefInv, TypeOK, Users
<1>4. Cardinality(Users(h)') = Cardinality(Users(h)) + 1
  BY <1>2, UsersBounded, FS_AddElement
<1>l. info[h].leaked \in 0..MaxHttp2 /\ MaxHttp2 \in Nat
  BY RegistryAssumption DEF RefInv, TypeOK, HandlerInfo
<1>5. Cardinality(Users(h)') + info[h].leaked < UnsignedModulus
  <2>1. Users(h)' \subseteq Server
    BY <1>2 DEF Users
  <2>2. Cardinality(Users(h)') <= Cardinality(Server)
    BY <2>1, FS_Subset, RegistryAssumption
  <2> QED BY <2>2, <1>4, <1>l, UsersBounded, ModulusFacts, RegistryAssumption
<1>6. /\ h \in 1..allocated /\ info[h] \in HandlerInfo
      /\ info'[h].refcount = (info[h].refcount + 1) % UnsignedModulus
      /\ info'[h].type = info[h].type /\ info'[h].leaked = info[h].leaked
      /\ \A g \in handlers : g # h => info'[g] = info[g]
  BY DEF AddRef, RefInv, TypeOK, HandlerInfo
<1>7. info[h].type = "request" => info'[h].refcount = Cardinality(Users(h)') + info'[h].leaked
  <2> SUFFICES ASSUME info[h].type = "request"
               PROVE  info'[h].refcount = Cardinality(Users(h)') + info[h].leaked
    BY <1>6
  <2>1. info[h].refcount = Cardinality(Users(h)) + info[h].leaked
    BY DEF RefInv, RefcountExact
  <2> QED BY <2>1, <1>4, <1>5, <1>6, <1>l, UsersBounded, ModulusFacts
<1> QED BY <1>3, <1>6, <1>7 DEF RefcountExact, RefInv

\* Releasing a handler the request holds removes one user and one reference.
LEMMA RefRelease ==
    ASSUME RefInv, TypeOK', NEW q \in Server, NEW r, NEW h \in handlers,
           q \in Users(h), info[h].type = "request",
           UNCHANGED handlers, release_handler_ref(h),
           server' = [server EXCEPT ![q] = r],
           r = Idle \/ ~r.is_callback
    PROVE  RefcountExact'
<1>1. Users(h)' = Users(h) \ {q}
  BY DEF RefInv, TypeOK, Users
<1>2. \A g \in handlers : g # h => Users(g)' = Users(g)
  BY DEF RefInv, TypeOK, Users
<1>3. Cardinality(Users(h)') = Cardinality(Users(h)) - 1 /\ Cardinality(Users(h)') \in Nat
  <2>1. IsFiniteSet(Users(h) \ {q}) /\ Cardinality(Users(h) \ {q}) = Cardinality(Users(h)) - 1
    BY UsersBounded, FS_RemoveElement
  <2> QED BY <2>1, <1>1, FS_CardinalityType
<1>4. /\ h \in 1..allocated /\ info[h] \in HandlerInfo /\ h # NULL
      /\ info'[h].refcount = (info[h].refcount - 1) % UnsignedModulus
      /\ info'[h].type = info[h].type /\ info'[h].leaked = info[h].leaked
      /\ \A g \in handlers : g # h => info'[g] = info[g]
  BY DEF release_handler_ref, RefInv, TypeOK, HandlerInfo, NULL
<1>5. info'[h].refcount = Cardinality(Users(h)') + info'[h].leaked
  <2>1. info[h].refcount = Cardinality(Users(h)) + info[h].leaked
    BY DEF RefInv, RefcountExact
  <2>2. info[h].leaked \in Nat /\ info[h].refcount \in 0..(UnsignedModulus - 1)
    BY <1>4 DEF HandlerInfo
  <2> QED BY <2>1, <2>2, <1>3, <1>4, UsersBounded, ModulusFacts
<1> QED BY <1>2, <1>4, <1>5 DEF RefcountExact, RefInv

\* A request that leaves without releasing the handler it holds: one user less, one
\* lost reference more, and the same count.
LEMMA RefLeaks ==
    ASSUME RefInv, TypeOK', NEW q \in Server, NEW h \in handlers,
           q \in Users(h), info[h].type = "request",
           Http2Leaves(q)
    PROVE  RefcountExact'
<1>1. server[q].handler_info = h /\ server' = [server EXCEPT ![q] = Idle] /\ handlers' = handlers
  BY DEF Users, Http2Leaves
<1>2. Users(h)' = Users(h) \ {q} /\ \A g \in handlers : g # h => Users(g)' = Users(g)
  BY <1>1 DEF RefInv, TypeOK, Users
<1>3. Cardinality(Users(h)') = Cardinality(Users(h)) - 1
  <2>1. Cardinality(Users(h) \ {q}) = Cardinality(Users(h)) - 1
    BY UsersBounded, FS_RemoveElement
  <2> QED BY <2>1, <1>2
<1>4. \A g \in handlers : /\ g \in 1..allocated
                          /\ info'[g].type = info[g].type /\ info'[g].refcount = info[g].refcount
                          /\ info'[g].leaked = info[g].leaked + IF g = h THEN 1 ELSE 0
  BY <1>1, LeakStep DEF RefInv, TypeOK
<1>5. info'[h].refcount = Cardinality(Users(h)') + info'[h].leaked
  <2>1. info[h].refcount = Cardinality(Users(h)) + info[h].leaked
    BY DEF RefInv, RefcountExact
  <2>2. info[h].leaked \in Nat
    BY <1>4 DEF RefInv, TypeOK, HandlerInfo
  <2> QED BY <2>1, <2>2, <1>3, <1>4, UsersBounded
<1>6. \A g \in handlers : g # h => info'[g].leaked = info[g].leaked
  BY <1>4 DEF RefInv, TypeOK, HandlerInfo
<1> QED BY <1>1, <1>2, <1>4, <1>5, <1>6 DEF RefcountExact, RefInv

\* A program in which no request is released twice.
SingleRelease == ~(CallbackMayDecline /\ AuthMayReject)

\* Requests keep the counters exact, unless a callback declines a request that
\* then fails authorization.
LEMMA RefServerStep ==
    ASSUME SingleRelease, RefInv, TypeOK', NEW q \in Server, Arrive(q) \/ ServerStep(q)
    PROVE  RefInv'
<1> USE DEF RefInv
<1>s. server \in [Server -> Requests \cup {Idle}] /\ Idle.pc = "idle"
  BY DEF TypeOK, Idle
<1>1. ASSUME NEW uri \in Uri, NEW ws \in BOOLEAN, NEW put \in BOOLEAN,
             FindCallback(q, uri, ws, put)
      PROVE  RefInv'
  <2>1. PICK h \in handlers :
            /\ IsMatched(IF ws THEN "websocket" ELSE "request", uri, h)
            /\ server' = [server EXCEPT ![q] = NewRequest(uri, ws, put, h)]
            /\ IF ws THEN UNCHANGED info ELSE AddRef(h)
    BY <1>1 DEF FindCallback, Found
  <2> DEFINE r == NewRequest(uri, ws, put, h)
  <2>2. h \in 1..allocated /\ h # NULL /\ info[h] \in HandlerInfo
    BY DEF TypeOK, NULL
  <2>3. /\ r \in Requests /\ r # Idle /\ r.pc = "authorize" /\ r.is_callback /\ r.is_websocket = ws
        /\ r.handler_info = (IF ws THEN NULL ELSE h) /\ r.cbdata = info[h].cbdata
    <3>1. /\ r.pc = "authorize" /\ r.is_callback /\ r.is_websocket = ws
          /\ r.handler_info = (IF ws THEN NULL ELSE h) /\ r.cbdata = info[h].cbdata
      BY <2>2 DEF NewRequest
    <3>2. r \in Requests
      BY <2>2 DEF NewRequest, Requests, Handler, HandlerInfo
    <3> QED BY <1>s, <3>1, <3>2
  <2>4. /\ server[q] = Idle /\ UNCHANGED <<handlers, allocated>>
        /\ server' = [server EXCEPT ![q] = r]
    BY <1>1, <2>1 DEF FindCallback
  <2> HIDE DEF r
  <2>5. RequestState'
    BY <1>s, <2>2, <2>3, <2>4 DEF RequestState
  <2>6. CASE ws
    <3>1. \A g \in handlers : ~(q \in Users(g)) /\ r.handler_info # g
      BY <2>3, <2>4, <2>6 DEF Users, TypeOK, NULL
    <3>2. RefcountExact'
      BY <2>1, <2>4, <2>6, <3>1, RefServerFrame
    <3>3. UsersRegistered'
      BY <1>s, <2>1, <2>3, <2>4, <2>6 DEF UsersRegistered
    <3> QED BY <2>5, <3>2, <3>3
  <2>7. CASE ~ws
    <3>1. RefcountExact'
      BY <2>1, <2>3, <2>4, <2>7, RefAcquire
    <3>2. info[h].type = "request"
      BY <2>1, <2>7 DEF IsMatched, Matching
    <3>3. \A g \in 1..allocated : info'[g].type = info[g].type /\ info'[g].cbdata = info[g].cbdata
      BY <2>1, <2>2, <2>7, CounterStep
    <3>4. UsersRegistered'
      <4> SUFFICES ASSUME NEW p \in Server, server'[p] # Idle, server'[p].is_callback,
                          server'[p].handler_info # NULL
                   PROVE  /\ server'[p].handler_info \in handlers
                          /\ info'[server'[p].handler_info].type = "request"
                          /\ info'[server'[p].handler_info].cbdata = server'[p].cbdata
        BY <2>4 DEF UsersRegistered
      <4>1. CASE p = q
        BY <1>s, <2>2, <2>3, <2>4, <2>7, <3>2, <3>3, <4>1
      <4>2. CASE p # q
        BY <1>s, <2>4, <3>3, <4>2 DEF UsersRegistered, TypeOK
      <4> QED BY <4>1, <4>2
    <3> QED BY <2>5, <3>1, <3>4
  <2> QED BY <2>6, <2>7
<1>2. ASSUME NEW uri \in Uri, NEW ws \in BOOLEAN, NEW put \in BOOLEAN,
             FindNoCallback(q, uri, ws, put)
      PROVE  RefInv'
  <2> DEFINE r == NewRequest(uri, ws, put, NULL)
  <2>1. /\ server[q] = Idle /\ UNCHANGED <<handlers, info, allocated>>
        /\ server' = [server EXCEPT ![q] = r]
    BY <1>2 DEF FindNoCallback
  <2>2. ~r.is_callback /\ r.handler_info = NULL /\ r.pc = "authorize"
    BY DEF NewRequest
  <2> HIDE DEF r
  <2>3. RefcountExact'
    BY <2>1, <2>2, RefServerFrame DEF Users
  <2>4. RequestState' /\ UsersRegistered'
    BY <1>s, <2>1, <2>2 DEF RequestState, UsersRegistered
  <2> QED BY <2>3, <2>4
\* a step that leaves handler_info and is_callback_resource alone, or ends a
\* request that holds no handler
<1>3. ASSUME NEW r, UNCHANGED <<handlers, info>>, server' = [server EXCEPT ![q] = r],
             server[q] # Idle,
             \/ /\ r \in Requests /\ r # Idle
                /\ r.is_callback = server[q].is_callback
                /\ r.is_websocket = server[q].is_websocket
                /\ r.handler_info = server[q].handler_info
                /\ r.cbdata = server[q].cbdata
                /\ r.pc = "callback" => r.is_callback /\ ~r.is_websocket
                /\ r.pc = "websocket" => r.is_websocket
             \/ /\ r = Idle
                /\ server[q].is_callback => server[q].is_websocket
      PROVE  RefInv'
  <2>1. RefcountExact'
    <3>1. \A h \in handlers : q \in Users(h) <=> (r # Idle /\ r.is_callback /\ r.handler_info = h)
      BY <1>3 DEF Users, RequestState, TypeOK, NULL
    <3> QED BY <1>3, <3>1, RefServerFrame
  <2>2. RequestState' /\ UsersRegistered'
    BY <1>s, <1>3 DEF RequestState, UsersRegistered
  <2> QED BY <2>1, <2>2
\* a request that gives back the handler it holds
<1>4. ASSUME NEW r, server[q] # Idle, server[q].is_callback,
             UNCHANGED <<handlers, allocated>>, release_handler_ref(server[q].handler_info),
             server' = [server EXCEPT ![q] = r],
             r = Idle \/ ( /\ ~r.is_callback /\ r.pc = "authorize" /\ CallbackMayDecline
                           /\ r.is_websocket = server[q].is_websocket
                           /\ r.handler_info = server[q].handler_info )
      PROVE  RefInv'
  <2>1. CASE server[q].handler_info = NULL
    <3>1. UNCHANGED info
      BY <1>4, <2>1 DEF release_handler_ref
    <3>2. \A h \in handlers : ~(q \in Users(h))
      BY <2>1 DEF Users, TypeOK, NULL
    <3>3. RefcountExact'
      BY <1>4, <3>1, <3>2, RefServerFrame
    <3> QED BY <1>s, <1>4, <3>1, <3>3 DEF RequestState, UsersRegistered
  <2>2. CASE server[q].handler_info # NULL
    <3> DEFINE h == server[q].handler_info
    <3>1. h \in handlers /\ h \in 1..allocated /\ info[h].type = "request" /\ q \in Users(h)
      BY <1>4, <2>2 DEF UsersRegistered, Users, TypeOK
    <3>2. RefcountExact'
      BY <1>4, <3>1, RefRelease
    <3>3. \A g \in 1..allocated : info'[g].type = info[g].type /\ info'[g].cbdata = info[g].cbdata
      BY <1>4, <3>1, CounterStep
    <3>4. UsersRegistered'
      BY <1>s, <1>4, <3>3 DEF UsersRegistered, TypeOK
    <3>5. RequestState'
      BY <1>s, <1>4 DEF RequestState
    <3> QED BY <3>2, <3>4, <3>5
  <2> QED BY <2>1, <2>2
<1>5. CASE FindAuth(q)
  <2>1. PICK c \in CbData : server' = [server EXCEPT ![q].pc = "auth", ![q].auth = c]
    BY <1>5 DEF FindAuth, Found, TypeOK, HandlerInfo
  <2> DEFINE r == [server[q] EXCEPT !.pc = "auth", !.auth = c]
  <2>2. server[q] \in Requests /\ server[q] # Idle
    BY <1>5, <1>s DEF FindAuth
  <2>3. server' = [server EXCEPT ![q] = r] /\ UNCHANGED <<handlers, info>>
    BY <1>5, <2>1, <2>2, <1>s DEF FindAuth
  <2>4. r \in Requests
    BY <2>2 DEF Requests
  <2> QED BY <1>3, <1>s, <2>2, <2>3, <2>4 DEF Requests
<1>6. CASE PutRejected(q)
  <2>1. /\ server[q] # Idle /\ ~server[q].is_callback /\ UNCHANGED <<handlers, info>>
        /\ server' = [server EXCEPT ![q] = Idle]
    BY <1>6, <1>s DEF PutRejected, FilePut
  <2> QED BY <1>3, <2>1
<1>7. CASE WebsocketDone(q)
  <2>1. /\ server[q] # Idle /\ UNCHANGED <<handlers, info>>
        /\ server' = [server EXCEPT ![q] = Idle] /\ server[q].pc = "websocket"
    BY <1>7, <1>s DEF WebsocketDone
  <2> QED BY <1>3, <2>1 DEF RequestState
<1>8. CASE AuthAccept(q)
  <2>1. server[q] \in Requests /\ server[q] # Idle /\ UNCHANGED <<handlers, info>>
    BY <1>8, <1>s DEF AuthAccept, Authorizing
  <2>2. ASSUME NEW pc \in {"callback", "websocket"},
               server' = [server EXCEPT ![q] = [server[q] EXCEPT !.pc = pc]],
               pc = "callback" => server[q].is_callback /\ ~server[q].is_websocket,
               pc = "websocket" => server[q].is_websocket
        PROVE  RefInv'
    <3> DEFINE r == [server[q] EXCEPT !.pc = pc]
    <3>1. /\ r \in Requests /\ r # Idle /\ r.pc = pc
          /\ r.is_callback = server[q].is_callback
          /\ r.is_websocket = server[q].is_websocket
          /\ r.handler_info = server[q].handler_info
          /\ r.cbdata = server[q].cbdata
      BY <1>s, <2>1, <2>2 DEF Requests, Idle
    <3> QED BY <1>3, <2>1, <2>2, <3>1
  <2>3. CASE ~server[q].is_callback
    BY <1>3, <1>8, <2>1, <2>3 DEF AuthAccept, Dispatch
  <2>4. CASE server[q].is_callback /\ server[q].is_websocket
    BY <1>8, <2>2, <2>4 DEF AuthAccept, Dispatch
  <2>5. CASE server[q].is_callback /\ ~server[q].is_websocket
    BY <1>8, <2>2, <2>5 DEF AuthAccept, Dispatch
  <2> QED BY <2>3, <2>4, <2>5
<1>9. CASE CallbackDone(q)
  <2>1. server[q] # Idle /\ server[q].pc = "callback"
    BY <1>9, <1>s DEF CallbackDone
  <2> QED BY <1>4, <1>9, <2>1 DEF CallbackDone, RequestState
<1>10. CASE CallbackDeclines(q)
  <2> DEFINE r == [server[q] EXCEPT !.pc = "authorize", !.is_callback = FALSE]
  <2>1. server[q] \in Requests /\ server[q] # Idle /\ server[q].pc = "callback"
    BY <1>10, <1>s DEF CallbackDeclines
  <2>2. server' = [server EXCEPT ![q] = r]
    BY <1>10, <1>s, <2>1 DEF CallbackDeclines
  <2>3. /\ ~r.is_callback /\ r.pc = "authorize"
        /\ r.is_websocket = server[q].is_websocket
        /\ r.handler_info = server[q].handler_info
    BY <2>1 DEF Requests
  <2> QED BY <1>4, <1>10, <2>1, <2>2, <2>3 DEF CallbackDeclines, RequestState
<1>11. CASE AuthReject(q)
  <2>1. server[q] # Idle /\ ~CallbackMayDecline
    BY <1>11, <1>s DEF AuthReject, Authorizing, SingleRelease
  <2>2. CASE server[q].is_callback
    BY <1>4, <1>11, <2>1, <2>2 DEF AuthReject
  <2>3. CASE ~server[q].is_callback
    <3>1. UNCHANGED info
      BY <1>11, <2>1, <2>3 DEF AuthReject, release_handler_ref, RequestState
    <3> QED BY <1>3, <1>11, <2>1, <2>3, <3>1 DEF AuthReject
  <2> QED BY <2>2, <2>3
<1>12. CASE Http2Leaves(q)
  <2>1. /\ server[q] # Idle /\ server[q].is_callback /\ ~server[q].is_websocket
        /\ server' = [server EXCEPT ![q] = Idle] /\ UNCHANGED <<handlers, allocated>>
    BY <1>12, <1>s DEF Http2Leaves, Authorizing
  <2> DEFINE h == server[q].handler_info
  <2>2. h # NULL
    BY <2>1 DEF RequestState
  <2>3. h \in handlers /\ info[h].type = "request" /\ q \in Users(h)
    BY <2>1, <2>2 DEF UsersRegistered, Users
  <2>4. RefcountExact'
    BY <1>12, <2>3, RefLeaks
  <2>5. \A g \in 1..allocated : info'[g].type = info[g].type /\ info'[g].cbdata = info[g].cbdata
    BY <1>12, LeakStep
  <2>6. UsersRegistered'
    BY <1>s, <2>1, <2>5 DEF UsersRegistered, TypeOK
  <2>7. RequestState'
    BY <1>s, <2>1 DEF RequestState
  <2> QED BY <2>4, <2>6, <2>7
<1> QED BY <1>1, <1>2, <1>5, <1>6, <1>7, <1>8, <1>9, <1>10, <1>11, <1>12 DEF Arrive, ServerStep

\* The invariant of reference counting is inductive.
LEMMA RefStep ==
    ASSUME SingleRelease
    PROVE  RefInv /\ [Next]_vars => RefInv'
<1> SUFFICES ASSUME RefInv, [Next]_vars PROVE RefInv'
  OBVIOUS
<1>1. TypeOK'
  BY TypeStep DEF RefInv
<1>2. CASE UNCHANGED vars
  BY <1>2, <1>1, SetterFrame DEF vars, RefInv, UsersRegistered
<1> QED BY <1>1, <1>2, RefSetterStep, RefServerStep DEF Next

\* Reference counting of request handlers is exact and no handler is freed
\* while a request uses it, if no declined request fails authorization: the count
\* is that of the requests that use the handler and of the references HTTP/2
\* requests have lost (none in a build without USE_HTTP2, MaxHttp2 = 0).
THEOREM ReferencesCounted ==
    ASSUME SingleRelease
    PROVE  Spec => [](RefcountExact /\ HandlerNotFreed)
<1>1. RefInv => RefcountExact /\ HandlerNotFreed
  BY DEF RefInv, UsersRegistered, HandlerNotFreed, Users, TypeOK, NULL
<1> QED BY <1>1, RefInit, RefStep, PTL DEF Spec

------------------------------------------------------------------------------
(* A callback that a call has replaced or removed is not used any more.    *)
(* Every call brings a callback of its own, which is pending, registered   *)
(* or retired, never two of these; with the reference counts this means    *)
(* that a request cannot hold one that is retired.                         *)

Pending(t) == setter[t] # Idle /\ setter[t].cbdata # NULL

RetiredCalled == retired \subseteq 1..sets

RegisteredLive == \A h \in handlers : info[h].cbdata \in (1..sets) \ retired

RegisteredOnce == \A g, h \in handlers : info[g].cbdata = info[h].cbdata => g = h

PendingFresh ==
    \A t \in Setter : Pending(t) =>
        /\ setter[t].cbdata \in (1..sets) \ retired
        /\ \A h \in handlers : info[h].cbdata # setter[t].cbdata

PendingOnce ==
    \A t, u \in Setter :
        Pending(t) /\ Pending(u) /\ setter[t].cbdata = setter[u].cbdata => t = u

CallbacksDistinct ==
    RetiredCalled /\ RegisteredLive /\ RegisteredOnce /\ PendingFresh /\ PendingOnce

\* A server changes neither which handlers are registered nor anything in them
\* but their counters.
LEMMA ServersKeepCallbacks ==
    ASSUME TypeOK, NEW q \in Server, Arrive(q) \/ ServerStep(q)
    PROVE  /\ UNCHANGED <<handlers, allocated, sets, setter, retired>>
           /\ \A h \in 1..allocated : /\ info'[h].cbdata = info[h].cbdata
                                      /\ info'[h].type = info[h].type
                                      /\ info'[h].uri = info[h].uri
                                      /\ info'[h].removing = info[h].removing
<1>1. UNCHANGED <<handlers, allocated, sets, setter, retired>>
  BY DEF Arrive, ServerStep, FindCallback, FindNoCallback, FindAuth, AuthReject, AuthAccept,
         PutRejected, CallbackDone, CallbackDeclines, WebsocketDone, Http2Leaves
<1>2. \A h \in handlers : h \in 1..allocated /\ h \in Nat
  BY DEF TypeOK
<1>3. \A p \in Server : server[p] # Idle => server[p].handler_info \in Nat
  BY DEF TypeOK, Requests, Handler, NULL
<1>4. \/ UNCHANGED info
      \/ \E h \in Nat : AddRef(h) \/ release_handler_ref(h)
      \/ Http2Leaves(q)
  <2>1. CASE Arrive(q)
    BY <2>1, <1>2 DEF Arrive, FindCallback, FindNoCallback, Found
  <2>2. CASE AuthReject(q) \/ CallbackDone(q) \/ CallbackDeclines(q)
    <3>1. server[q] # Idle
      BY <2>2 DEF AuthReject, Authorizing, CallbackDone, CallbackDeclines, Idle
    <3> QED BY <2>2, <3>1, <1>3 DEF AuthReject, CallbackDone, CallbackDeclines
  <2>3. CASE FindAuth(q) \/ AuthAccept(q) \/ PutRejected(q)
             \/ WebsocketDone(q)
    BY <2>3 DEF FindAuth, AuthAccept, PutRejected, WebsocketDone
  <2> QED BY <2>1, <2>2, <2>3 DEF ServerStep
<1> QED BY <1>1, <1>4, CounterStep, LeakStep

\* Callbacks stay distinct.
LEMMA CallbacksStep == TypeOK /\ CallbacksDistinct /\ [Next]_vars => CallbacksDistinct'
<1> SUFFICES ASSUME TypeOK, CallbacksDistinct, [Next]_vars PROVE CallbacksDistinct'
  OBVIOUS
<1> USE DEF CallbacksDistinct, RetiredCalled, RegisteredLive, RegisteredOnce, PendingFresh,
            PendingOnce, Pending
<1>t. sets \in Nat /\ handlers \subseteq 1..allocated /\ allocated \in Nat
  BY RegistryAssumption DEF TypeOK
<1>1. ASSUME NEW t \in Setter, NEW type \in Types, NEW uri \in Uri, SetCall(t, type, uri)
      PROVE  CallbacksDistinct'
  <2>1. UNCHANGED <<handlers, info, retired>> /\ setter[t] = Idle
    BY <1>1 DEF SetCall
  <2>2. CASE UNCHANGED sets /\ ~Pending(t)' /\ \A u \in Setter : u # t => setter'[u] = setter[u]
    BY <2>1, <2>2
  <2>3. CASE /\ sets' = sets + 1 /\ setter'[t].cbdata = sets + 1
             /\ \A u \in Setter : u # t => setter'[u] = setter[u]
    BY <1>t, <2>1, <2>3
  <2> QED BY <1>1, <2>2, <2>3 DEF SetCall, TypeOK
<1>2. ASSUME NEW t \in Setter, NEW h \in handlers, SetWait(t, h) PROVE CallbacksDistinct'
  <2>1. \A g \in handlers : info'[g].cbdata = info[g].cbdata
    BY <1>2, <1>t DEF SetWait, TypeOK, HandlerInfo
  <2> QED BY <1>2, <2>1 DEF SetWait
<1>3. ASSUME NEW t \in Setter, NEW h \in handlers, SetUpdate(t, h) PROVE CallbacksDistinct'
  <2>1. /\ Pending(t) /\ ~Pending(t)' /\ UNCHANGED <<handlers, sets>>
        /\ \A u \in Setter : u # t => setter'[u] = setter[u]
        /\ retired' = retired \cup {info[h].cbdata}
    BY <1>3 DEF SetUpdate, TypeOK, Idle
  <2>2. /\ info'[h].cbdata = setter[t].cbdata
        /\ \A g \in handlers : g # h => info'[g].cbdata = info[g].cbdata
    BY <1>3, <1>t DEF SetUpdate, TypeOK, HandlerInfo
  <2>3. RetiredCalled'
    BY <2>1
  <2>4. RegisteredLive'
    BY <2>1, <2>2
  <2>5. RegisteredOnce'
    BY <2>1, <2>2
  <2>6. PendingFresh'
    BY <2>1, <2>2
  <2>7. PendingOnce'
    BY <2>1
  <2> QED BY <2>3, <2>4, <2>5, <2>6, <2>7
<1>4. ASSUME NEW t \in Setter, NEW h \in handlers, SetRemove(t, h) PROVE CallbacksDistinct'
  <2>1. /\ ~Pending(t)' /\ UNCHANGED <<info, sets>> /\ handlers' = handlers \ {h}
        /\ \A u \in Setter : u # t => setter'[u] = setter[u]
        /\ retired' = retired \cup {info[h].cbdata}
    BY <1>4 DEF SetRemove, TypeOK, Idle
  <2>2. RetiredCalled' /\ RegisteredLive' /\ RegisteredOnce'
    BY <2>1
  <2>3. PendingFresh'
    BY <2>1
  <2>4. PendingOnce'
    BY <2>1
  <2> QED BY <2>2, <2>3, <2>4
<1>5. ASSUME NEW t \in Setter, SetCreate(t) PROVE CallbacksDistinct'
  <2> DEFINE new == allocated + 1
  <2>1. /\ Pending(t) /\ ~Pending(t)' /\ UNCHANGED <<sets, retired>>
        /\ handlers' = handlers \cup {new} /\ new \notin handlers
        /\ \A u \in Setter : u # t => setter'[u] = setter[u]
    BY <1>5, <1>t DEF SetCreate, TypeOK, Idle
  <2>2. /\ info'[new].cbdata = setter[t].cbdata
        /\ \A g \in handlers : info'[g] = info[g]
    BY <1>5, <1>t DEF SetCreate, NewHandler
  <2> QED BY <2>1, <2>2
<1>6. ASSUME NEW t \in Setter, SetReturn(t) PROVE CallbacksDistinct'
  <2>1. /\ ~Pending(t)' /\ UNCHANGED <<handlers, info, sets, retired>>
        /\ \A u \in Setter : u # t => setter'[u] = setter[u]
    BY <1>6 DEF SetReturn, TypeOK
  <2> QED BY <2>1
<1>7. ASSUME NEW q \in Server, Arrive(q) \/ ServerStep(q) PROVE CallbacksDistinct'
  <2>1. /\ UNCHANGED <<handlers, sets, setter, retired>>
        /\ \A h \in handlers : info'[h].cbdata = info[h].cbdata
    BY <1>7, <1>t, ServersKeepCallbacks
  <2> QED BY <2>1
<1>8. CASE UNCHANGED vars
  BY <1>8 DEF vars
<1> QED BY <1>1, <1>2, <1>3, <1>4, <1>5, <1>6, <1>7, <1>8 DEF Next, SetterStep

\* When mg_set_request_handler has replaced or removed a callback and returned,
\* no request uses that callback, if no declined request fails authorization.
THEOREM SetWaitsForUsers ==
    ASSUME SingleRelease
    PROVE  Spec => []RequestCallbackUnused
<1>1. Init => RefInv /\ CallbacksDistinct
  <2>1. Init => CallbacksDistinct
    BY DEF Init, CallbacksDistinct, RetiredCalled, RegisteredLive, RegisteredOnce,
           PendingFresh, PendingOnce, Pending, Idle
  <2> QED BY <2>1, RefInit
<1>2. RefInv /\ CallbacksDistinct /\ [Next]_vars => (RefInv /\ CallbacksDistinct)'
  BY RefStep, CallbacksStep DEF RefInv
<1>3. RefInv /\ CallbacksDistinct => RequestCallbackUnused
  BY DEF RefInv, RequestState, UsersRegistered, CallbacksDistinct, RegisteredLive,
         RequestCallbackUnused
<1> QED BY <1>1, <1>2, <1>3, PTL DEF Spec
------------------------------------------------------------------------------
(* The list of handlers.  That no two handlers of a type have the same URI *)
(* is inductive as it stands; that a marked handler has a call that will   *)
(* remove it needs it: the call must not go away with another handler.     *)

ListInv == OneHandlerPerUri /\ RemovingHasRemover

\* A step that changes neither the list nor what identifies its handlers, marks
\* none, and ends no removal.
LEMMA ListFrame ==
    ASSUME TypeOK, ListInv, UNCHANGED handlers,
           \A h \in handlers : /\ info'[h].type = info[h].type
                               /\ info'[h].uri = info[h].uri
                               /\ info'[h].removing = info[h].removing,
           \A t \in Setter : setter[t].pc = "search" /\ setter[t].cbdata = NULL
                               => setter'[t] = setter[t]
    PROVE  ListInv'
<1>1. OneHandlerPerUri'
  BY DEF ListInv, OneHandlerPerUri
<1>2. RemovingHasRemover'
  BY DEF ListInv, RemovingHasRemover
<1> QED BY <1>1, <1>2 DEF ListInv

\* Every step preserves it, declined requests and all.
LEMMA ListStep == TypeOK /\ ListInv /\ [Next]_vars => ListInv'
<1> SUFFICES ASSUME TypeOK, ListInv, [Next]_vars PROVE ListInv'
  OBVIOUS
<1>t. /\ handlers \subseteq 1..allocated /\ allocated \in Nat
      /\ info \in [1..allocated -> HandlerInfo]
      /\ DOMAIN setter = Setter
  BY DEF TypeOK
<1>1. ASSUME NEW t \in Setter, NEW type \in Types, NEW uri \in Uri, SetCall(t, type, uri)
      PROVE  ListInv'
  <2>1. \A u \in Setter : setter[u].pc = "search" => setter'[u] = setter[u]
    BY <1>1, <1>t DEF SetCall, Idle
  <2> QED BY <1>1, <2>1, ListFrame DEF SetCall
<1>2. ASSUME NEW t \in Setter, NEW h \in handlers, SetWait(t, h) PROVE ListInv'
  <2>1. CASE setter[t].cbdata # NULL
    BY <1>2, <2>1, ListFrame DEF SetWait
  <2>2. CASE setter[t].cbdata = NULL
    <3>1. /\ UNCHANGED <<handlers, setter>>
          /\ setter[t].pc = "search"
          /\ setter[t].type = info[h].type /\ setter[t].uri = info[h].uri
      BY <1>2 DEF SetWait, Existing
    <3>2. \A g \in handlers : /\ info'[g].type = info[g].type
                              /\ info'[g].uri = info[g].uri
                              /\ g # h => info'[g].removing = info[g].removing
      BY <1>2, <1>t, <2>2 DEF SetWait, HandlerInfo
    <3>3. OneHandlerPerUri'
      BY <3>1, <3>2 DEF ListInv, OneHandlerPerUri
    <3>4. RemovingHasRemover'
      BY <2>2, <3>1, <3>2 DEF ListInv, RemovingHasRemover
    <3> QED BY <3>3, <3>4 DEF ListInv
  <2> QED BY <2>1, <2>2
<1>3. ASSUME NEW t \in Setter, NEW h \in handlers, SetUpdate(t, h) PROVE ListInv'
  <2>1. \A g \in handlers : /\ info'[g].type = info[g].type
                            /\ info'[g].uri = info[g].uri
                            /\ info'[g].removing = info[g].removing
    BY <1>3, <1>t DEF SetUpdate, HandlerInfo
  <2>2. \A u \in Setter : setter[u].cbdata = NULL => setter'[u] = setter[u]
    BY <1>3, <1>t DEF SetUpdate
  <2> QED BY <1>3, <2>1, <2>2, ListFrame DEF SetUpdate
<1>4. ASSUME NEW t \in Setter, NEW h \in handlers, SetRemove(t, h) PROVE ListInv'
  <2>1. /\ handlers' = handlers \ {h} /\ UNCHANGED info
        /\ setter[t].type = info[h].type /\ setter[t].uri = info[h].uri
        /\ \A u \in Setter : u # t => setter'[u] = setter[u]
    BY <1>4, <1>t DEF SetRemove, Existing
  <2>2. OneHandlerPerUri'
    BY <2>1 DEF ListInv, OneHandlerPerUri
  <2>3. ASSUME NEW g \in handlers', info[g].removing
        PROVE  \E u \in Setter : /\ setter'[u].pc = "search" /\ setter'[u].cbdata = NULL
                                 /\ setter'[u].type = info[g].type
                                 /\ setter'[u].uri = info[g].uri
    <3>1. PICK u \in Setter : /\ setter[u].pc = "search" /\ setter[u].cbdata = NULL
                              /\ setter[u].type = info[g].type
                              /\ setter[u].uri = info[g].uri
      BY <2>1, <2>3 DEF ListInv, RemovingHasRemover
    <3>2. u # t
      BY <2>1, <2>3, <3>1 DEF ListInv, OneHandlerPerUri
    <3> QED BY <2>1, <3>1, <3>2
  <2> QED BY <2>1, <2>2, <2>3 DEF ListInv, RemovingHasRemover
<1>5. ASSUME NEW t \in Setter, SetCreate(t) PROVE ListInv'
  <2> DEFINE new == allocated + 1
  <2>1. /\ handlers' = handlers \cup {new} /\ new \notin handlers
        /\ info'[new] = NewHandler(t)
        /\ \A g \in handlers : info'[g] = info[g]
        /\ setter[t].cbdata # NULL
        /\ \A u \in Setter : u # t => setter'[u] = setter[u]
    BY <1>5, <1>t DEF SetCreate
  <2>2. \A g \in handlers : ~(info[g].type = setter[t].type /\ info[g].uri = setter[t].uri)
    BY <1>5 DEF SetCreate, Existing
  <2>3. /\ info'[new].type = setter[t].type /\ info'[new].uri = setter[t].uri
        /\ ~info'[new].removing
    BY <2>1 DEF NewHandler
  <2>4. OneHandlerPerUri'
    BY <2>1, <2>2, <2>3 DEF ListInv, OneHandlerPerUri
  <2>5. RemovingHasRemover'
    BY <2>1, <2>3 DEF ListInv, RemovingHasRemover
  <2> QED BY <2>4, <2>5 DEF ListInv
<1>6. ASSUME NEW t \in Setter, SetReturn(t) PROVE ListInv'
  <2>1. /\ UNCHANGED <<handlers, info>>
        /\ \A u \in Setter : u # t => setter'[u] = setter[u]
        /\ \A g \in handlers : ~(info[g].type = setter[t].type /\ info[g].uri = setter[t].uri)
    BY <1>6, <1>t DEF SetReturn, Existing
  <2>2. OneHandlerPerUri'
    BY <2>1 DEF ListInv, OneHandlerPerUri
  <2>3. RemovingHasRemover'
    BY <2>1 DEF ListInv, RemovingHasRemover
  <2> QED BY <2>2, <2>3 DEF ListInv
<1>7. ASSUME NEW q \in Server, Arrive(q) \/ ServerStep(q) PROVE ListInv'
  BY <1>7, <1>t, ServersKeepCallbacks, ListFrame
<1>8. CASE UNCHANGED vars
  BY <1>8, ListFrame DEF vars
<1> QED BY <1>1, <1>2, <1>3, <1>4, <1>5, <1>6, <1>7, <1>8 DEF Next, SetterStep

\* Two calls that set the same URI never register two handlers although both may
\* have slept between their searches, and a handler is hidden from requests only
\* while a call is about to remove it: for every number of threads and calls,
\* whatever callbacks and authorization decide.
THEOREM HandlersUnique == Spec => [](OneHandlerPerUri /\ RemovingHasRemover)
<1>1. Init => TypeOK /\ ListInv
  <2>1. Init => ListInv
    BY DEF Init, ListInv, OneHandlerPerUri, RemovingHasRemover
  <2> QED BY <2>1, TypeInit
<1>2. TypeOK /\ ListInv /\ [Next]_vars => (TypeOK /\ ListInv)'
  BY TypeStep, ListStep
<1> QED BY <1>1, <1>2, PTL DEF Spec, ListInv

\* The registry as a whole stays sound if no declined request fails
\* authorization: in addition, whoever holds a reference holds it to a handler
\* that has not been freed.
THEOREM RegistryStaysConsistent ==
    ASSUME SingleRelease
    PROVE  Spec => []RegistryConsistent
<1>1. Spec => [](RefcountExact /\ HandlerNotFreed)
  BY ReferencesCounted
<1>2. OneHandlerPerUri /\ RemovingHasRemover /\ HandlerNotFreed => RegistryConsistent
  BY DEF RegistryConsistent
<1> QED BY <1>1, <1>2, HandlersUnique, PTL
=============================================================================
