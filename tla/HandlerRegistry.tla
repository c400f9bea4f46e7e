-------------------------- MODULE HandlerRegistry --------------------------
(***************************************************************************)
(* The URI handlers of a domain (dom_ctx->handlers) and the threads that   *)
(* use them: setters, which call mg_set_request_handler,                   *)
(* mg_set_websocket_handler or mg_set_auth_handler, and servers, the       *)
(* worker threads in handle_request.                                       *)
(*                                                                         *)
(* The list is searched, changed and reference-counted under               *)
(* mg_lock_context; one action is one such critical section.  A handler is *)
(* appended at the end of the list, so the order of the list is the order  *)
(* of the allocations, and a handler is named by its allocation.           *)
(***************************************************************************)
EXTENDS Integers, FiniteSets

CONSTANTS Setter, Server,      \* threads
          Uri,                 \* URIs and patterns
          Partial,             \* <<h, u>>: u is h followed by "/..."
          Pattern,             \* <<h, u>>: match_prefix(h, u) > 0
          Types,               \* the handler types in use
          UnsignedModulus,     \* unsigned int refcount: 2^32
          MaxSets,             \* bound: calls that set a handler
          CallbackMayDecline,  \* a request callback may return 0
          AuthMayReject,       \* authorization may fail
          MaxHttp2             \* bound: HTTP/2 requests that meet the callback of one
                               \* handler; 0 in a build without USE_HTTP2

ASSUME RegistryAssumption ==
    /\ Partial \subseteq Uri \X Uri
    /\ Pattern \subseteq Uri \X Uri
    /\ Types \subseteq {"request", "websocket", "auth"}
    /\ MaxSets \in Nat
    /\ IsFiniteSet(Server)
    /\ UnsignedModulus \in Nat
    /\ MaxHttp2 \in Nat
    /\ Cardinality(Server) + MaxHttp2 < UnsignedModulus
    /\ CallbackMayDecline \in BOOLEAN
    /\ AuthMayReject \in BOOLEAN

Handler == Nat \ {0}      \* allocations of struct mg_handler_info
CbData  == 1..MaxSets     \* the callback and its cbdata, fresh in every call
NULL    == 0

VARIABLES
    handlers,   \* the allocations in the list dom_ctx->handlers
    info,       \* struct mg_handler_info of every allocation
    allocated,  \* number of allocations
    sets,       \* number of calls that set a handler
    setter,     \* the call each setter is in
    server,     \* the request each server handles
    retired     \* callbacks a call has replaced or removed, and returned

vars == <<handlers, info, allocated, sets, setter, server, retired>>

Type == {"request", "websocket", "auth"}

\* leaked is not in the structure: it counts the references that a request took
\* and that will never be given back.
HandlerInfo == [type : Type, uri : Uri, cbdata : CbData,
                refcount : 0..(UnsignedModulus - 1), removing : BOOLEAN,
                leaked : 0..MaxHttp2]

Idle == [pc |-> "idle"]

\* cbdata = NULL stands for is_delete_request
SetCalls == [pc : {"search"}, type : Type, uri : Uri, cbdata : CbData \cup {NULL}]

\* The locals of handle_request: handler_info, callback_data,
\* auth_callback_data, is_callback_resource, and the kind of the request
Requests == [pc : {"authorize", "auth", "callback", "websocket"},
             uri : Uri, is_websocket : BOOLEAN, is_put : BOOLEAN,
             is_callback : BOOLEAN, handler_info : Handler \cup {NULL},
             cbdata : CbData \cup {NULL}, auth : CbData \cup {NULL}]

TypeOK ==
    /\ allocated \in Nat
    /\ sets \in 0..MaxSets
    /\ handlers \subseteq 1..allocated
    /\ info \in [1..allocated -> HandlerInfo]
    /\ setter \in [Setter -> SetCalls \cup {Idle}]
    /\ server \in [Server -> Requests \cup {Idle}]
    /\ retired \subseteq CbData

Init ==
    /\ handlers = {}
    /\ info = <<>>
    /\ allocated = 0
    /\ sets = 0
    /\ setter = [t \in Setter |-> Idle]
    /\ server = [q \in Server |-> Idle]
    /\ retired = {}

------------------------------------------------------------------------------
(* mg_set_handler_type                                                     *)

\* A call sets a new callback, or removes the one registered for uri.
SetCall(t, type, uri) ==
    /\ setter[t] = Idle
    /\ \/ /\ sets < MaxSets
          /\ sets' = sets + 1
          /\ setter' = [setter EXCEPT ![t] = [pc |-> "search", type |-> type,
                                              uri |-> uri, cbdata |-> sets']]
       \/ /\ setter' = [setter EXCEPT ![t] = [pc |-> "search", type |-> type,
                                              uri |-> uri, cbdata |-> NULL]]
          /\ UNCHANGED sets
    /\ UNCHANGED <<handlers, info, allocated, server, retired>>

\* The handlers the search loop stops at: same type, same URI.
Existing(t) == {h \in handlers : /\ info[h].type = setter[t].type
                                 /\ info[h].uri = setter[t].uri}

\* Mutant: the update does not wait for the callback to end.
NeverInUse(h) == FALSE

\* "Wait for end of use before updating": only request handlers are counted.
InUse(h) == info[h].type = "request" /\ info[h].refcount # 0

\* Mutant: a handler that waits for an update is marked too.
SetWaitMarksAlways(t, h) ==
    /\ setter[t].pc = "search"
    /\ h \in Existing(t)
    /\ InUse(h)
    /\ info' = [info EXCEPT ![h].removing = TRUE]
    /\ UNCHANGED <<handlers, allocated, sets, setter, server, retired>>

\* The handler is in use: mark it if it is to be removed, unlock, sleep and
\* search again.
SetWait(t, h) ==
    /\ setter[t].pc = "search"
    /\ h \in Existing(t)
    /\ InUse(h)
    /\ info' = IF setter[t].cbdata = NULL THEN [info EXCEPT ![h].removing = TRUE] ELSE info
    /\ UNCHANGED <<handlers, allocated, sets, setter, server, retired>>

\* Update the existing handler ...
SetUpdate(t, h) ==
    /\ setter[t].pc = "search"
    /\ setter[t].cbdata # NULL
    /\ h \in Existing(t)
    /\ ~InUse(h)
    /\ info' = [info EXCEPT ![h].cbdata = setter[t].cbdata]
    /\ retired' = retired \cup {info[h].cbdata}
    /\ setter' = [setter EXCEPT ![t] = Idle]
    /\ UNCHANGED <<handlers, allocated, sets, server>>

\* ... or unlink and free it.
SetRemove(t, h) ==
    /\ setter[t].pc = "search"
    /\ setter[t].cbdata = NULL
    /\ h \in Existing(t)
    /\ ~InUse(h)
    /\ handlers' = handlers \ {h}
    /\ retired' = retired \cup {info[h].cbdata}
    /\ setter' = [setter EXCEPT ![t] = Idle]
    /\ UNCHANGED <<info, allocated, sets, server>>

NewHandler(t) == [type |-> setter[t].type, uri |-> setter[t].uri,
                  cbdata |-> setter[t].cbdata, refcount |-> 0, removing |-> FALSE,
                  leaked |-> 0]

\* Mutant: the new handler is linked although its allocation failed.
SetCreateUnallocated(t) ==
    /\ setter[t].pc = "search"
    /\ setter[t].cbdata # NULL
    /\ Existing(t) = {}
    /\ handlers' = handlers \cup {allocated + 1}
    /\ setter' = [setter EXCEPT ![t] = Idle]
    /\ UNCHANGED <<info, allocated, sets, server, retired>>

\* Mutant: after waiting for a handler in use the search is not repeated.
SetCreateAfterWait(t) ==
    /\ setter[t].pc = "search"
    /\ setter[t].cbdata # NULL
    /\ \A h \in Existing(t) : InUse(h)
    /\ allocated' = allocated + 1
    /\ info' = [h \in 1..allocated' |-> IF h = allocated' THEN NewHandler(t) ELSE info[h]]
    /\ handlers' = handlers \cup {allocated'}
    /\ setter' = [setter EXCEPT ![t] = Idle]
    /\ UNCHANGED <<sets, server, retired>>

\* No handler is registered for this URI: append one.
SetCreate(t) ==
    /\ setter[t].pc = "search"
    /\ setter[t].cbdata # NULL
    /\ Existing(t) = {}
    /\ allocated' = allocated + 1
    /\ info' = [h \in 1..allocated' |-> IF h = allocated' THEN NewHandler(t) ELSE info[h]]
    /\ handlers' = handlers \cup {allocated'}
    /\ setter' = [setter EXCEPT ![t] = Idle]
    /\ UNCHANGED <<sets, server, retired>>

\* Nothing to remove, or out of memory: the call returns without effect.
SetReturn(t) ==
    /\ setter[t].pc = "search"
    /\ Existing(t) = {}
    /\ setter' = [setter EXCEPT ![t] = Idle]
    /\ UNCHANGED <<handlers, info, allocated, sets, server, retired>>

------------------------------------------------------------------------------
(* get_request_handler: the first handler of the list with an exact match, *)
(* else the first with a partial match, else the first pattern that        *)
(* matches.  A handler that is being removed counts as none found.         *)

Matching(type, uri, step) ==
    {h \in handlers :
        /\ info[h].type = type
        /\ CASE step = 0 -> info[h].uri = uri
             [] step = 1 -> <<info[h].uri, uri>> \in Partial
             [] OTHER    -> <<info[h].uri, uri>> \in Pattern}

\* h is where the three passes over the list stop.
IsMatched(type, uri, h) ==
    \E step \in 0..2 :
        /\ h \in Matching(type, uri, step)
        /\ \A g \in Matching(type, uri, step) : h <= g
        /\ \A s \in 0..2 : s < step => Matching(type, uri, s) = {}

\* Mutant: the mark of a handler that is being removed is ignored.
FoundRemoving(type, uri) == {h \in handlers : IsMatched(type, uri, h)}

\* The handler found, if any.
Found(type, uri) == {h \in handlers : IsMatched(type, uri, h) /\ ~info[h].removing}

AddRef(h) == info' = [info EXCEPT ![h].refcount = (@ + 1) % UnsignedModulus]

\* Mutant: the reference is not given back.
ReleaseNothing(h) == UNCHANGED info

\* release_handler_ref; handler_info may be NULL
release_handler_ref(h) ==
    info' = IF h = NULL THEN info
            ELSE [info EXCEPT ![h].refcount = (@ - 1) % UnsignedModulus]

------------------------------------------------------------------------------
(* handle_request, from the search for a callback (5.2) to the end         *)

NewRequest(uri, ws, put, h) ==
    [pc |-> "authorize", uri |-> uri, is_websocket |-> ws, is_put |-> put,
     is_callback |-> h # NULL, handler_info |-> IF ws THEN NULL ELSE h,
     cbdata |-> IF h = NULL THEN NULL ELSE info[h].cbdata, auth |-> NULL]

\* 5.2: a callback is responsible; a request handler is acquired.
FindCallback(q, uri, ws, put) ==
    /\ server[q] = Idle
    /\ \E h \in Found(IF ws THEN "websocket" ELSE "request", uri) :
          /\ server' = [server EXCEPT ![q] = NewRequest(uri, ws, put, h)]
          /\ IF ws THEN UNCHANGED info ELSE AddRef(h)
    /\ UNCHANGED <<handlers, allocated, sets, setter, retired>>

\* 5.2.2: no callback is responsible.
FindNoCallback(q, uri, ws, put) ==
    /\ server[q] = Idle
    /\ Found(IF ws THEN "websocket" ELSE "request", uri) = {}
    /\ server' = [server EXCEPT ![q] = NewRequest(uri, ws, put, NULL)]
    /\ UNCHANGED <<handlers, info, allocated, sets, setter, retired>>

\* 6: the authorization handler decides, or in its absence check_authorization.
Authorizing(q) ==
    \/ server[q].pc = "auth"
    \/ server[q].pc = "authorize" /\ Found("auth", server[q].uri) = {}

\* 7: the callback is called; all other resources are served without one.
Dispatch(q) ==
    server' = [server EXCEPT ![q] =
                  CASE ~server[q].is_callback -> Idle
                    [] server[q].is_callback /\ server[q].is_websocket ->
                           [@ EXCEPT !.pc = "websocket"]
                    [] server[q].is_callback /\ ~server[q].is_websocket ->
                           [@ EXCEPT !.pc = "callback"]]

\* 6.1: a custom authorization handler is installed.
FindAuth(q) ==
    /\ server[q].pc = "authorize"
    /\ \E h \in Found("auth", server[q].uri) :
          server' = [server EXCEPT ![q].pc = "auth", ![q].auth = info[h].cbdata]
    /\ UNCHANGED <<handlers, info, allocated, sets, setter, retired>>

\* A PUT or DELETE to a file (interpret_uri decides whether it is a script)
FilePut(q) == server[q].is_put /\ ~server[q].is_callback

\* 6.2: a request over HTTP/2, no files, or no permission to write them.
PutRejected(q) ==
    /\ server[q].pc = "authorize"
    /\ Found("auth", server[q].uri) = {}
    /\ FilePut(q)
    /\ server' = [server EXCEPT ![q] = Idle]
    /\ UNCHANGED <<handlers, info, allocated, sets, setter, retired>>

\* 6.1 or 6.3 (other methods, and scripts): authorization fails, "Callback
\* handler will not be used anymore. Release it".
AuthReject(q) ==
    /\ AuthMayReject
    /\ Authorizing(q)
    /\ release_handler_ref(server[q].handler_info)
    /\ server' = [server EXCEPT ![q] = Idle]
    /\ UNCHANGED <<handlers, allocated, sets, setter, retired>>

\* The request is authorized.
AuthAccept(q) ==
    /\ Authorizing(q)
    /\ Dispatch(q)
    /\ UNCHANGED <<handlers, info, allocated, sets, setter, retired>>

\* The request is authorized and has a callback, but came over HTTP/2: HTTP1_only
\* resets the stream and returns from handle_request, past release_handler_ref.
\* (A websocket request never comes over HTTP/2.)
Http2Leaves(q) ==
    /\ Authorizing(q)
    /\ server[q].is_callback /\ ~server[q].is_websocket
    /\ LET h == server[q].handler_info
       IN  /\ info[h].leaked < MaxHttp2
           /\ info' = [info EXCEPT ![h].leaked = @ + 1]
    /\ server' = [server EXCEPT ![q] = Idle]
    /\ UNCHANGED <<handlers, allocated, sets, setter, retired>>

\* The callback returns a status: release it and finish.
CallbackDone(q) ==
    /\ server[q].pc = "callback"
    /\ release_handler_ref(server[q].handler_info)
    /\ server' = [server EXCEPT ![q] = Idle]
    /\ UNCHANGED <<handlers, allocated, sets, setter, retired>>

\* The callback returns 0: release it and goto no_callback_resource;
\* handler_info keeps its value.
CallbackDeclines(q) ==
    /\ CallbackMayDecline
    /\ server[q].pc = "callback"
    /\ release_handler_ref(server[q].handler_info)
    /\ server' = [server EXCEPT ![q].pc = "authorize", ![q].is_callback = FALSE]
    /\ UNCHANGED <<handlers, allocated, sets, setter, retired>>

\* handle_websocket_request returns when the websocket is closed.
WebsocketDone(q) ==
    /\ server[q].pc = "websocket"
    /\ server' = [server EXCEPT ![q] = Idle]
    /\ UNCHANGED <<handlers, info, allocated, sets, setter, retired>>

------------------------------------------------------------------------------
SetterStep(t) ==
    \/ SetCreate(t) \/ SetReturn(t)
    \/ \E h \in handlers : SetWait(t, h) \/ SetUpdate(t, h) \/ SetRemove(t, h)

ServerStep(q) ==
    \/ FindAuth(q) \/ AuthReject(q) \/ AuthAccept(q) \/ Http2Leaves(q)
    \/ PutRejected(q) \/ CallbackDone(q) \/ CallbackDeclines(q) \/ WebsocketDone(q)

Arrive(q) == \E uri \in Uri, put \in BOOLEAN, ws \in BOOLEAN :
                /\ ws => "websocket" \in Types
                /\ FindCallback(q, uri, ws, put) \/ FindNoCallback(q, uri, ws, put)

Next == \/ \E t \in Setter : \/ SetterStep(t)
                             \/ \E type \in Types, uri \in Uri : SetCall(t, type, uri)
        \/ \E q \in Server : Arrive(q) \/ ServerStep(q)

Spec == Init /\ [][Next]_vars

\* Threads are scheduled, and callbacks and websocket sessions come to an end;
\* nobody has to send a request or to set a handler.
Fairness == /\ \A t \in Setter : WF_vars(SetterStep(t))
            /\ \A q \in Server : WF_vars(ServerStep(q))

FairSpec == Spec /\ Fairness

------------------------------------------------------------------------------
(* Safety                                                                  *)

\* The servers between acquiring request handler h and giving it back.
Users(h) == {q \in Server : /\ server[q] # Idle
                            /\ server[q].is_callback
                            /\ server[q].handler_info = h}

\* The reference count of every registered request handler is the number of
\* requests that have acquired and not yet released it, and of those that have left
\* handle_request without releasing it because they came over HTTP/2 (15412): over
\* all ways through handle_request that is the only one that loses a reference
\* (get_request_handler, release_handler_ref).
RefcountExact ==
    \A h \in handlers : info[h].type = "request" =>
        info[h].refcount = Cardinality(Users(h)) + info[h].leaked

\* A request never holds, or gives back, a handler that was freed
\* (mg_set_handler_type frees only handlers without users).
HandlerNotFreed ==
    \A h \in 1..allocated : Users(h) # {} => h \in handlers

\* Once a call of mg_set_request_handler that replaced or removed a callback
\* has returned, no request is in that callback or about to enter it.
RequestCallbackUnused ==
    \A q \in Server : server[q] # Idle /\ server[q].is_callback /\ ~server[q].is_websocket
                        => server[q].cbdata \notin retired

\* A handler that requests no longer find because it is marked for removal is
\* about to be removed by some call: the mark of a removal never outlives it,
\* whatever other calls update or remove in between.
RemovingHasRemover ==
    \A h \in handlers : info[h].removing =>
        \E t \in Setter : /\ setter[t].pc = "search"
                          /\ setter[t].cbdata = NULL
                          /\ setter[t].type = info[h].type
                          /\ setter[t].uri = info[h].uri

\* No two handlers of one type are registered for one URI, also while calls
\* wait between searches.
OneHandlerPerUri ==
    \A g, h \in handlers : info[g].type = info[h].type /\ info[g].uri = info[h].uri => g = h

\* Under FairSpec: a call that removes a handler returns, although requests for
\* its URI keep coming (the removing mark turns them away), or an HTTP/2 request
\* has lost a reference to that handler.  In a build without USE_HTTP2
\* (MaxHttp2 = 0) it always returns.
RemovalCompletes ==
    \A t \in Setter :
        (setter[t].pc = "search" /\ setter[t].cbdata = NULL)
            ~> \/ setter[t] = Idle
               \/ \E h \in Existing(t) : info[h].leaked > 0

\* The same without the exception: mg_set_request_handler waits for the "end of
\* use" and then removes (14739).  It does not hold with MaxHttp2 > 0: one HTTP/2
\* request to a C callback, and no later call can remove or replace the handler.
RemovalAlwaysCompletes ==
    \A t \in Setter : (setter[t].pc = "search" /\ setter[t].cbdata = NULL) ~> setter[t] = Idle

\* The list of handlers is sound at every step: a reference is to a handler that is still
\* there (release_handler_ref never writes to freed memory), no two handlers of a type have
\* the same URI although mg_set_handler_type unlocks the list to wait, and a handler that is
\* marked as being removed has a thread that will remove it.
RegistryConsistent == HandlerNotFreed /\ OneHandlerPerUri /\ RemovingHasRemover
=============================================================================
