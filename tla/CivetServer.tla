---------------------------- MODULE CivetServer ----------------------------
(***************************************************************************)
(* The C++ wrapper (CivetServer.cpp): an object that owns a server context *)
(* and a map "connections" from the server's connections to the form data  *)
(* that getParam has read for them.  The server's worker threads call the  *)
(* static handlers; a connection is a place that one client after another  *)
(* is served in, so that an entry which is left behind is found by the     *)
(* next.  The body of a request arrives in pieces; a piece is the number   *)
(* of its request.                                                         *)
(***************************************************************************)
EXTENDS Integers, Sequences, SequencesExt

CONSTANTS CivetConns,      \* connections, one for each worker thread
          MaxRequests,     \* bound: requests in one place
          MaxPieces,       \* bound: pieces of a body
          MaxParamPieces   \* MAX_PARAM_BODY_LENGTH

ASSUME CivetServerAssumption ==
    /\ MaxRequests \in Nat /\ MaxPieces \in Nat /\ MaxParamPieces \in Nat

VARIABLES civet,        \* context and what the object is doing
          registered,   \* kinds of handlers that are set
          served,       \* what the worker of each connection is doing
          connections,  \* the map; NoEntry where a connection has none
          formParams,   \* what getParam has last given to the callback that runs
          early         \* connections closed before the context was saved

civetVars == <<civet, registered, served, connections, formParams, early>>

HandlerKinds == {"request", "auth", "websocket"}
NoEntry == <<-1>>
Terminator == 0                     \* the terminating zero
NotServed == [at |-> "closed", request |-> 0, left |-> 0]

\* context is NULL until mg_start2 has returned, when requests may already be served.
HasContext == civet \in {"running", "stopping"}

CivetInit ==
    /\ civet = "none" /\ registered = {}
    /\ served = [c \in CivetConns |-> NotServed]
    /\ connections = [c \in CivetConns |-> NoEntry]
    /\ formParams = [c \in CivetConns |-> <<>>]
    /\ early = {}

-----------------------------------------------------------------------------
(* The object *)

ConstructServer ==
    /\ civet = "none" /\ civet' = "starting"
    /\ UNCHANGED <<registered, served, connections, formParams, early>>

\* mg_start2 fails only while no worker serves yet; the constructor throws.
ContextSaved(ok) ==
    /\ civet = "starting" /\ civet' = IF ok THEN "running" ELSE "none"
    /\ ~ok => \A c \in CivetConns: served[c] = NotServed
    /\ UNCHANGED <<registered, served, connections, formParams, early>>

addHandler(kind) ==
    /\ civet = "running" /\ registered' = registered \cup {kind}
    /\ UNCHANGED <<civet, served, connections, formParams, early>>

removeHandler(kind) ==
    /\ civet = "running" /\ registered' = registered \ {kind}
    /\ UNCHANGED <<civet, served, connections, formParams, early>>

\* close: mg_stop returns when the workers have ended, and only then context is NULL again.
CloseServer ==
    /\ civet = "running" /\ civet' = "stopping"
    /\ UNCHANGED <<registered, served, connections, formParams, early>>

CloseReturns ==
    /\ civet = "stopping" /\ civet' = "closed"
    /\ \A c \in CivetConns: served[c].at = "closed"
    /\ UNCHANGED <<registered, served, connections, formParams, early>>

-----------------------------------------------------------------------------
(* The worker threads *)

ServedAt(c, state) == served' = [served EXCEPT ![c].at = state]

ClientServed(c) ==
    /\ civet \in {"starting", "running"} /\ served[c].at = "closed"
    /\ ServedAt(c, "idle") /\ UNCHANGED <<civet, registered, connections, formParams, early>>

\* A request arrives; begin_request of the caller's callbacks is called first.
RequestBegins(c, pieces) ==
    /\ served[c].at = "idle" /\ served[c].request < MaxRequests
    /\ served' = [served EXCEPT ![c] = [at |-> "begin", request |-> @.request + 1, left |-> pieces]]
    /\ formParams' = [formParams EXCEPT ![c] = <<>>]
    /\ UNCHANGED <<civet, registered, connections, early>>

\* Mutant: an entry that exists is used again.
FreshEntryOnce(c) ==
    connections' = [connections EXCEPT ![c] = IF @ = NoEntry THEN <<>> ELSE @]

\* A handler of the object begins to run: a new entry for the connection.
FreshEntry(c) == connections' = [connections EXCEPT ![c] = <<>>]

authHandler(c) ==
    /\ served[c].at = "begin" /\ "auth" \in registered /\ HasContext
    /\ ServedAt(c, "auth") /\ FreshEntry(c) /\ formParams' = [formParams EXCEPT ![c] = <<>>]
    /\ UNCHANGED <<civet, registered, early>>

authHandlerReturns(c, authorized) ==
    /\ served[c].at = "auth" /\ ServedAt(c, IF authorized THEN "authorized" ELSE "idle")
    /\ UNCHANGED <<civet, registered, connections, formParams, early>>

requestHandler(c) ==
    /\ served[c].at \in {"begin", "authorized"} /\ "request" \in registered /\ HasContext
    /\ ServedAt(c, "handler") /\ FreshEntry(c) /\ formParams' = [formParams EXCEPT ![c] = <<>>]
    /\ UNCHANGED <<civet, registered, early>>

\* The member functions of a handler for one method come in two forms, with a status code
\* and without.  CivetHandler's own do nothing and say so.
DefaultForms == [code |-> -1, ok |-> FALSE]
HandlerForms == {DefaultForms} \cup [code: {-1, 0, 200}, ok: BOOLEAN]

\* What requestHandler returns: the status of the first form, and if that is none whether
\* the second form succeeded.  A method it does not know is like the default.
requestHandlerResult(forms) == IF forms.code >= 0 THEN forms.code ELSE IF forms.ok THEN 1 ELSE 0

\* After 0 the server looks for a file; otherwise the request is done.
requestHandlerReturns(c, forms) ==
    /\ served[c].at = "handler"
    /\ ServedAt(c, IF requestHandlerResult(forms) = 0 THEN "declined" ELSE "idle")
    /\ UNCHANGED <<civet, registered, connections, formParams, early>>

ServedOtherwise(c) ==
    /\ served[c].at \in {"begin", "authorized", "declined"} /\ ServedAt(c, "idle")
    /\ UNCHANGED <<civet, registered, connections, formParams, early>>

\* The four websocket handlers make no entry of their own.
webSocketHandlers(c) ==
    /\ served[c].at \in {"begin", "authorized"} /\ "websocket" \in registered /\ HasContext
    /\ ServedAt(c, "websocket") /\ UNCHANGED <<civet, registered, connections, formParams, early>>

\* A handler that rejects the connection, ends it by its answer to data, or is told its end.
webSocketEnds(c) ==
    /\ served[c].at = "websocket" /\ ServedAt(c, "last")
    /\ UNCHANGED <<civet, registered, connections, formParams, early>>

\* Mutant: the entry is kept.
closeHandlerKeeps(c) ==
    /\ served[c].at \in {"idle", "last"} /\ ServedAt(c, "closed")
    /\ early' = IF HasContext THEN early \ {c} ELSE early \cup {c}
    /\ UNCHANGED <<civet, registered, connections, formParams>>

\* The connection ends.  The caller's close handler runs before the entry is erased.
closeHandler(c) ==
    /\ served[c].at \in {"idle", "last"} /\ ServedAt(c, "closed")
    /\ connections' = IF HasContext THEN [connections EXCEPT ![c] = NoEntry] ELSE connections
    /\ early' = IF HasContext THEN early \ {c} ELSE early \cup {c}
    /\ UNCHANGED <<civet, registered, formParams>>

-----------------------------------------------------------------------------
(* What callbacks use *)

InCallback == {"begin", "auth", "handler", "websocket"}

\* What the next calls of mg_read give: n pieces, and then an error, an exception of the
\* vector, or 0, which may also be a timeout before the body is complete.
BodyPieces(c, n) == [k \in 1..n |-> served[c].request]

PostData(c, n, end) ==
    IF n > MaxParamPieces \/ end = "error" THEN <<Terminator>>
    ELSE IF end = "end" THEN Append(BodyPieces(c, n), Terminator) ELSE <<>>

\* getParam(conn, ...) reads the body unless the entry has data already.  It stops with the
\* piece that is too many.
getParam(c, n, end) ==
    LET entry == IF connections[c] = NoEntry THEN <<>> ELSE connections[c]
        data == IF entry = <<>> THEN PostData(c, n, end) ELSE entry
    IN  /\ served[c].at \in InCallback
        /\ IF entry # <<>>
           THEN n = 0 /\ end = "end" /\ UNCHANGED served
           ELSE /\ n <= served[c].left /\ n <= MaxParamPieces + 1
                /\ n > MaxParamPieces => end = "end"
                /\ served' = [served EXCEPT ![c].left = @ - n]
        /\ connections' = [connections EXCEPT ![c] = data]
        /\ formParams' = [formParams EXCEPT ![c] = data]
        /\ UNCHANGED <<civet, registered, early>>

\* getPostData reads until mg_read gives no more, for its caller alone.
getPostData(c, n) ==
    /\ served[c].at \in InCallback /\ n \in 1..served[c].left
    /\ served' = [served EXCEPT ![c].left = @ - n]
    /\ UNCHANGED <<civet, registered, connections, formParams, early>>

-----------------------------------------------------------------------------
CivetNext ==
    \/ ConstructServer \/ (\E ok \in BOOLEAN: ContextSaved(ok)) \/ CloseServer \/ CloseReturns
    \/ \E kind \in HandlerKinds: addHandler(kind) \/ removeHandler(kind)
    \/ \E c \in CivetConns:
        \/ ClientServed(c) \/ authHandler(c) \/ requestHandler(c) \/ ServedOtherwise(c)
        \/ webSocketHandlers(c) \/ webSocketEnds(c) \/ closeHandler(c)
        \/ \E ok \in BOOLEAN: authHandlerReturns(c, ok)
        \/ \E forms \in HandlerForms: requestHandlerReturns(c, forms)
        \/ \E n \in 0..MaxPieces:
            \/ RequestBegins(c, n) \/ getPostData(c, n)
            \/ \E end \in {"end", "error", "exception"}: getParam(c, n, end)

-----------------------------------------------------------------------------
\* Form data that getParam gives to a request handler or an authorization handler was sent
\* with the request they are called for: not with an earlier one on the connection, nor by
\* an earlier client in the same place (requestHandler, authHandler, closeHandler).
ParamsOwn ==
    \A c \in CivetConns: served[c].at \in {"auth", "handler"} =>
        ToSet(formParams[c]) \subseteq {served[c].request, Terminator}

\* A connection that is closed has no entry (closeHandler), unless it ended while the
\* constructor waited for mg_start2.
EntriesOfOpen ==
    \A c \in CivetConns: served[c].at = "closed" /\ c \notin early => connections[c] = NoEntry

CivetParams == ParamsOwn /\ EntriesOfOpen
=============================================================================
