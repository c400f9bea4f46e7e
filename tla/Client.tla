------------------------------- MODULE Client -------------------------------
(***************************************************************************)
(* A client connection: mg_connect_client, mg_download, mg_get_response,   *)
(* mg_connect_websocket_client with its reader thread, and                 *)
(* mg_close_connection.  held is the set of resources that exist; every    *)
(* early return has to give back what was taken before it.                 *)
(***************************************************************************)
EXTENDS Integers

VARIABLES
    client,    \* what the application thread does, and the flags of the context
    held,      \* resources: the memory of conn, socket, TLS context, ...
    reader     \* the websocket client thread

clientVars == <<client, held, reader>>

NoClient == [at |-> "null", use_ssl |-> FALSE, kind |-> "http", context_type |-> "none",
             stop_flag |-> 0, content_len |-> 0, threads |-> 0, closed |-> 0]

ClientInit ==
    /\ client = NoClient
    /\ held = {}
    /\ reader = "none"

Step(at) == client' = [client EXCEPT !.at = at]

\* The call returns NULL and has released these.
Null(released) ==
    /\ client' = NoClient
    /\ held' = held \ released
    /\ reader' = "none"

------------------------------------------------------------------------------
(* mg_connect_client_impl                                                  *)

Connect ==
    /\ client.at = "null" /\ held = {}
    /\ \E ssl \in BOOLEAN, kind \in {"http", "download", "websocket"} :
          client' = [NoClient EXCEPT !.at = "alloc", !.use_ssl = ssl, !.kind = kind]
    /\ UNCHANGED <<held, reader>>

\* conn, context and buffer are one block.
Alloc ==
    /\ client.at = "alloc"
    /\ \/ Null({})
       \/ /\ client' = [client EXCEPT !.at = "address", !.context_type = "HTTP_CLIENT"]
          /\ held' = held \cup {"conn"}
          /\ UNCHANGED reader

\* connect_socket: no or a wrong host or port, no TLS library, an unknown host.
ConnectAddress ==
    /\ client.at = "address"
    /\ \/ Null({"conn"})
       \/ Step("socket") /\ UNCHANGED <<held, reader>>

\* The socket; the connect that needs its time; what fails closes the socket.
ConnectSocket ==
    /\ client.at = "socket"
    /\ \/ Null({"conn"})
       \/ /\ Step("wait")
          /\ held' = held \cup {"sock"}
          /\ UNCHANGED reader

ConnectWait ==
    /\ client.at = "wait"
    /\ \/ Null({"sock", "conn"})
       \/ Step("ctx") /\ UNCHANGED <<held, reader>>

SslContext ==
    /\ client.at = "ctx"
    /\ \/ client.use_ssl /\ Null({"sock", "conn"})
       \/ /\ Step("mutex")
          /\ held' = held \cup (IF client.use_ssl THEN {"ssl_ctx"} ELSE {})
          /\ UNCHANGED reader

Mutex ==
    /\ client.at = "mutex"
    /\ \/ Null({"ssl_ctx", "sock", "conn"})
       \/ /\ Step(IF client.use_ssl THEN "tls" ELSE "open")
          /\ held' = held \cup {"mutex"}
          /\ UNCHANGED reader

\* Mutant: the context is not freed when the handshake fails.
TlsKeepsContext ==
    /\ client.at = "tls"
    /\ \/ Null({"sock", "conn"})
       \/ /\ Step("open")
          /\ held' = held \cup {"ssl"}
          /\ UNCHANGED reader

\* Certificates and sslize with SSL_connect, which frees its SSL object when it
\* fails; the mutex is forgotten with its memory.
Tls ==
    /\ client.at = "tls"
    /\ \/ Null({"ssl_ctx", "sock", "conn", "mutex"})
       \/ /\ Step("open")
          /\ held' = held \cup {"ssl"}
          /\ UNCHANGED reader

------------------------------------------------------------------------------
(* Requests and responses                                                  *)

\* mg_download and the websocket client send their request and read a response.
SendRequest ==
    /\ client.at = "open" /\ client.kind # "http"
    /\ Step("request") /\ UNCHANGED <<held, reader>>

\* get_response: how the end of the body is known; -1: by the end of the data.
GetResponse ==
    /\ client.at = "request"
    /\ \E len \in {-1, 0, 1}, at \in {"ready", "failed"} :
          client' = [client EXCEPT !.content_len = len, !.at = at]
    /\ UNCHANGED <<held, reader>>

\* mg_get_response of an application that has sent its own request: a failure is
\* reported, the connection stays.
AppResponse ==
    /\ client.at = "open" /\ client.kind = "http"
    /\ \E len \in {-1, 0, 1} : client' = [client EXCEPT !.content_len = len]
    /\ UNCHANGED <<held, reader>>

\* mg_download returns the connection.
Downloaded ==
    /\ client.at = "ready" /\ client.kind = "download"
    /\ client' = [client EXCEPT !.at = "open", !.kind = "http"]
    /\ UNCHANGED <<held, reader>>

\* An error in between closes the connection; so does a status that is not 101.
GiveUp ==
    /\ \/ client.at = "failed"
       \/ client.at = "request"
       \/ client.at = "ready" /\ client.kind = "websocket"
    /\ Step("close") /\ UNCHANGED <<held, reader>>

\* 101: memory for the thread, then for its id.
ThreadData ==
    /\ client.at = "ready" /\ client.kind = "websocket"
    /\ Step("ids")
    /\ held' = held \cup {"thread_data"}
    /\ UNCHANGED reader

\* "Now upgrade to ws/wss client context".
Upgrade ==
    /\ client.at = "ids"
    /\ \/ /\ Step("close")
          /\ held' = held \ {"thread_data"}
       \/ /\ client' = [client EXCEPT !.at = "thread", !.context_type = "WS_CLIENT", !.threads = 1]
          /\ held' = held \cup {"threadids"}
    /\ UNCHANGED reader

StartThread ==
    /\ client.at = "thread"
    /\ \/ /\ client' = [client EXCEPT !.at = "close", !.threads = 0]
          /\ held' = held \ {"thread_data"}
          /\ UNCHANGED reader
       \/ /\ client' = [client EXCEPT !.at = "open", !.kind = "http"]
          /\ reader' = "reading"
          /\ UNCHANGED held

------------------------------------------------------------------------------
(* websocket_client_thread                                                 *)

\* read_websocket ends: for the flags, the peer, an error or the data handler.
ReaderLeaves ==
    /\ reader = "reading"
    /\ reader' = "callback"
    /\ UNCHANGED <<client, held>>

ReaderCloseHandler ==
    /\ reader = "callback"
    /\ client' = [client EXCEPT !.closed = @ + 1]
    /\ reader' = "stopped"
    /\ UNCHANGED held

ReaderStopped ==
    /\ reader = "stopped"
    /\ client' = [client EXCEPT !.stop_flag = 2]
    /\ reader' = "exit"
    /\ UNCHANGED held

\* exit_thread, then cdata is freed.
ReaderExit ==
    /\ reader = "exit"
    /\ held' = held \ {"thread_data"}
    /\ reader' = "ended"
    /\ UNCHANGED client

------------------------------------------------------------------------------
(* mg_close_connection                                                     *)

AppCloses ==
    /\ client.at = "open" /\ client.kind = "http"
    /\ Step("close") /\ UNCHANGED <<held, reader>>

CloseStart ==
    /\ client.at = "close"
    /\ client' = [client EXCEPT !.at = IF client.context_type = "WS_CLIENT" THEN "join" ELSE "end",
                                !.stop_flag = IF client.context_type = "WS_CLIENT" THEN 1 ELSE @]
    /\ UNCHANGED <<held, reader>>

\* Mutant: the thread is not waited for.
CloseNoJoin ==
    /\ client.at = "join"
    /\ Step("end") /\ UNCHANGED <<held, reader>>

CloseJoin ==
    /\ client.at = "join"
    /\ client.threads = 1 => reader = "ended"
    /\ Step("end") /\ UNCHANGED <<held, reader>>

\* close_connection: TLS, then the socket, gracefully.
CloseSocket ==
    /\ client.at = "end" /\ "sock" \in held
    /\ held' = held \ {"ssl", "sock"}
    /\ UNCHANGED <<client, reader>>

\* The TLS context, the id of the thread, the mutex and conn.
CloseFrees ==
    /\ client.at = "end" /\ "sock" \notin held
    /\ client' = [client EXCEPT !.at = "closed"]
    /\ held' = held \ ({"ssl_ctx", "mutex", "conn"}
                       \cup (IF client.context_type = "WS_CLIENT" THEN {"threadids"} ELSE {}))
    /\ UNCHANGED reader

ClientDone ==
    /\ client.at = "closed"
    /\ client' = NoClient /\ reader' = "none"
    /\ UNCHANGED held

ClientNext ==
    \/ Connect \/ Alloc \/ ConnectAddress \/ ConnectSocket \/ ConnectWait \/ SslContext
    \/ Mutex \/ Tls \/ SendRequest \/ GetResponse \/ AppResponse \/ Downloaded \/ GiveUp
    \/ ThreadData \/ Upgrade \/ StartThread
    \/ ReaderLeaves \/ ReaderCloseHandler \/ ReaderStopped \/ ReaderExit
    \/ AppCloses \/ CloseStart \/ CloseJoin \/ CloseSocket \/ CloseFrees \/ ClientDone

ClientSpec == ClientInit /\ [][ClientNext]_clientVars

------------------------------------------------------------------------------
(* Properties                                                              *)

\* A call that returns NULL, and mg_close_connection, leave nothing behind,
\* whichever of the steps has failed.
ClientReleased == client.at \in {"null", "closed"} => held = {}

\* The reader thread uses only memory that exists, and the application's close
\* handler has been called exactly once when mg_close_connection returns,
\* whoever ends the connection first.
ReaderSafe ==
    /\ reader \in {"reading", "callback", "stopped", "exit"} => {"conn", "thread_data"} \subseteq held
    /\ client.at = "closed" => client.closed = client.threads

\* Whatever step of a client connection fails, everything is released in the end and once,
\* and not while the reading thread of a websocket client still uses it.
ClientSafe == ClientReleased /\ ReaderSafe
=============================================================================
