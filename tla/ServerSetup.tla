----------------------------- MODULE ServerSetup -----------------------------
(***************************************************************************)
(* The life of the library and of one server context in civetweb.c:        *)
(* mg_init_library / mg_exit_library, the steps of mg_start2 with every     *)
(* early "free_context; return NULL", the listening sockets that            *)
(* set_ports_option opens, mg_start_domain2 and mg_stop.  The state is what *)
(* the context owns at each moment, because every step of mg_start2 may be  *)
(* the one that fails.                                                      *)
(***************************************************************************)
EXTENDS Naturals, Sequences, FiniteSets

CONSTANTS
    PortEntries,   \* the entries that listening_ports may hold: whether there is a
                   \* valid port number, and the letters after it
    MaxPorts,      \* bound on the number of entries in listening_ports
    MaxUsers,      \* bound on nested mg_init_library calls and on TLS users
    SslLibMissing, \* TRUE if libcrypto may be installed without libssl
    DomainNames    \* the authentication_domain values the application uses

ASSUME SetupAssumption ==
    /\ \A entry \in PortEntries: entry.number \in BOOLEAN /\ entry.suffix \in Seq(STRING)
    /\ MaxPorts \in Nat \ {0} /\ MaxUsers \in Nat \ {0, 1}
    /\ SslLibMissing \in BOOLEAN

VARIABLES
    libraryUsers,   \* mg_init_library_called
    libraryHeld,    \* the process-wide objects that exist
    cryptolibUsers, \* cryptolib_users
    sslLibrary,     \* is libssl loaded and its function table filled?
    opensslInited,  \* mg_openssl_initialized
    setupPc,        \* where mg_start2 or mg_stop is
    setupHeld,      \* what has been acquired for the context and not released
    portList,       \* config[LISTENING_PORTS]
    portsOk,        \* entries handled so far, and how many of them count as ok
    bound,          \* num_listening_sockets
    pollSlots,      \* entries allocated in listening_socket_fds
    exitCallback,   \* is callbacks.exit_context active in the context?
    contextCalls,   \* how often init_context and exit_context were called
    domains         \* the names in the list of domains, &ctx->dd first

setupVars == <<libraryUsers, libraryHeld, cryptolibUsers, sslLibrary, opensslInited,
               setupPc, setupHeld, portList, portsOk, bound, pollSlots, exitCallback,
               contextCalls, domains>>
libraryVars == <<libraryUsers, libraryHeld, opensslInited>>
cryptoVars == <<cryptolibUsers, sslLibrary>>
portVars == <<portList, portsOk, bound, pollSlots>>

GlobalObjects == {"lock", "key", "attr", "methods"}

SetupInit ==
    /\ libraryUsers = 0 /\ libraryHeld = {} /\ opensslInited = FALSE
    /\ cryptolibUsers = 0 /\ sslLibrary = FALSE
    /\ setupPc = "none" /\ setupHeld = {}
    /\ portList = <<>> /\ portsOk = <<0, 0>> /\ bound = 0 /\ pollSlots = 0
    /\ exitCallback = FALSE /\ contextCalls = [init |-> 0, exit |-> 0]
    /\ domains = <<>>

(***************************************************************************)
(* initialize_openssl: load the two libraries and count the user.  The      *)
(* count is raised before libssl is loaded and not lowered when that fails, *)
(* and a count above one returns 1 at once.                                 *)
(***************************************************************************)
initialize_openssl(result) ==
    \/ /\ cryptolibUsers = 0 /\ result = FALSE      \* libcrypto not loaded
       /\ UNCHANGED cryptoVars
    \/ /\ cryptolibUsers > 0 /\ result = TRUE
       /\ cryptolibUsers' = cryptolibUsers + 1
       /\ UNCHANGED sslLibrary
    \/ /\ cryptolibUsers = 0
       /\ result \in (IF SslLibMissing /\ ~sslLibrary THEN BOOLEAN ELSE {TRUE})
       /\ cryptolibUsers' = 1
       /\ sslLibrary' = result

\* uninitialize_openssl: the libraries stay loaded.
uninitialize_openssl ==
    cryptolibUsers' = cryptolibUsers - 1 /\ UNCHANGED sslLibrary

(***************************************************************************)
(* mg_init_library: create the process-wide objects for the first user, set *)
(* up TLS if the caller asks for it, count the user.                        *)
(***************************************************************************)
CreateGlobals == libraryHeld' = GlobalObjects

InitTls(tls) ==
    IF tls /\ ~opensslInited
    THEN \E ready \in BOOLEAN: initialize_openssl(ready) /\ opensslInited' = ready
    ELSE UNCHANGED <<cryptoVars, opensslInited>>

mg_init_library(tls) ==
    /\ CreateGlobals /\ InitTls(tls)
    /\ libraryUsers' = libraryUsers + 1

\* One of the objects cannot be created: the others are destroyed again, except
\* that the failed allocation of all_methods leaves the key and the attributes.
InitLibraryFails ==
    /\ libraryUsers = 0
    /\ \E left \in {{}, {"key", "attr"}}: libraryHeld' = left
    /\ UNCHANGED <<libraryUsers, cryptoVars, opensslInited>>

LibraryInit ==
    /\ setupPc = "none" /\ libraryUsers < MaxUsers /\ cryptolibUsers < MaxUsers
    /\ \/ \E tls \in BOOLEAN: mg_init_library(tls)
       \/ InitLibraryFails
    /\ UNCHANGED <<setupPc, setupHeld, portVars, exitCallback, contextCalls, domains>>

(***************************************************************************)
(* mg_exit_library: the last user destroys everything.  The application     *)
(* stops its servers first.                                                 *)
(***************************************************************************)
LastUserLeaves ==
    /\ libraryHeld' = {}
    /\ opensslInited' = FALSE
    /\ IF opensslInited THEN uninitialize_openssl ELSE UNCHANGED cryptoVars

LibraryExit ==
    /\ setupPc = "none" /\ libraryUsers > 0
    /\ libraryUsers' = libraryUsers - 1
    /\ IF libraryUsers = 1 THEN LastUserLeaves
       ELSE UNCHANGED <<libraryHeld, opensslInited, cryptoVars>>
    /\ UNCHANGED <<setupPc, setupHeld, portVars, exitCallback, contextCalls, domains>>

(***************************************************************************)
(* free_context releases what it knows of.  It closes no listening socket,  *)
(* stops no timer thread, closes no Lua state and frees no further domain:  *)
(* a stopping server has done the first three before.                       *)
(***************************************************************************)
KeptByFreeContext == {"sockets", "timer", "lua", "domains"}

free_context ==
    /\ setupHeld' = setupHeld \cap KeptByFreeContext
    /\ contextCalls' = [contextCalls EXCEPT !.exit = @ + IF exitCallback THEN 1 ELSE 0]

StartFails ==
    /\ free_context
    /\ setupPc' = "failed"
    /\ UNCHANGED <<libraryVars, cryptoVars, portVars, exitCallback, domains>>

\* is_ssl_port_used looks for an s or an r after a digit, or after a digit and
\* an o: it is also true of lists with a redirecting port only.
is_ssl_port_used(list) ==
    \E i \in DOMAIN list:
        LET suffix == list[i].suffix
            at == IF suffix # <<>> /\ suffix[1] = "o" THEN 2 ELSE 1
        IN list[i].number /\ Len(suffix) >= at /\ suffix[at] \in {"s", "r"}

legacy_init(list) == mg_init_library(is_ssl_port_used(list))

(***************************************************************************)
(* mg_start2, step by step.  Begin: the library is initialised implicitly   *)
(* if need be; then the context, its mutexes and the socket pair.           *)
(***************************************************************************)
StartBegin ==
    /\ setupPc = "none" /\ cryptolibUsers < MaxUsers
    /\ \E n \in 1..MaxPorts: \E list \in [1..n -> PortEntries]:
        /\ portList' = list
        /\ IF libraryUsers = 0
           THEN \/ legacy_init(list) /\ setupPc' \in {"sync", "failed"}
                \/ InitLibraryFails /\ setupPc' = "failed"
           ELSE UNCHANGED <<libraryVars, cryptoVars>> /\ setupPc' \in {"sync", "failed"}
    /\ setupHeld' = {} /\ portsOk' = <<0, 0>> /\ bound' = 0 /\ pollSlots' = 0
    /\ exitCallback' = FALSE /\ contextCalls' = [init |-> 0, exit |-> 0]
    /\ domains' = <<>>

\* mg_socketpair: both sockets, or none is left open.
mg_socketpair(pair) == pair \in {{}, {"pair"}}

\* A failure here frees only the context: whichever of the mutexes and the socket
\* pair were made stay behind.
StartSync ==
    /\ setupPc = "sync"
    /\ \E allMade \in BOOLEAN, pair \in SUBSET {"pair"}:
        /\ mg_socketpair(pair)
        /\ IF allMade /\ pair # {}
           THEN setupHeld' = {"ctx", "mutexes"} \cup pair /\ setupPc' = "callbacks"
           ELSE setupHeld' = {"mutexes"} \cup pair /\ setupPc' = "failed"
    /\ UNCHANGED <<libraryVars, cryptoVars, portVars, exitCallback, contextCalls, domains>>

\* Mutant: the callbacks are copied with exit_context already active.
StartCallbacksWithExit ==
    /\ setupPc = "callbacks" /\ setupPc' = "options"
    /\ exitCallback' = TRUE
    /\ UNCHANGED <<libraryVars, cryptoVars, setupHeld, portVars, contextCalls, domains>>

\* Copy the callbacks; exit_context stays off until the context is complete.
StartCallbacks ==
    /\ setupPc = "callbacks" /\ setupPc' = "options"
    /\ exitCallback' = FALSE
    /\ UNCHANGED <<libraryVars, cryptoVars, setupHeld, portVars, contextCalls, domains>>

\* A step of mg_start2 that acquires something or fails.
Stage(from, to, acquired) ==
    /\ setupPc = from
    /\ \/ /\ setupPc' = to
          /\ setupHeld' = setupHeld \cup acquired
          /\ UNCHANGED <<libraryVars, cryptoVars, portVars, exitCallback, contextCalls, domains>>
       \/ StartFails

StartOptions == Stage("options", "limits", {"config"})
StartLimits == Stage("limits", "queue", {})
StartQueue == Stage("queue", "lua", {"squeue"})
\* With or without a background script.
StartLua ==
    \/ Stage("lua", "password", {"lua"})
    \/ Stage("lua", "password", {})
StartPassword == Stage("password", "ssl", {})
StartUid == Stage("uid", "acl", {})
StartAcl == Stage("acl", "arrays", {})
StartArrays == Stage("arrays", "timers", {"worker_threadids", "worker_connections"})
StartTimers == Stage("timers", "init_context", {"timer"})

(***************************************************************************)
(* init_ssl_ctx: nothing without a TLS port; otherwise the application's    *)
(* own TLS context, or a new one set up by init_ssl_ctx_impl.               *)
(***************************************************************************)
\* The certificate, then the trusted authorities and the default paths if the
\* peer is to be verified: each may be configured or not, and fail if it is.
SslCertificates(result) ==
    \E pem, authorities, paths \in BOOLEAN: result = (pem /\ authorities /\ paths)

\* init_ssl and init_ssl_domain: an error, everything done, or civetweb goes on
\* (also without a callback).  A failure after SSL_CTX_new leaves ssl_ctx set,
\* for free_context.
init_ssl_ctx_impl(result, acquired) ==
    \/ acquired = {} /\ result = FALSE
    \/ /\ acquired = {"ssl_ctx"}
       /\ \E init_ssl, init_ssl_domain \in {"error", "done", "continue"}:
            IF init_ssl # "continue" THEN result = (init_ssl = "done")
            ELSE IF init_ssl_domain # "continue" THEN result = (init_ssl_domain = "done")
            ELSE SslCertificates(result)

\* The result and what the domain holds then.
init_ssl_ctx(result, acquired) ==
    IF ~is_ssl_port_used(portList)
    THEN result = TRUE /\ acquired = {} /\ UNCHANGED cryptoVars
    ELSE \/ \* a callback or the missing certificate refuses
            result = FALSE /\ acquired = {} /\ UNCHANGED cryptoVars
         \/ \* the application's own context: initialize_openssl comes second
            acquired = {"external_ssl_ctx"} /\ initialize_openssl(result)
         \/ initialize_openssl(FALSE) /\ result = FALSE /\ acquired = {}
         \/ initialize_openssl(TRUE) /\ init_ssl_ctx_impl(result, acquired)

StartSsl ==
    /\ setupPc = "ssl"
    /\ \E result \in BOOLEAN, acquired \in SUBSET {"ssl_ctx", "external_ssl_ctx"}:
        /\ init_ssl_ctx(result, acquired)
        /\ IF result
           THEN setupPc' = "ports" /\ setupHeld' = setupHeld \cup acquired /\ UNCHANGED contextCalls
           ELSE setupPc' = "failed" /\ free_context
    /\ UNCHANGED <<libraryVars, portVars, exitCallback, domains>>

(***************************************************************************)
(* set_ports_option, one entry of listening_ports per step.  An entry that  *)
(* does not parse, or a TLS entry without a TLS context, is not ok.  An     *)
(* entry whose socket cannot be opened or bound is ok only if it is         *)
(* optional; one that cannot be listened to, or recorded, never is.         *)
(***************************************************************************)
PortEntry == portList[portsOk[1] + 1]

HasSuffix(entry, letter) == letter \in {entry.suffix[i]: i \in DOMAIN entry.suffix}

\* A valid port, after which each of the letters o, r and s comes at most once,
\* and r and s not both.
parse_port_string(entry) ==
    /\ entry.number
    /\ \A i, j \in DOMAIN entry.suffix: entry.suffix[i] = entry.suffix[j] => i = j
    /\ \A i \in DOMAIN entry.suffix: entry.suffix[i] \in {"o", "r", "s"}
    /\ ~(HasSuffix(entry, "r") /\ HasSuffix(entry, "s"))

PortUsable ==
    /\ parse_port_string(PortEntry)
    /\ HasSuffix(PortEntry, "s") => setupHeld \cap {"ssl_ctx", "external_ssl_ctx"} # {}

\* Grow both arrays: the sockets by one, the poll array to one more than that.
RecordPort ==
    /\ bound' = bound + 1
    /\ pollSlots' = bound + 2
    /\ setupHeld' = setupHeld \cup {"sockets"}

\* One entry is done, and counts as ok or not.
PortCounted(ok) == portsOk' = <<portsOk[1] + 1, portsOk[2] + ok>>

\* No socket for the entry, or it cannot be bound.
PortNotBound ==
    /\ PortUsable
    /\ PortCounted(IF HasSuffix(PortEntry, "o") THEN 1 ELSE 0)
    /\ UNCHANGED <<setupHeld, bound, pollSlots>>

\* The backlog is out of range, listen or getsockname fails, or the arrays
\* cannot grow: the socket is closed again.
PortNotListening ==
    /\ PortUsable /\ PortCounted(0)
    /\ UNCHANGED <<setupHeld, bound, pollSlots>>

set_ports_option ==
    /\ setupPc = "ports" /\ portsOk[1] < Len(portList)
    /\ \/ ~PortUsable /\ PortCounted(0) /\ UNCHANGED <<setupHeld, bound, pollSlots>>
       \/ PortNotBound
       \/ PortNotListening
       \/ PortUsable /\ RecordPort /\ PortCounted(1)
    /\ UNCHANGED <<libraryVars, cryptoVars, setupPc, portList, exitCallback, contextCalls, domains>>

close_all_listening_sockets == setupHeld' = setupHeld \ {"sockets"} /\ pollSlots' = 0

\* After the last entry: all ok, or every socket is closed and the start fails.
PortsDone ==
    /\ setupPc = "ports" /\ portsOk[1] = Len(portList)
    /\ IF portsOk[2] = portsOk[1]
       THEN setupPc' = "uid" /\ UNCHANGED <<setupHeld, pollSlots, contextCalls>>
       ELSE /\ setupPc' = "failed" /\ pollSlots' = 0
            /\ setupHeld' = (setupHeld \ {"sockets"}) \cap KeptByFreeContext
            /\ contextCalls' = [contextCalls EXCEPT !.exit = @ + IF exitCallback THEN 1 ELSE 0]
    /\ UNCHANGED <<libraryVars, cryptoVars, portList, portsOk, bound, exitCallback, domains>>

(***************************************************************************)
(* The context is complete: init_context is called and exit_context is      *)
(* armed.  The first worker thread may still fail.                          *)
(***************************************************************************)
StartInitContext ==
    /\ setupPc = "init_context" /\ setupPc' = "workers"
    /\ contextCalls' = [contextCalls EXCEPT !.init = @ + 1]
    /\ exitCallback' = TRUE
    /\ domains' = <<"default">>
    /\ UNCHANGED <<libraryVars, cryptoVars, setupHeld, portVars>>

StartWorkers == Stage("workers", "running", {"workers"})

\* mg_start2 returned NULL; the application may try again.
StartFailed ==
    /\ setupPc = "failed" /\ setupPc' = "none"
    /\ UNCHANGED <<libraryVars, cryptoVars, setupHeld, portVars, exitCallback, contextCalls, domains>>

(***************************************************************************)
(* mg_start_domain2: a further domain for the running server, refused when  *)
(* its name is taken.  The new domain and its TLS context stay allocated    *)
(* when it was added; when it was not, only the structure itself is freed.  *)
(***************************************************************************)
mg_start_domain2 ==
    /\ setupPc = "running" /\ cryptolibUsers < MaxUsers
    /\ \E name \in DomainNames, result \in BOOLEAN,
          acquired \in SUBSET {"ssl_ctx", "external_ssl_ctx"}:
        /\ init_ssl_ctx(result, acquired)
        /\ setupHeld' = setupHeld \cup {"domains"}
        /\ domains' = IF result /\ \A i \in DOMAIN domains: domains[i] # name
                      THEN Append(domains, name) ELSE domains
    /\ UNCHANGED <<libraryVars, setupPc, portVars, exitCallback, contextCalls>>

(***************************************************************************)
(* mg_stop sets the stop flag and joins the timer thread.  Meanwhile the    *)
(* master thread sees the flag, closes the listening sockets, joins the     *)
(* workers, closes the Lua state and sets the flag to 2.  mg_stop waits for *)
(* that, joins the master and frees the context.                            *)
(***************************************************************************)
timers_exit == setupHeld' = setupHeld \ {"timer"}

StopBegins ==
    /\ setupPc = "running" /\ setupPc' = "stopping"
    /\ timers_exit
    /\ UNCHANGED <<libraryVars, cryptoVars, portVars, exitCallback, contextCalls, domains>>

\* master_thread_run returns at once when there is no array of listening sockets
\* (listening_socket_fds is NULL): such a master sees no flag and sets none.
MasterPolls == pollSlots > 0

\* Mutant: the master leaves the Lua background state open.
MasterLeavesLuaOpen ==
    /\ setupPc = "stopping" /\ MasterPolls /\ setupPc' = "joining"
    /\ setupHeld' = setupHeld \ {"sockets", "workers"}
    /\ pollSlots' = 0
    /\ UNCHANGED <<libraryVars, cryptoVars, portList, portsOk, bound, exitCallback, contextCalls, domains>>

MasterLeaves ==
    /\ setupPc = "stopping" /\ MasterPolls /\ setupPc' = "joining"
    /\ setupHeld' = setupHeld \ {"sockets", "workers", "lua"}
    /\ pollSlots' = 0
    /\ UNCHANGED <<libraryVars, cryptoVars, portList, portsOk, bound, exitCallback, contextCalls, domains>>

\* The rest of mg_stop, once the flag is 2.
mg_stop ==
    /\ setupPc = "joining" /\ setupPc' = "stopped"
    /\ free_context
    /\ UNCHANGED <<libraryVars, cryptoVars, portVars, exitCallback, domains>>

StopReturned ==
    /\ setupPc = "stopped" /\ setupPc' = "none"
    /\ UNCHANGED <<libraryVars, cryptoVars, setupHeld, portVars, exitCallback, contextCalls, domains>>

\* The process ends without a server: every count starts from zero again.
ProcessEnds ==
    /\ setupPc = "none"
    /\ libraryUsers' = 0 /\ libraryHeld' = {} /\ opensslInited' = FALSE
    /\ cryptolibUsers' = 0 /\ sslLibrary' = FALSE /\ setupHeld' = {}
    /\ UNCHANGED <<setupPc, portVars, exitCallback, contextCalls, domains>>

SetupNext ==
    \/ ProcessEnds \/ LibraryInit \/ LibraryExit
    \/ StartBegin \/ StartSync \/ StartCallbacks \/ StartOptions \/ StartLimits \/ StartQueue
    \/ StartLua \/ StartPassword \/ StartSsl \/ set_ports_option \/ PortsDone \/ StartUid
    \/ StartAcl \/ StartArrays \/ StartTimers \/ StartInitContext \/ StartWorkers \/ StartFailed
    \/ mg_start_domain2 \/ StopBegins \/ MasterLeaves \/ mg_stop \/ StopReturned

SetupSpec == SetupInit /\ [][SetupNext]_setupVars

\* The master thread and the thread in mg_stop are scheduled.  Nothing obliges the
\* application to start a server, or to stop it.
SetupFairSpec ==
    SetupSpec /\ WF_setupVars(MasterLeaves) /\ WF_setupVars(mg_stop)

\* Values of PortEntries for TLC: 80, 443s, 80or and an entry without a number.
SmallPortEntries ==
    [number: {TRUE}, suffix: {<<>>, <<"s">>, <<"o", "r">>}] \cup [number: {FALSE}, suffix: {<<>>}]

(***************************************************************************)
(* Properties.                                                              *)
(***************************************************************************)

\* exit_context is called once for every context whose init_context was called,
\* and never for a context that was deleted before it was complete: mg_start2
\* arms the callback only after init_context, and free_context is its only caller.
ExitPaired ==
    /\ contextCalls.exit <= contextCalls.init
    /\ setupPc \in {"failed", "stopped"} => contextCalls.exit = contextCalls.init

\* Once mg_stop has freed the context, nothing is left behind but the domains that
\* mg_start_domain2 added: the master thread, mg_stop and free_context between
\* them release what the start acquired, and they release it once the threads
\* that use it are gone.  (That mg_stop gets there is StopReturns.)
StopReleases == setupPc = "stopped" => setupHeld \subseteq {"domains"}

\* mg_stop "blocks until all Civetweb threads are stopped" (include/civetweb.h:452-456),
\* so under SetupFairSpec it returns in the end.  It does not hold when all ports are
\* optional and none could be bound: the server starts, but its master thread has
\* returned (20646-20648) and nobody sets stop_flag to 2.
StopReturns == setupPc = "stopping" ~> setupPc = "stopped"

\* When the first worker thread cannot be created, mg_start2 frees the entire
\* server context (21916-21917): nothing of it is left.  It does not hold: free_context
\* leaves the listening sockets, the timer thread and the Lua state.
FailedStartClean == setupPc = "failed" /\ contextCalls.init = 1 => setupHeld = {}

\* A TLS context is only made with the function table of a loaded libssl
\* (init_ssl_ctx, 17972-17974).  It does not hold with SslLibMissing = TRUE.
SslContextUsable == "ssl_ctx" \in setupHeld => sslLibrary

\* Start and stop are balanced: the application hears of the end of every context of whose
\* beginning it heard, whichever step of mg_start2 fails, and a server for which mg_stop
\* has returned has released what it acquired (mg_start2, master_thread_run, mg_stop).
StartStopBalanced == ExitPaired /\ StopReleases
=============================================================================
