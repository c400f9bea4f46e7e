------------------------------ MODULE Domains ------------------------------
(***************************************************************************)
(* Virtual hosts.  A context has the default domain and the domains that   *)
(* mg_start_domain appends to its list.  Every worker thread has one       *)
(* connection structure, whose dom_ctx is set to the default domain when   *)
(* the thread starts and is kept from one connection to the next: a TLS    *)
(* handshake sets it from the server name, a plain request changes it when *)
(* its Host header names a domain.  With ssl_short_trust a connection also *)
(* reloads the certificate of dom_ctx when the file has a new date.        *)
(***************************************************************************)
EXTENDS Naturals, Sequences

CONSTANTS ExtraDomains,   \* the names of the domains that may be added
          NoTlsDomains,   \* domains whose listening_ports has no TLS port: ssl_ctx is NULL
          ShortTrust,     \* domains with ssl_short_trust = yes
          DomWorkers,     \* worker threads
          Acl,            \* access_control_list: a sequence of [flag, net], net a set of peers
          Peers,          \* remote addresses
          MaxMtime        \* bound: dates of the certificate files

Default == "default"
AllDomains == ExtraDomains \cup {Default}

\* What a client may send as server name or Host: a domain, an unknown name, nothing.
HostNames == AllDomains \cup {"other", "none"}

ASSUME DomainsAssumption ==
    /\ Default \notin ExtraDomains \cup NoTlsDomains
    /\ NoTlsDomains \subseteq ExtraDomains /\ ShortTrust \subseteq AllDomains
    /\ MaxMtime \in Nat \ {0}

VARIABLES
    domainList,    \* ctx->dd and the list behind it
    dom_ctx,    \* conn->dom_ctx of each worker
    vconn,      \* what each worker does with its connection
    pemFile,    \* the certificate file of each domain: its date, and whether it loads
    last_mtime, \* ssl_cert_last_mtime of each domain
    keyPair     \* date of the certificate and key in each ssl_ctx; 0 when they do not fit

domainVars == <<domainList, dom_ctx, vconn, pemFile, last_mtime, keyPair>>

NoVConn == [at |-> "idle", ssl |-> FALSE, sni |-> "none", ctx |-> "none", known |-> {},
            host |-> "none", servedBy |-> "none"]

\* worker_thread_run sets the default domain once, before it takes its first connection.
DomainsInit ==
    /\ domainList = <<Default>>
    /\ dom_ctx = [w \in DomWorkers |-> Default]
    /\ vconn = [w \in DomWorkers |-> NoVConn]
    /\ pemFile = [d \in AllDomains |-> [mtime |-> 1, good |-> TRUE]]
    /\ last_mtime = [d \in AllDomains |-> 0]
    /\ keyPair = [d \in AllDomains |-> IF d \in NoTlsDomains THEN 0 ELSE 1]

Known == {domainList[i] : i \in DOMAIN domainList}

-----------------------------------------------------------------------------
\* mg_start_domain2: a name that is in use is refused, others go to the end of the list.
StartDomain(d) ==
    /\ d \notin Known
    /\ domainList' = Append(domainList, d)
    /\ UNCHANGED <<dom_ctx, vconn, pemFile, last_mtime, keyPair>>

\* The administrator replaces a certificate file.
ReplacePem(d, good) ==
    /\ d \in ShortTrust /\ pemFile[d].mtime < MaxMtime
    /\ pemFile' = [pemFile EXCEPT ![d] = [mtime |-> @.mtime + 1, good |-> good]]
    /\ UNCHANGED <<domainList, dom_ctx, vconn, last_mtime, keyPair>>

\* check_acl: without a list everybody may connect; otherwise the last entry that matches
\* the address decides, and "-" when none does.
Allowed(peer) ==
    LET matching == SelectSeq(Acl, LAMBDA e : peer \in e.net)
    IN  \/ Acl = <<>>
        \/ matching # <<>> /\ matching[Len(matching)].flag = "+"

\* accept_new_connection and consume_socket: the worker has a connection.
TakeConnection(w, peer, ssl) ==
    /\ vconn[w].at = "idle" /\ Allowed(peer)
    /\ vconn' = [vconn EXCEPT ![w] = [NoVConn EXCEPT !.at = IF ssl THEN "sslize" ELSE "open",
                                                     !.ssl = ssl]]
    /\ UNCHANGED <<domainList, dom_ctx, pemFile, last_mtime, keyPair>>

Dropped(w) == vconn' = [vconn EXCEPT ![w] = NoVConn]

\* refresh_trust: the date is recorded before anything is loaded.  The CA files are loaded
\* first; a certificate that loads while its key does not leaves the pair unusable.
Reloads(d) == d \in ShortTrust /\ last_mtime[d] # pemFile[d].mtime

RefreshFails(w, caGood) ==
    LET d == dom_ctx[w]
    IN  /\ vconn[w].at = "sslize" /\ Reloads(d) /\ (caGood => ~pemFile[d].good)
        /\ last_mtime' = [last_mtime EXCEPT ![d] = pemFile[d].mtime]
        /\ keyPair' = IF caGood THEN [keyPair EXCEPT ![d] = 0] ELSE keyPair
        /\ Dropped(w)
        /\ UNCHANGED <<domainList, dom_ctx, pemFile>>

\* sslize: the trust of the domain of dom_ctx is refreshed, and a session of its context made.
SslNew(w) ==
    LET d == dom_ctx[w]
    IN  /\ vconn[w].at = "sslize" /\ d \notin NoTlsDomains
        /\ IF Reloads(d)
           THEN /\ pemFile[d].good
                /\ last_mtime' = [last_mtime EXCEPT ![d] = pemFile[d].mtime]
                /\ keyPair' = [keyPair EXCEPT ![d] = pemFile[d].mtime]
           ELSE UNCHANGED <<last_mtime, keyPair>>
        /\ vconn' = [vconn EXCEPT ![w].at = "accept", ![w].ctx = d]
        /\ UNCHANGED <<domainList, dom_ctx, pemFile>>

\* SSL_new of a domain without a context fails, and the connection is closed.
SslNewFails(w) ==
    /\ vconn[w].at = "sslize" /\ dom_ctx[w] \in NoTlsDomains /\ ~Reloads(dom_ctx[w])
    /\ Dropped(w)
    /\ UNCHANGED <<domainList, dom_ctx, pemFile, last_mtime, keyPair>>

\* Mutant: the search starts at the domain of the last connection.
ServerNameFromCurrent(cur, name) ==
    LET from == CHOOSE i \in DOMAIN domainList : domainList[i] = cur
    IN  IF \E i \in from..Len(domainList) : domainList[i] = name THEN name ELSE Default

\* ssl_servername_callback: the domain of the list with the name, or the default domain.
ServerName(cur, name) == IF name \in Known THEN name ELSE Default

\* SSL_accept: the callback sets dom_ctx and the context of the session (OpenSSL stays with
\* the first one when the domain has none); the key pair must be usable.
Accepts(w, sni) ==
    LET d == ServerName(dom_ctx[w], sni)
        ctx == IF d \in NoTlsDomains THEN vconn[w].ctx ELSE d
    IN  /\ vconn[w].at = "accept"
        /\ dom_ctx' = [dom_ctx EXCEPT ![w] = d]
        /\ vconn' = [vconn EXCEPT ![w] = IF keyPair[ctx] = 0 THEN NoVConn
                        ELSE [@ EXCEPT !.at = "open", !.sni = sni, !.ctx = ctx, !.known = Known]]
        /\ UNCHANGED <<domainList, pemFile, last_mtime, keyPair>>

\* The handshake fails before the client sent its name, or runs into the request timeout.
AcceptFails(w) ==
    /\ vconn[w].at = "accept"
    /\ Dropped(w)
    /\ UNCHANGED <<domainList, dom_ctx, pemFile, last_mtime, keyPair>>

\* switch_domain_context of a plain request: the domain that Host names, if there is one.
PlainDomain(w, host) == IF host \in Known THEN host ELSE dom_ctx[w]

PlainRequest(w, host) ==
    /\ vconn[w].at = "open" /\ ~vconn[w].ssl
    /\ dom_ctx' = [dom_ctx EXCEPT ![w] = PlainDomain(w, host)]
    /\ vconn' = [vconn EXCEPT ![w].host = host, ![w].servedBy = PlainDomain(w, host),
                              ![w].known = Known]
    /\ UNCHANGED <<domainList, pemFile, last_mtime, keyPair>>

\* A TLS request stays in the domain of the server name; another Host is answered with 400
\* and the connection closed, but in the default domain every Host is good.
TlsRequest(w, host) ==
    /\ vconn[w].at = "open" /\ vconn[w].ssl
    /\ vconn' = [vconn EXCEPT ![w] =
                    IF host # "none" /\ dom_ctx[w] # Default /\ host # dom_ctx[w] THEN NoVConn
                    ELSE [@ EXCEPT !.host = host, !.servedBy = dom_ctx[w]]]
    /\ UNCHANGED <<domainList, dom_ctx, pemFile, last_mtime, keyPair>>

\* close_connection: the worker takes the next one; dom_ctx stays.
CloseVConn(w) ==
    /\ vconn[w].at = "open"
    /\ Dropped(w)
    /\ UNCHANGED <<domainList, dom_ctx, pemFile, last_mtime, keyPair>>

DomainsNext ==
    \/ \E d \in ExtraDomains : StartDomain(d)
    \/ \E d \in AllDomains, good \in BOOLEAN : ReplacePem(d, good)
    \/ \E w \in DomWorkers :
        \/ \E p \in Peers, ssl \in BOOLEAN : TakeConnection(w, p, ssl)
        \/ \E caGood \in BOOLEAN : RefreshFails(w, caGood)
        \/ SslNew(w) \/ SslNewFails(w) \/ AcceptFails(w) \/ CloseVConn(w)
        \/ \E name \in HostNames : Accepts(w, name) \/ PlainRequest(w, name) \/ TlsRequest(w, name)

DomainsSpec == DomainsInit /\ [][DomainsNext]_domainVars

-----------------------------------------------------------------------------
\* A TLS connection is in the domain that its own server name selects, the default domain
\* when there is none, whatever connections the worker served before
\* (ssl_servername_callback starts its search at ctx->dd).
TlsDomainOwn ==
    \A w \in DomWorkers :
        vconn[w].at = "open" /\ vconn[w].ssl =>
            dom_ctx[w] = IF vconn[w].sni \in vconn[w].known THEN vconn[w].sni ELSE Default

\* "the setting of the initial (main) domain may be used if the server could not determine
\* the correct domain" (docs/UserManual.md): a plain request whose Host is missing or unknown
\* is served in the default domain.  It is served in the domain of an earlier request,
\* possibly of another connection, since switch_domain_context only ever changes dom_ctx.
HostDecidesDomain ==
    \A w \in DomWorkers :
        vconn[w].servedBy # "none" /\ ~vconn[w].ssl =>
            vconn[w].servedBy = IF vconn[w].host \in vconn[w].known THEN vconn[w].host ELSE Default
=============================================================================
