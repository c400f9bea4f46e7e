---------------------------- MODULE MCComponents ----------------------------
(***************************************************************************)
(* Small instances, for TLC, of the components that share no state with the *)
(* others: one of them takes part in a behaviour and the rest stay as they  *)
(* are, so that the states of the run are the sum of theirs.                *)
(***************************************************************************)
EXTENDS Request, Response, SocketWrite, DavFiles, Client, Http2, Domains,
        Auth, ServerSetup, StandAlone, UriText, Patterns, MessageText, WinCondvar,
        Components

VARIABLE part   \* the component that takes part

Parts == {"request", "response", "write", "static", "dav", "locks", "client",
          "form", "http2", "domains", "auth", "setup", "standalone", "uri",
          "patterns", "messages", "lua", "shared", "ssi", "cgienv", "condvar",
          "civet", "lsp", "include"}

ComponentsInit ==
    /\ part \in Parts
    /\ RequestInit /\ ResponseInit /\ WriteInit /\ StaticInit /\ DavInit
    /\ LocksInit /\ ClientInit /\ FormInit /\ H2Init /\ DomainsInit
    /\ AuthInit /\ SetupInit /\ SaInit /\ UriInit /\ PatternsInit
    /\ MessageInit /\ LwInit /\ SharedInit /\ SsiInit /\ EnvInit
    /\ CvInit /\ CivetInit /\ LspInit /\ IncInit

\* One component takes a step and the others stay as they are.
RequestPart ==
    /\ part = "request" /\ RequestNext
    /\ UNCHANGED <<part, responseVars, writeVars, staticVars, davVars, lockVars,
                   clientVars, formVars, h2Vars, domainVars, authVars, setupVars,
                   saVars, uriVars, patternVars, messageVars, lwVars, sharedVars,
                   ssiVars, envVars, cvVars, civetVars, lspVars, incVars>>
ResponsePart ==
    /\ part = "response" /\ ResponseNext
    /\ UNCHANGED <<part, requestVars, writeVars, staticVars, davVars, lockVars,
                   clientVars, formVars, h2Vars, domainVars, authVars, setupVars,
                   saVars, uriVars, patternVars, messageVars, lwVars, sharedVars,
                   ssiVars, envVars, cvVars, civetVars, lspVars, incVars>>
WritePart ==
    /\ part = "write" /\ WriteNext
    /\ UNCHANGED <<part, requestVars, responseVars, staticVars, davVars, lockVars,
                   clientVars, formVars, h2Vars, domainVars, authVars, setupVars,
                   saVars, uriVars, patternVars, messageVars, lwVars, sharedVars,
                   ssiVars, envVars, cvVars, civetVars, lspVars, incVars>>
StaticPart ==
    /\ part = "static" /\ StaticNext
    /\ UNCHANGED <<part, requestVars, responseVars, writeVars, davVars, lockVars,
                   clientVars, formVars, h2Vars, domainVars, authVars, setupVars,
                   saVars, uriVars, patternVars, messageVars, lwVars, sharedVars,
                   ssiVars, envVars, cvVars, civetVars, lspVars, incVars>>
DavPart ==
    /\ part = "dav" /\ DavNext
    /\ UNCHANGED <<part, requestVars, responseVars, writeVars, staticVars, lockVars,
                   clientVars, formVars, h2Vars, domainVars, authVars, setupVars,
                   saVars, uriVars, patternVars, messageVars, lwVars, sharedVars,
                   ssiVars, envVars, cvVars, civetVars, lspVars, incVars>>
LocksPart ==
    /\ part = "locks" /\ LocksNext
    /\ UNCHANGED <<part, requestVars, responseVars, writeVars, staticVars, davVars,
                   clientVars, formVars, h2Vars, domainVars, authVars, setupVars,
                   saVars, uriVars, patternVars, messageVars, lwVars, sharedVars,
                   ssiVars, envVars, cvVars, civetVars, lspVars, incVars>>
ClientPart ==
    /\ part = "client" /\ ClientNext
    /\ UNCHANGED <<part, requestVars, responseVars, writeVars, staticVars, davVars,
                   lockVars, formVars, h2Vars, domainVars, authVars, setupVars,
                   saVars, uriVars, patternVars, messageVars, lwVars, sharedVars,
                   ssiVars, envVars, cvVars, civetVars, lspVars, incVars>>
FormPart ==
    /\ part = "form" /\ FormNext
    /\ UNCHANGED <<part, requestVars, responseVars, writeVars, staticVars, davVars,
                   lockVars, clientVars, h2Vars, domainVars, authVars, setupVars,
                   saVars, uriVars, patternVars, messageVars, lwVars, sharedVars,
                   ssiVars, envVars, cvVars, civetVars, lspVars, incVars>>
H2Part ==
    /\ part = "http2" /\ H2Next
    /\ UNCHANGED <<part, requestVars, responseVars, writeVars, staticVars, davVars,
                   lockVars, clientVars, formVars, domainVars, authVars, setupVars,
                   saVars, uriVars, patternVars, messageVars, lwVars, sharedVars,
                   ssiVars, envVars, cvVars, civetVars, lspVars, incVars>>
DomainsPart ==
    /\ part = "domains" /\ DomainsNext
    /\ UNCHANGED <<part, requestVars, responseVars, writeVars, staticVars, davVars,
                   lockVars, clientVars, formVars, h2Vars, authVars, setupVars,
                   saVars, uriVars, patternVars, messageVars, lwVars, sharedVars,
                   ssiVars, envVars, cvVars, civetVars, lspVars, incVars>>
AuthPart ==
    /\ part = "auth" /\ AuthNext
    /\ UNCHANGED <<part, requestVars, responseVars, writeVars, staticVars, davVars,
                   lockVars, clientVars, formVars, h2Vars, domainVars, setupVars,
                   saVars, uriVars, patternVars, messageVars, lwVars, sharedVars,
                   ssiVars, envVars, cvVars, civetVars, lspVars, incVars>>
SetupPart ==
    /\ part = "setup" /\ SetupNext
    /\ UNCHANGED <<part, requestVars, responseVars, writeVars, staticVars, davVars,
                   lockVars, clientVars, formVars, h2Vars, domainVars, authVars,
                   saVars, uriVars, patternVars, messageVars, lwVars, sharedVars,
                   ssiVars, envVars, cvVars, civetVars, lspVars, incVars>>
SaPart ==
    /\ part = "standalone" /\ SaNext
    /\ UNCHANGED <<part, requestVars, responseVars, writeVars, staticVars, davVars,
                   lockVars, clientVars, formVars, h2Vars, domainVars, authVars,
                   setupVars, uriVars, patternVars, messageVars, lwVars, sharedVars,
                   ssiVars, envVars, cvVars, civetVars, lspVars, incVars>>
UriPart ==
    /\ part = "uri" /\ UriNext
    /\ UNCHANGED <<part, requestVars, responseVars, writeVars, staticVars, davVars,
                   lockVars, clientVars, formVars, h2Vars, domainVars, authVars,
                   setupVars, saVars, patternVars, messageVars, lwVars, sharedVars,
                   ssiVars, envVars, cvVars, civetVars, lspVars, incVars>>
PatternsPart ==
    /\ part = "patterns" /\ PatternsNext
    /\ UNCHANGED <<part, requestVars, responseVars, writeVars, staticVars, davVars,
                   lockVars, clientVars, formVars, h2Vars, domainVars, authVars,
                   setupVars, saVars, uriVars, messageVars, lwVars, sharedVars,
                   ssiVars, envVars, cvVars, civetVars, lspVars, incVars>>
MessagePart ==
    /\ part = "messages" /\ MessageNext
    /\ UNCHANGED <<part, requestVars, responseVars, writeVars, staticVars, davVars,
                   lockVars, clientVars, formVars, h2Vars, domainVars, authVars,
                   setupVars, saVars, uriVars, patternVars, lwVars, sharedVars,
                   ssiVars, envVars, cvVars, civetVars, lspVars, incVars>>
LwPart ==
    /\ part = "lua" /\ LwNext
    /\ UNCHANGED <<part, requestVars, responseVars, writeVars, staticVars, davVars,
                   lockVars, clientVars, formVars, h2Vars, domainVars, authVars,
                   setupVars, saVars, uriVars, patternVars, messageVars, sharedVars,
                   ssiVars, envVars, cvVars, civetVars, lspVars, incVars>>
SharedPart ==
    /\ part = "shared" /\ SharedNext
    /\ UNCHANGED <<part, requestVars, responseVars, writeVars, staticVars, davVars,
                   lockVars, clientVars, formVars, h2Vars, domainVars, authVars,
                   setupVars, saVars, uriVars, patternVars, messageVars, lwVars,
                   ssiVars, envVars, cvVars, civetVars, lspVars, incVars>>
SsiPart ==
    /\ part = "ssi" /\ SsiNext
    /\ UNCHANGED <<part, requestVars, responseVars, writeVars, staticVars, davVars,
                   lockVars, clientVars, formVars, h2Vars, domainVars, authVars,
                   setupVars, saVars, uriVars, patternVars, messageVars, lwVars,
                   sharedVars, envVars, cvVars, civetVars, lspVars, incVars>>
EnvPart ==
    /\ part = "cgienv" /\ EnvNext
    /\ UNCHANGED <<part, requestVars, responseVars, writeVars, staticVars, davVars,
                   lockVars, clientVars, formVars, h2Vars, domainVars, authVars,
                   setupVars, saVars, uriVars, patternVars, messageVars, lwVars,
                   sharedVars, ssiVars, cvVars, civetVars, lspVars, incVars>>
CvPart ==
    /\ part = "condvar" /\ CvNext
    /\ UNCHANGED <<part, requestVars, responseVars, writeVars, staticVars, davVars,
                   lockVars, clientVars, formVars, h2Vars, domainVars, authVars,
                   setupVars, saVars, uriVars, patternVars, messageVars, lwVars,
                   sharedVars, ssiVars, envVars, civetVars, lspVars, incVars>>
CivetPart ==
    /\ part = "civet" /\ CivetNext
    /\ UNCHANGED <<part, requestVars, responseVars, writeVars, staticVars, davVars,
                   lockVars, clientVars, formVars, h2Vars, domainVars, authVars,
                   setupVars, saVars, uriVars, patternVars, messageVars, lwVars,
                   sharedVars, ssiVars, envVars, cvVars, lspVars, incVars>>
LspPart ==
    /\ part = "lsp" /\ LspNext
    /\ UNCHANGED <<part, requestVars, responseVars, writeVars, staticVars, davVars,
                   lockVars, clientVars, formVars, h2Vars, domainVars, authVars,
                   setupVars, saVars, uriVars, patternVars, messageVars, lwVars,
                   sharedVars, ssiVars, envVars, cvVars, civetVars, incVars>>
IncPart ==
    /\ part = "include" /\ IncNext
    /\ UNCHANGED <<part, requestVars, responseVars, writeVars, staticVars, davVars,
                   lockVars, clientVars, formVars, h2Vars, domainVars, authVars,
                   setupVars, saVars, uriVars, patternVars, messageVars, lwVars,
                   sharedVars, ssiVars, envVars, cvVars, civetVars, lspVars>>

ComponentsNext ==
    \/ RequestPart \/ ResponsePart \/ WritePart \/ StaticPart \/ DavPart
    \/ LocksPart \/ ClientPart \/ FormPart \/ H2Part \/ DomainsPart
    \/ AuthPart \/ SetupPart \/ SaPart \/ UriPart \/ PatternsPart
    \/ MessagePart \/ LwPart \/ SharedPart \/ SsiPart \/ EnvPart
    \/ CvPart \/ CivetPart \/ LspPart \/ IncPart

-----------------------------------------------------------------------------
(* Constants *)

\* One field of any content of up to five characters, or two of up to two: data and the
\* first character of a boundary.
Contents(n) == UNION {[1..k -> {"d", "r"}]: k \in 0..n}
MCContents == {<<c>>: c \in Contents(5)} \cup {<<c, e>>: c, e \in Contents(2)}

\* Everybody, except the peers outside.
MCAcl == <<[flag |-> "+", net |-> {"in", "out"}], [flag |-> "-", net |-> {"out"}]>>

\* The characters from which texts are made, and how long the texts get.
MCAlphabets == [path |-> {46, 47, 92, 97}, form |-> {97, 61, 38, 43, 37, 52},
                cookie |-> {97, 98, 61, 59, 32, 34}, bytes |-> {0, 1, 63, 255},
                uri |-> {1, 46, 47, 58, 56, 48, 97}]
MCMaxText == [path |-> 6, form |-> 5, cookie |-> 5, bytes |-> 4, uri |-> 5]
MCMessageChars == [headers |-> {"a", ":", " ", "r", "n"}, request |-> {"M", "a", "H", " ", "r", "n"},
                   response |-> {"H", "a", " ", "D", "n"}, quoted |-> {"a", "q", "d", " "}]
MCMaxMessage == [headers |-> 6, request |-> 5, response |-> 6, quoted |-> 6]
MCH2Protocols == {{}, {"h2", "http/1.1"}, {"http/1.0"}}
MCDomain == <<97>>

\* Short Lua pages with every kind of tag, and longer ones with one kind.
LspTexts(chars, n) == UNION {[1..k -> chars]: k \in 1..n}
MCPages == LspTexts({"<", "?", "%", ">", "=", "lua", "x"}, 5) \cup LspTexts({"<", "%", ">", "x"}, 6)

-----------------------------------------------------------------------------
(* Properties of several components *)

\* The functions that read what a client or an administrator wrote: patterns, option lists,
\* sorting, request and status lines, headers, quoted words (match.inl, sort.inl,
\* next_option, parse_http_request, parse_http_headers, skip_quoted).
ParserFunctions ==
    /\ part = "patterns" => MatchExact /\ SortExact /\ ListExact
    /\ part = "messages" => HeadersExact /\ RequestExact /\ QuotedExact
=============================================================================
