------------------------------ MODULE Request ------------------------------
(***************************************************************************)
(* handle_request: from a parsed request to the function that answers it.  *)
(* What the configuration, the file system, the credentials and the        *)
(* callbacks say is chosen where the code asks for it; what the code then  *)
(* remembers is state.  A path is the file the URI names ("target"), the   *)
(* index file of that directory, a script above the target ("script"), its *)
(* .gz, or "" when no file was looked for.                                 *)
(***************************************************************************)
EXTENDS Integers

VARIABLES
    request,   \* method, websocket; document_root and enable_webdav of the domain
    rpc,       \* the step of handle_request
    is,        \* the flags of handle_request and interpret_uri
    path,      \* the file that interpret_uri found
    ext,       \* the kind of the file at path: script, template or plain text
    passed,    \* the authorization checks that this request has passed
    answer     \* the function that answers

requestVars == <<request, rpc, is, path, ext, passed, answer>>

Methods == {"GET", "HEAD", "POST", "OPTIONS", "PROPFIND", "PUT", "DELETE", "MKCOL", "PATCH",
            "MOVE", "COPY", "LOCK", "UNLOCK", "PROPPATCH"}

is_put_or_delete_method(m) ==
    m \in {"PUT", "DELETE", "MKCOL", "PATCH", "LOCK", "UNLOCK", "PROPPATCH", "MOVE", "COPY"}

\* Mutant: MOVE and COPY are forgotten.
no_move_method(m) == m \in {"PROPFIND", "PROPPATCH", "LOCK", "UNLOCK"}

is_civetweb_webdav_method(m) ==
    m \in {"PROPFIND", "PROPPATCH", "LOCK", "UNLOCK", "MOVE", "COPY"}

Exts == {"plain", "script", "template"}

NoFlags == [found |-> FALSE, script |-> FALSE, websocket |-> FALSE, put |-> FALSE,
            webdav |-> FALSE, template |-> FALSE, dir |-> FALSE, bare |-> FALSE, callback |-> FALSE]

NoRequestYet == [method |-> "GET", websocket |-> FALSE, root |-> FALSE, webdav |-> FALSE]

RequestInit ==
    /\ request = NoRequestYet
    /\ rpc = "idle"
    /\ is = NoFlags
    /\ path = "" /\ ext = "plain"
    /\ passed = {}
    /\ answer = "none"

Answer(a) == answer' = a /\ rpc' = "done"

\* should_switch_to_protocol has set the protocol.
Arrive ==
    /\ rpc = "idle"
    /\ request' \in [method : Methods, websocket : BOOLEAN, root : BOOLEAN, webdav : BOOLEAN]
    /\ rpc' = "begin"
    /\ UNCHANGED <<is, path, ext, passed, answer>>

\* 1.2 A redirect to the https port, or the error that there is none; and 1.4 no
\* memory for the URI without dot segments.
HttpsRedirect ==
    /\ rpc = "begin"
    /\ \E a \in {"redirect", "error", "nothing"} : Answer(a)
    /\ UNCHANGED <<request, is, path, ext, passed>>

\* 3. The begin_request callback: it has handled the request (> 0), refuses it
\* (< 0), or (0, or no callback) the server goes on.
BeginRequest ==
    /\ rpc = "begin"
    /\ \/ Answer("served")
       \/ Answer("nothing")
       \/ rpc' = "preflight" /\ UNCHANGED answer
    /\ UNCHANGED <<request, is, path, ext, passed>>

\* 4. A CORS preflight that the configuration says to answer here.
Preflight ==
    /\ rpc = "preflight"
    /\ \/ request.method = "OPTIONS" /\ Answer("preflight")
       \/ rpc' = "find" /\ UNCHANGED answer
    /\ UNCHANGED <<request, is, path, ext, passed>>

\* 5.2 get_request_handler finds a callback, or the URI is looked for in the file
\* system.
FindCallback ==
    /\ rpc = "find"
    /\ \/ /\ is' = [NoFlags EXCEPT !.callback = TRUE, !.script = TRUE,
                                   !.websocket = request.websocket,
                                   !.put = is_put_or_delete_method(request.method)]
          /\ rpc' = "webdav"
       \/ is' = NoFlags /\ rpc' = "interpret"
    /\ UNCHANGED <<request, path, ext, passed, answer>>

------------------------------------------------------------------------------
(* interpret_uri                                                           *)

Classified ==
    [NoFlags EXCEPT !.websocket = request.websocket,
                    !.put = is_put_or_delete_method(request.method),
                    !.webdav = is_civetweb_webdav_method(request.method)]

Interpreted(flags, p, e) ==
    /\ is' = flags /\ path' = p /\ ext' = e
    /\ rpc' = "webdav"
    /\ UNCHANGED <<request, passed, answer>>

\* A name does not fit, or no memory: all outputs are reset but is_webdav_request.
InterpretCleanup ==
    /\ rpc = "interpret"
    /\ Interpreted([NoFlags EXCEPT !.webdav = Classified.webdav], "", "plain")

\* Nothing is found under the roots, beside them or above; path is the name under
\* the last root.
InterpretNothing ==
    /\ rpc = "interpret"
    /\ Interpreted(Classified, IF request.root THEN "target" ELSE "", "plain")

\* 8.2, 8.3: a script is run and a template is expanded, unless the request is to
\* replace or delete the file.
ScriptFlags(e) ==
    [Classified EXCEPT !.found = TRUE,
                       !.script = e = "script" /\ ~Classified.put,
                       !.template = e = "template" /\ ~Classified.put]

\* A websocket may have a root of its own.
HasRoot == request.root \/ request.websocket

\* 8. The file exists; a directory may have any name, and the URI ends with a slash
\* or not.
InterpretFound ==
    /\ rpc = "interpret" /\ HasRoot
    /\ \E e \in Exts, dir, bare \in BOOLEAN :
          Interpreted([ScriptFlags(e) EXCEPT !.dir = dir, !.bare = dir /\ bare], "target", e)

\* 8.4 An index file is there for the directory, but not for a webdav method.
InterpretIndex ==
    /\ rpc = "interpret" /\ HasRoot /\ ~Classified.webdav
    /\ \E d, e \in Exts :
          LET flags == ScriptFlags(d)
          IN  Interpreted([flags EXCEPT !.script = IF e = "script" THEN TRUE
                                                   ELSE IF e = "template" THEN @ ELSE FALSE,
                                        !.template = @ \/ e = "template"], "index", e)

\* 9. The .gz of a file that does not exist.
InterpretGzip ==
    /\ rpc = "interpret" /\ HasRoot
    /\ Interpreted([Classified EXCEPT !.found = TRUE], "gz", "plain")

\* 10. A script above the target, or the index script of a directory above it
\* (allow_index_script_resource): the rest of the URI is its PATH_INFO.
InterpretSubResource ==
    /\ rpc = "interpret" /\ HasRoot
    /\ Interpreted([Classified EXCEPT !.script = TRUE, !.found = TRUE], "script", "script")

------------------------------------------------------------------------------
(* Authorization                                                           *)

\* 5.3 The methods of WebDAV need enable_webdav.
WebdavAllowed ==
    /\ rpc = "webdav"
    /\ IF is.webdav /\ ~request.webdav
       THEN Answer("error")
       ELSE rpc' = "authorize" /\ UNCHANGED answer
    /\ UNCHANGED <<request, is, path, ext, passed>>

\* 6.1 A custom authorization handler decides alone.
AuthHandler ==
    /\ rpc = "authorize"
    /\ \/ Answer("rejected") /\ UNCHANGED passed
       \/ /\ passed' = passed \cup {<<"handler", path>>}
          /\ rpc' = "dispatch" /\ UNCHANGED answer
    /\ UNCHANGED <<request, is, path, ext>>

\* Mutant: only a file that exists is protected.
WritesOldFile == is.put /\ ~is.script /\ ~is.callback /\ is.found

\* The request is to change a file.
WritesFile == is.put /\ ~is.script /\ ~is.callback

\* 6.2 PUT and DELETE of a file need document_root, put_delete_auth_file and a
\* user in it.
AuthorizePut ==
    /\ rpc = "authorize" /\ WritesFile
    /\ \/ Answer("error") /\ UNCHANGED passed
       \/ request.root /\ Answer("unauthorized") /\ UNCHANGED passed
       \/ /\ request.root
          /\ passed' = passed \cup {<<"put", path>>}
          /\ rpc' = "dispatch" /\ UNCHANGED answer
    /\ UNCHANGED <<request, is, path, ext>>

\* 6.3 check_authorization: protect_uri or the password file of the directory of
\* path has this user, or there is none.
CheckAuthorization ==
    /\ rpc = "authorize" /\ ~WritesFile
    /\ \/ Answer("unauthorized") /\ UNCHANGED passed
       \/ /\ passed' = passed \cup {<<"read", path>>}
          /\ rpc' = "dispatch" /\ UNCHANGED answer
    /\ UNCHANGED <<request, is, path, ext>>

------------------------------------------------------------------------------
(* Dispatch                                                                *)

\* Mutant: behind a callback that declines, the file is served at once.
CallbackDeclinesOpen ==
    /\ rpc = "dispatch" /\ is.callback
    /\ \/ ~is.websocket /\ Answer("served") /\ UNCHANGED <<is, path, ext>>
       \/ is.websocket /\ Answer("websocket") /\ UNCHANGED <<is, path, ext>>
       \/ /\ ~is.websocket
          /\ is' = [Classified EXCEPT !.found = TRUE]
          /\ path' = "target" /\ ext' = "plain"
          /\ UNCHANGED <<rpc, answer>>
    /\ UNCHANGED <<request, passed>>

\* 7. The callback serves the request or declines; then the file with this URI is
\* looked for, with its own authorization.
RunCallback ==
    /\ rpc = "dispatch" /\ is.callback
    /\ \/ ~is.websocket /\ Answer("served")
       \/ is.websocket /\ Answer("websocket")
       \/ ~is.websocket /\ rpc' = "interpret" /\ UNCHANGED answer
    /\ UNCHANGED <<request, is, path, ext, passed>>

\* 8. A websocket script, in the script path.
WebsocketScript ==
    /\ rpc = "dispatch" /\ ~is.callback /\ is.websocket
    /\ \/ is.script /\ Answer("script")
       \/ Answer("error")
    /\ UNCHANGED <<request, is, path, ext, passed>>

ForFile == rpc = "dispatch" /\ ~is.callback /\ ~is.websocket

\* handle_file_based_request: by the extension, and only in the script path.
FileBased(e) == CASE e = "script"   -> {"script", "error"}
                  [] e = "template" -> {"ssi", "error"}
                  [] e = "plain"    -> {"static", "not_modified"}

\* 9b. No document_root; 10. a script.
RunScript ==
    /\ ForFile
    /\ \/ ~request.root /\ Answer("error")
       \/ request.root /\ is.script /\ \E a \in FileBased(ext) : Answer(a)
    /\ UNCHANGED <<request, is, path, ext, passed>>

\* 11. put_file, delete_file, dav_mkcol, dav_move_file, dav_lock_file, ...; PATCH
\* is not supported.
ChangeTheFile ==
    /\ ForFile /\ request.root /\ ~is.script /\ is.put
    /\ Answer(IF request.method = "PATCH" THEN "error" ELSE request.method)
    /\ UNCHANGED <<request, is, path, ext, passed>>

ForRead == ForFile /\ request.root /\ ~is.script /\ ~is.put

\* 11. Not found or hidden; 12. a directory without a slash; 13.3 other methods.
NotThis ==
    /\ ForRead
    /\ \/ Answer("error")
       \/ is.found /\ is.bare /\ Answer("redirect")
    /\ UNCHANGED <<request, is, path, ext, passed>>

\* 13. PROPFIND and OPTIONS.
ReadProperties ==
    /\ ForRead /\ is.found /\ ~is.bare
    /\ request.method \in {"PROPFIND", "OPTIONS"}
    /\ Answer(request.method)
    /\ UNCHANGED <<request, is, path, ext, passed>>

\* Mutant: a template is sent as it is.
ReadFilePlain ==
    /\ ForRead /\ is.found /\ ~is.bare
    /\ request.method \in {"GET", "HEAD"}
    /\ \/ is.dir /\ Answer("listing")
       \/ ~is.dir /\ \E a \in FileBased("plain") : Answer(a)
    /\ UNCHANGED <<request, is, path, ext, passed>>

\* 14. A listing; 15. a template; 16., 17. the file or 304.
ReadFile ==
    /\ ForRead /\ is.found /\ ~is.bare
    /\ request.method \in {"GET", "HEAD"}
    /\ \/ is.dir /\ Answer("listing")
       \/ ~is.dir /\ is.template /\ \E a \in FileBased(ext) : Answer(a)
       \/ ~is.dir /\ ~is.template /\ \E a \in FileBased("plain") : Answer(a)
    /\ UNCHANGED <<request, is, path, ext, passed>>

RequestDone ==
    /\ rpc = "done"
    /\ rpc' = "idle"
    /\ request' = NoRequestYet /\ is' = NoFlags /\ path' = "" /\ ext' = "plain"
    /\ passed' = {} /\ answer' = "none"

RequestNext ==
    \/ Arrive \/ HttpsRedirect \/ BeginRequest \/ Preflight \/ FindCallback
    \/ InterpretCleanup \/ InterpretNothing
    \/ InterpretFound \/ InterpretIndex \/ InterpretGzip \/ InterpretSubResource
    \/ WebdavAllowed \/ AuthHandler \/ AuthorizePut \/ CheckAuthorization
    \/ RunCallback \/ WebsocketScript \/ RunScript \/ ChangeTheFile \/ NotThis
    \/ ReadProperties \/ ReadFile \/ RequestDone

RequestSpec == RequestInit /\ [][RequestNext]_requestVars

------------------------------------------------------------------------------
(* Properties                                                              *)

Writes == {"PUT", "DELETE", "MKCOL", "MOVE", "COPY", "LOCK", "UNLOCK", "PROPPATCH"}
Reads  == {"static", "not_modified", "listing", "script", "ssi", "PROPFIND", "OPTIONS"}

\* A file is changed only for a user of put_delete_auth_file or with the consent
\* of the authorization handler, given for that very file - also behind a
\* callback that declined, and whichever flags interpret_uri has set.
WriteAuthorized ==
    answer \in Writes => passed \cap {<<"handler", path>>, <<"put", path>>} # {}

\* A file is read, listed or run only when the check of its own directory's
\* password file (or protect_uri, or the authorization handler) was passed; the
\* check made for a callback that declined does not count.
ReadAuthorized ==
    answer \in Reads => passed \cap {<<"handler", path>>, <<"read", path>>} # {}

\* The text of a script or of a template is never sent as a static file.
SourceHidden == answer = "static" => ext = "plain"

\* WebDAV methods reach a file only with enable_webdav.
WebdavEnabled ==
    answer \in {"MOVE", "COPY", "LOCK", "UNLOCK", "PROPPATCH", "PROPFIND"} => request.webdav

\* A request changes or reads what handle_request has to protect only after the checks for
\* it: passwords for writing and reading, script sources, the methods of WebDAV.
AccessControlled == WriteAuthorized /\ ReadAuthorized /\ SourceHidden /\ WebdavEnabled
=============================================================================
