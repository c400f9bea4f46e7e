-------------------------------- MODULE Auth --------------------------------
(***************************************************************************)
(* Digest and Basic authentication against a password file, and editing    *)
(* that file.  A worker reads the file line by line (read_auth_file, with  *)
(* :include= lines up to a depth) while another thread rewrites it in      *)
(* place (mg_modify_passwords_file_ha1: read into memory, truncate, write).*)
(* A user stands for the pair of user name and domain, a hash for what     *)
(* mg_md5 makes of user, domain and password.  A nonce is the number       *)
(* start_time + nonce_count under the random mask of one server run.       *)
(***************************************************************************)
EXTENDS Naturals, Sequences, SequencesExt

CONSTANTS AuthUsers,      \* user names of the records and of the requests
          Hashes,         \* password hashes; "none" is no password
          InitialDepth,   \* INITIAL_DEPTH
          MaxNonces,      \* bound: challenges sent in one run
          MaxRuns,        \* bound: server runs
          MaxRecords      \* bound: lines of the password file

ASSUME AuthAssumption ==
    InitialDepth \in Nat \ {0} /\ MaxNonces \in Nat /\ MaxRuns \in Nat \ {0} /\ "none" \notin Hashes

VARIABLES
    passfile,   \* the lines of the password file
    edit,       \* the thread in mg_modify_passwords_file_ha1
    serverRun,  \* which start_time and auth_nonce_mask
    nonce_count,
    issued,     \* history: the nonces of the 401 responses
    auth        \* the request that is being authorized

authVars == <<passfile, edit, serverRun, nonce_count, issued, auth>>

Records == [kind : {"record"}, user : AuthUsers, ha1 : Hashes]

\* A comment line ":#", an include of the file itself, a line with a syntax error.
Comment == [kind |-> "comment"]
Include == [kind |-> "include"]

NoEdit == [at |-> "idle", user |-> "none", ha1 |-> "none", temp |-> <<>>, found |-> FALSE, old |-> <<>>]
NoAuth == [at |-> "idle", user |-> "none", ha1 |-> "none", type |-> 0,
           nonce |-> [run |-> 0, num |-> 0], frames |-> <<>>, seen |-> {}, granted |-> FALSE]

AuthInit ==
    /\ passfile = <<>> /\ edit = NoEdit /\ auth = NoAuth
    /\ serverRun = 1 /\ nonce_count = 0 /\ issued = {}

\* What a request in progress may have seen in the file: every record that was in it since.
Seeing(f) ==
    auth' = IF auth.at = "reading"
            THEN [auth EXCEPT !.seen = @ \cup {f[i] : i \in DOMAIN f}] ELSE auth

-----------------------------------------------------------------------------
(* Editing the password file *)

\* The administrator writes the file with an editor.
AdminWrites(f) ==
    /\ edit.at = "idle" /\ auth.at = "idle"
    /\ passfile' = f
    /\ UNCHANGED <<edit, serverRun, nonce_count, issued, auth>>

\* Mutant: every record of the user is replaced, not only the first one.
RewrittenAll(f, u, h) ==
    LET kept == SelectSeq(f, LAMBDA r : r.kind = "record" /\ (h = "none" => r.user # u))
    IN  [i \in DOMAIN kept |-> IF kept[i].user = u THEN [kept[i] EXCEPT !.ha1 = h] ELSE kept[i]]

IsRecordOf(r, u) == r.kind = "record" /\ r.user = u
HasRecord(f, u) == \E i \in DOMAIN f : IsRecordOf(f[i], u)

\* What the loop copies of line n to memory.  The first record of the user gets the new hash,
\* or is dropped with all the others; a line that is no record does not scan and is skipped.
CopiedLine(f, n, u, h) ==
    IF f[n].kind # "record" THEN <<>>
    ELSE IF f[n].user # u THEN <<f[n]>>
    ELSE IF h = "none" \/ HasRecord(SubSeq(f, 1, n - 1), u) THEN <<>>
    ELSE <<[f[n] EXCEPT !.ha1 = h]>>

Rewritten(f, u, h) == FlattenSeq([n \in DOMAIN f |-> CopiedLine(f, n, u, h)])

\* mg_modify_passwords_file: the arguments are valid and the file is read into memory; a
\* new user is added behind the others.
EditBegin(u, h) ==
    /\ edit.at = "idle"
    /\ edit' = [at |-> "read", user |-> u, ha1 |-> h, old |-> passfile, found |-> HasRecord(passfile, u),
                temp |-> IF h # "none" /\ ~HasRecord(passfile, u)
                         THEN Append(Rewritten(passfile, u, h), [kind |-> "record", user |-> u, ha1 |-> h])
                         ELSE Rewritten(passfile, u, h)]
    /\ UNCHANGED <<passfile, serverRun, nonce_count, issued, auth>>

\* Invalid arguments, a file that is too large or cannot be opened: nothing is changed.
EditRefused ==
    /\ edit.at = "read" /\ edit' = NoEdit
    /\ UNCHANGED <<passfile, serverRun, nonce_count, issued, auth>>

\* fopen(fname, "w").
EditTruncate ==
    /\ edit.at = "read" /\ edit' = [edit EXCEPT !.at = "writing"]
    /\ passfile' = <<>>
    /\ UNCHANGED <<serverRun, nonce_count, issued, auth>>

EditWrite ==
    /\ edit.at = "writing" /\ Len(passfile) < Len(edit.temp)
    /\ passfile' = Append(passfile, edit.temp[Len(passfile) + 1])
    /\ Seeing(passfile')
    /\ UNCHANGED <<edit, serverRun, nonce_count, issued>>

EditDone ==
    /\ edit.at = "writing" /\ Len(passfile) = Len(edit.temp) /\ edit' = [edit EXCEPT !.at = "done"]
    /\ UNCHANGED <<passfile, serverRun, nonce_count, issued, auth>>

\* fchmod, fwrite, fprintf or fclose fails: 0 is returned and the file stays as far as it was
\* written; a new user is added to it all the same.
EditWriteFails ==
    /\ edit.at = "writing" /\ edit' = NoEdit
    /\ \/ passfile' = passfile
       \/ /\ edit.ha1 # "none" /\ ~edit.found /\ Len(passfile) < Len(edit.temp) - 1
          /\ passfile' = Append(passfile, edit.temp[Len(edit.temp)])
    /\ Seeing(passfile')
    /\ UNCHANGED <<serverRun, nonce_count, issued>>

EditReturn ==
    /\ edit.at = "done" /\ edit' = NoEdit
    /\ UNCHANGED <<passfile, serverRun, nonce_count, issued, auth>>

-----------------------------------------------------------------------------
(* Requests *)

\* send_authorization_request: the nonce is taken and counted under the context's mutex.
Challenge ==
    /\ nonce_count < MaxNonces
    /\ issued' = issued \cup {[run |-> serverRun, num |-> nonce_count]}
    /\ nonce_count' = nonce_count + 1
    /\ UNCHANGED <<passfile, edit, serverRun, auth>>

\* The server is stopped and started again, with a new start time and a new mask.
NextRun ==
    /\ serverRun < MaxRuns /\ auth.at = "idle"
    /\ serverRun' = serverRun + 1 /\ nonce_count' = 0
    /\ UNCHANGED <<passfile, edit, issued, auth>>

\* Mutant: the first nonce that was not used yet is accepted too.
ValidNonceOffByOne(n) == n.run = serverRun /\ n.num <= nonce_count

\* parse_auth_header: with this run's mask, a nonce must decode to a number of this run.
ValidNonce(n) == n.run = serverRun /\ n.num < nonce_count

\* The client's Authorization header: Basic, or Digest with a nonce.
AuthRequest(type, u, h, n) ==
    /\ auth.at = "idle"
    /\ auth' = [at |-> "parse", user |-> u, ha1 |-> h, type |-> type, nonce |-> n,
                frames |-> <<>>, seen |-> {}, granted |-> FALSE]
    /\ UNCHANGED <<passfile, edit, serverRun, nonce_count, issued>>

\* The same request, at another place.
AuthGoesTo(at, frames, seen, granted) ==
    auth' = [at |-> at, user |-> auth.user, ha1 |-> auth.ha1, type |-> auth.type, nonce |-> auth.nonce,
             frames |-> frames, seen |-> seen, granted |-> granted]

\* authorize: the header is parsed, then the opened file is read from its beginning.
Parse ==
    /\ auth.at = "parse"
    /\ IF auth.type = 2 /\ ~ValidNonce(auth.nonce)
       THEN AuthGoesTo("end", <<>>, {}, FALSE)
       ELSE AuthGoesTo("reading", <<1>>, {passfile[i] : i \in DOMAIN passfile}, FALSE)
    /\ UNCHANGED <<passfile, edit, serverRun, nonce_count, issued>>

AuthFrame  == auth.frames[Len(auth.frames)]
Outer  == SubSeq(auth.frames, 1, Len(auth.frames) - 1)
AtLine == auth.at = "reading" /\ AuthFrame <= Len(passfile)
Next1(fs) == [fs EXCEPT ![Len(fs)] = @ + 1]

\* read_auth_file returns r: to the including file, which goes on when r is 0, or at last.
AuthReturns(r) ==
    IF r \/ Len(auth.frames) = 1
    THEN AuthGoesTo("end", <<>>, auth.seen, r)
    ELSE AuthGoesTo("reading", Outer, auth.seen, FALSE)

\* The end of the file.
ReadEnd ==
    /\ auth.at = "reading" /\ AuthFrame > Len(passfile)
    /\ AuthReturns(FALSE)
    /\ UNCHANGED <<passfile, edit, serverRun, nonce_count, issued>>

\* A record of another user, or a comment.
ReadSkip ==
    /\ AtLine /\ passfile[AuthFrame].kind # "include"
    /\ passfile[AuthFrame].kind = "record" => passfile[AuthFrame].user # auth.user
    /\ auth' = [auth EXCEPT !.frames = Next1(@)]
    /\ UNCHANGED <<passfile, edit, serverRun, nonce_count, issued>>

\* The user's record decides: check_password_digest, or the hash of the Basic password.
ReadRecord ==
    /\ AtLine /\ passfile[AuthFrame].kind = "record" /\ passfile[AuthFrame].user = auth.user
    /\ AuthReturns(passfile[AuthFrame].ha1 = auth.ha1)
    /\ UNCHANGED <<passfile, edit, serverRun, nonce_count, issued>>

\* :include=, the file is opened once more; at the last depth nothing is read of it.
ReadInclude ==
    /\ AtLine /\ passfile[AuthFrame].kind = "include"
    /\ auth' = [auth EXCEPT !.frames = IF Len(@) < InitialDepth THEN Append(Next1(@), 1) ELSE Next1(@)]
    /\ UNCHANGED <<passfile, edit, serverRun, nonce_count, issued>>

AuthEnd ==
    /\ auth.at = "end" /\ auth' = NoAuth
    /\ UNCHANGED <<passfile, edit, serverRun, nonce_count, issued>>

AuthNext ==
    \/ \E f \in UNION {[1..n -> Records \cup {Comment, Include}] : n \in 0..MaxRecords} : AdminWrites(f)
    \/ \E u \in AuthUsers, h \in Hashes \cup {"none"} : EditBegin(u, h)
    \/ EditRefused \/ EditTruncate \/ EditWrite \/ EditDone \/ EditWriteFails \/ EditReturn
    \/ Challenge \/ NextRun
    \/ \E u \in AuthUsers, h \in Hashes, r \in 1..serverRun, n \in 0..MaxNonces :
         AuthRequest(2, u, h, [run |-> r, num |-> n])
    \/ \E u \in AuthUsers, h \in Hashes : AuthRequest(1, u, h, [run |-> 0, num |-> 0])
    \/ Parse \/ ReadEnd \/ ReadSkip \/ ReadRecord \/ ReadInclude \/ AuthEnd

AuthSpec == AuthInit /\ [][AuthNext]_authVars

-----------------------------------------------------------------------------
(* Properties *)

\* Whatever is written to the file meanwhile, a request is authorized only with a hash that
\* some record of its user in the file had since the request began (civetweb.c
\* read_auth_file), and by Digest only with a nonce that this run of the server has sent
\* (civetweb.c:8994-9004, send_authorization_request).
GrantedByRecord ==
    auth.granted =>
        /\ [kind |-> "record", user |-> auth.user, ha1 |-> auth.ha1] \in auth.seen
        /\ auth.type = 2 => auth.nonce \in issued /\ auth.nonce.run = serverRun

RecordsOf(f, u) == FlattenSeq([n \in DOMAIN f |-> IF IsRecordOf(f[n], u) THEN <<f[n]>> ELSE <<>>])

\* An edit that returns 1 leaves the user with the new hash, or with no record, and every
\* other user's records as they were (civetweb.c mg_modify_passwords_file_ha1).
EditExact ==
    edit.at = "done" =>
        /\ RecordsOf(passfile, edit.user) =
             IF edit.ha1 = "none" THEN <<>>
             ELSE <<[kind |-> "record", user |-> edit.user, ha1 |-> edit.ha1]>>
        /\ \A u \in AuthUsers \ {edit.user} : RecordsOf(passfile, u) = RecordsOf(edit.old, u)

\* An edit keeps the comments and includes that read_auth_file knows (civetweb.c:9080-9092).
\* It does not hold.
SpecialLinesKept ==
    edit.at = "done" =>
        SelectSeq(edit.old, LAMBDA r : r.kind # "record") = SelectSeq(passfile, LAMBDA r : r.kind # "record")

\* Who is let in has a record in the password file and a nonce of this server, and an edit
\* of the file changes the one record it is about.
AuthExact == GrantedByRecord /\ EditExact
=============================================================================
