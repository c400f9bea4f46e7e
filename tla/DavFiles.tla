------------------------------ MODULE DavFiles ------------------------------
(***************************************************************************)
(* The requests that change files - PUT, DELETE, MKCOL, MOVE and COPY, and *)
(* mg_store_body of the application - served by worker threads at the same *)
(* time, one file system call per step.  A file holds BodyLen cells, each  *)
(* with the worker that wrote it; 0: not written, Old: by an earlier one.  *)
(***************************************************************************)
EXTENDS Integers, FiniteSets

CONSTANTS DavWorkers,   \* worker threads, a set of positive numbers
          Names,        \* paths
          BodyLen       \* buffers that the body of a PUT fills

ASSUME DavFilesAssumption ==
    DavWorkers \subseteq Nat \ {0} /\ BodyLen \in Nat \ {0} /\ "none" \notin Names

VARIABLES
    fs,     \* what is at each path: nothing, a directory, or the cells of a file
    dav     \* each worker's request

davVars == <<fs, dav>>

Nothing == [kind |-> "none", cells |-> [k \in 1..BodyLen |-> 0]]
Old     == -1
Dir     == [Nothing EXCEPT !.kind = "dir"]
File    == [Nothing EXCEPT !.kind = "file"]

Idle == [op |-> "none", name |-> "none", dest |-> "none", overwrite |-> FALSE, at |-> "idle",
         wrote |-> 0, status |-> 0, conflict |-> FALSE, replaced |-> FALSE]

DavInit ==
    /\ fs = [n \in Names |-> IF n = "a"
                          THEN [File EXCEPT !.cells = [k \in 1..BodyLen |-> Old]] ELSE Nothing]
    /\ dav = [w \in DavWorkers |-> Idle]

Busy(w) == dav[w].at # "idle"

Touches(r) == {r.name, r.dest} \ {"none"}

\* A request is dispatched to put_file, delete_file, dav_mkcol or dav_move_file.
NewRequest(op, name, dest, overwrite) ==
    [op |-> op, name |-> name, dest |-> dest, overwrite |-> overwrite, at |-> "stat",
     wrote |-> 0, status |-> 0, conflict |-> FALSE, replaced |-> FALSE]

\* conflict is a history flag: another request works on one of its paths.
Rivals(r) == {v \in DavWorkers : Busy(v) /\ Touches(dav[v]) \cap Touches(r) # {}}
InConflict(r, b) == [r EXCEPT !.conflict = b]

DavBegins(w, r) ==
    dav' = [v \in DavWorkers |-> IF v = w THEN InConflict(r, Rivals(r) # {})
                                 ELSE IF v \in Rivals(r) THEN InConflict(dav[v], TRUE)
                                 ELSE dav[v]]

DavStart(w) ==
    /\ dav[w].at = "idle"
    /\ \E op \in {"PUT", "STORE", "DELETE", "MKCOL", "MOVE", "COPY"},
          name \in Names, dest \in Names \cup {"none"}, overwrite \in BOOLEAN :
          /\ (dest # "none" \/ overwrite) => op \in {"MOVE", "COPY"}
          /\ DavBegins(w, NewRequest(op, name, dest, overwrite))
    /\ UNCHANGED fs

Goto(w, at) == dav' = [dav EXCEPT ![w].at = at]

\* A response with the header API, or mg_send_http_error, ends the request.  After an
\* error nothing more of it is told apart.
Respond(r, status) ==
    IF status < 400 THEN [r EXCEPT !.at = "done", !.status = status]
    ELSE [Idle EXCEPT !.at = "done"]

------------------------------------------------------------------------------
(* put_file and mg_store_body                                              *)

\* mg_stat: an existing directory is left alone; a file must be writable; for a
\* new one put_dir makes the directories above it, which may fail.  mg_store_body
\* has only put_dir.
PutStat(w) ==
    /\ dav[w].op \in {"PUT", "STORE"} /\ dav[w].at = "stat"
    /\ LET isDir == fs[dav[w].name].kind = "dir" /\ dav[w].op = "PUT"
       IN  \/ isDir /\ dav' = [dav EXCEPT ![w] = Respond(@, 200)]
           \/ ~isDir /\ dav' = [dav EXCEPT ![w] = Respond(@, 403)]
           \/ ~isDir /\ Goto(w, "open")
    /\ UNCHANGED fs

\* put_dir has made the path itself: its URI ends with a slash.
PutDirectory(w) ==
    /\ dav[w].op \in {"PUT", "STORE"} /\ dav[w].at = "stat" /\ fs[dav[w].name].kind = "none"
    /\ fs' = [fs EXCEPT ![dav[w].name] = Dir]
    /\ dav' = [dav EXCEPT ![w] = Respond(@, 201)]

\* Mutant: what was in the file stays.
PutOpenKeeps(w) ==
    /\ dav[w].op \in {"PUT", "STORE"} /\ dav[w].at = "open"
    /\ \/ /\ fs[dav[w].name].kind # "dir"
          /\ fs' = [fs EXCEPT ![dav[w].name].kind = "file"]
          /\ Goto(w, "expect")
       \/ dav' = [dav EXCEPT ![w] = Respond(@, 500)] /\ UNCHANGED fs

\* fopen for writing empties the file, also for a Content-Range.
PutOpen(w) ==
    /\ dav[w].op \in {"PUT", "STORE"} /\ dav[w].at = "open"
    /\ \/ /\ fs[dav[w].name].kind # "dir"
          /\ fs' = [fs EXCEPT ![dav[w].name] = File]
          /\ Goto(w, "expect")
       \/ dav' = [dav EXCEPT ![w] = Respond(@, 500)] /\ UNCHANGED fs

\* A Content-Range that cannot be sought (500), or an Expect header that is not
\* "100-continue" (417); else forward_body_data overwrites status_code.  After
\* "100 Continue" was sent no other header can follow.
PutExpect(w) ==
    /\ dav[w].at = "expect"
    /\ \/ dav' = [dav EXCEPT ![w] = [@ EXCEPT !.at = "body", !.status = 200]]
       \/ /\ dav[w].op = "PUT"
          /\ dav' = [dav EXCEPT ![w] = [@ EXCEPT !.at = "body", !.status = 100]]
       \/ /\ dav[w].op = "PUT"
          /\ \E status \in {417, 500} : dav' = [dav EXCEPT ![w] = Respond(@, status)]
    /\ UNCHANGED fs

\* A buffer of the body is read and written.  The file may have been removed or
\* renamed meanwhile: then the bytes go to a file without this name.
PutBody(w) ==
    /\ dav[w].at = "body" /\ dav[w].wrote < BodyLen
    /\ LET n == dav[w].name
           k == dav[w].wrote + 1
       IN  /\ fs' = IF fs[n].kind = "file" THEN [fs EXCEPT ![n].cells[k] = w] ELSE fs
           /\ dav' = [dav EXCEPT ![w].wrote = k]

\* Writing fails, or the client closes the connection in the body: put_file answers
\* with an error, mg_store_body removes the bad file.
PutFails(w) ==
    /\ dav[w].at = "body" /\ dav[w].wrote < BodyLen
    /\ dav' = [dav EXCEPT ![w] = Respond(@, 500)]
    /\ fs' = IF dav[w].op = "STORE" THEN [fs EXCEPT ![dav[w].name] = Nothing] ELSE fs

\* mg_read returns 0, at the end of the body, and also when the request timeout
\* passes or the server stops; mg_store_body takes an error (-1) for the end too.
PutEnds(w) ==
    /\ dav[w].at = "body"
    /\ Goto(w, "close")
    /\ UNCHANGED fs

\* fclose may still fail (507, or the file is removed).
PutClose(w) ==
    /\ dav[w].at = "close"
    /\ \/ dav' = [dav EXCEPT ![w] = Respond(@, dav[w].status)] /\ UNCHANGED fs
       \/ /\ dav' = [dav EXCEPT ![w] = Respond(@, 507)]
          /\ fs' = IF dav[w].op = "STORE" THEN [fs EXCEPT ![dav[w].name] = Nothing] ELSE fs

------------------------------------------------------------------------------
(* delete_file and dav_mkcol                                               *)

DeleteStat(w) ==
    /\ dav[w].op = "DELETE" /\ dav[w].at = "stat"
    /\ \/ fs[dav[w].name].kind = "none" /\ dav' = [dav EXCEPT ![w] = Respond(@, 404)]
       \/ fs[dav[w].name].kind = "file" /\ dav' = [dav EXCEPT ![w] = Respond(@, 403)]
       \/ fs[dav[w].name].kind # "none" /\ Goto(w, "remove")
    /\ UNCHANGED fs

\* remove, or remove_directory with what is in it; either may fail.
DeleteRemove(w) ==
    /\ dav[w].op = "DELETE" /\ dav[w].at = "remove"
    /\ \/ /\ fs[dav[w].name].kind # "none"
          /\ fs' = [fs EXCEPT ![dav[w].name] = Nothing]
          /\ dav' = [dav EXCEPT ![w] = Respond(@, 204)]
       \/ dav' = [dav EXCEPT ![w] = Respond(@, 423)] /\ UNCHANGED fs

\* dav_mkcol: a path that exists, or a request with a body, is refused.
MkcolStat(w) ==
    /\ dav[w].op = "MKCOL" /\ dav[w].at = "stat"
    /\ IF fs[dav[w].name].kind # "none"
       THEN dav' = [dav EXCEPT ![w] = Respond(@, 405)]
       ELSE dav' = [dav EXCEPT ![w] = Respond(@, 415)] \/ Goto(w, "mkdir")
    /\ UNCHANGED fs

MkcolMkdir(w) ==
    /\ dav[w].op = "MKCOL" /\ dav[w].at = "mkdir"
    /\ \/ /\ fs[dav[w].name].kind = "none"
          /\ fs' = [fs EXCEPT ![dav[w].name] = Dir]
          /\ dav' = [dav EXCEPT ![w] = Respond(@, 201)]
       \/ dav' = [dav EXCEPT ![w] = Respond(@, 409)] /\ UNCHANGED fs

------------------------------------------------------------------------------
(* dav_move_file                                                           *)

\* Mutant: an existing destination is always accepted.
MoveStatAny(w) ==
    /\ dav[w].op \in {"MOVE", "COPY"} /\ dav[w].at = "stat"
    /\ \/ dav' = [dav EXCEPT ![w] = Respond(@, 502)]
       \/ dav[w].dest # "none" /\ Goto(w, "rename")
    /\ UNCHANGED fs

\* The destination: missing, not at this server, there already, or free.
MoveStat(w) ==
    /\ dav[w].op \in {"MOVE", "COPY"} /\ dav[w].at = "stat"
    /\ \/ dav' = [dav EXCEPT ![w] = Respond(@, 502)]
       \/ /\ dav[w].dest # "none"
          /\ IF fs[dav[w].dest].kind = "none" THEN Goto(w, "rename")
             ELSE IF dav[w].overwrite THEN Goto(w, "overwrite")
             ELSE dav' = [dav EXCEPT ![w] = Respond(@, 412)]
    /\ UNCHANGED fs

\* "Overwrite allowed: delete the file first".
MoveOverwrite(w) ==
    /\ dav[w].at = "overwrite"
    /\ \/ /\ fs[dav[w].dest].kind # "none"
          /\ fs' = [fs EXCEPT ![dav[w].dest] = Nothing]
          /\ Goto(w, "rename")
       \/ dav' = [dav EXCEPT ![w] = Respond(@, 403)] /\ UNCHANGED fs

\* rename replaces a file that has come into being at the destination.
MoveRename(w) ==
    /\ dav[w].op = "MOVE" /\ dav[w].at = "rename"
    /\ LET src == dav[w].name
           dst == dav[w].dest
       IN  \/ /\ fs[src].kind # "none" /\ src # dst
              /\ fs[dst].kind # "dir" /\ (fs[src].kind = "dir" => fs[dst].kind = "none")
              /\ fs' = [fs EXCEPT ![dst] = fs[src], ![src] = Nothing]
              /\ dav' = [dav EXCEPT ![w] = [Respond(@, 204) EXCEPT
                                               !.replaced = fs[dst].kind # "none"]]
           \/ dav' = [dav EXCEPT ![w] = Respond(@, 409)] /\ UNCHANGED fs

\* "TODO: COPY for Linux."
CopyForbidden(w) ==
    /\ dav[w].op = "COPY" /\ dav[w].at = "rename"
    /\ dav' = [dav EXCEPT ![w] = Respond(@, 403)]
    /\ UNCHANGED fs

\* What the request has written is the content of an old file from now on.
DavDone(w) ==
    /\ dav[w].at = "done"
    /\ dav' = [dav EXCEPT ![w] = Idle]
    /\ fs' = [n \in Names |-> [fs[n] EXCEPT
                !.cells = [k \in 1..BodyLen |-> IF @[k] = w THEN Old ELSE @[k]]]]

DavNext ==
    \E w \in DavWorkers :
        \/ DavStart(w) \/ PutStat(w) \/ PutDirectory(w) \/ PutOpen(w) \/ PutExpect(w)
        \/ PutBody(w) \/ PutFails(w) \/ PutEnds(w) \/ PutClose(w) \/ DeleteStat(w) \/ DeleteRemove(w) \/ MkcolStat(w) \/ MkcolMkdir(w)
        \/ MoveStat(w) \/ MoveOverwrite(w) \/ MoveRename(w) \/ CopyForbidden(w) \/ DavDone(w)

DavSpec == DavInit /\ [][DavNext]_davVars

------------------------------------------------------------------------------
(***************************************************************************)
(* The WebDAV locks of dav_lock_file and dav_unlock_file: a table of       *)
(* NUM_WEBDAV_LOCKS slots in the context.  LOCK and UNLOCK search it under *)
(* mg_lock_context; the answer to a LOCK is read from the slot after the   *)
(* mutex was released.  A slot has the age of its locktime, in ticks, up   *)
(* to the first one at which the lock is expired.                          *)
(***************************************************************************)

CONSTANTS NumLocks,       \* NUM_WEBDAV_LOCKS
          LockDuration,   \* LOCK_DURATION_S, in ticks
          LockUsers,      \* remote_user of the requests
          LockPaths,      \* links of the requests
          LockWorkers     \* worker threads

ASSUME DavLocksAssumption ==
    NumLocks \in Nat \ {0} /\ LockDuration \in Nat /\ "none" \notin LockUsers \cup LockPaths

VARIABLES
    dav_lock,   \* the slots: path ("none": free), user, age
    lockReq     \* each worker's request

lockVars == <<dav_lock, lockReq>>

Slots   == 1..NumLocks
Expired == LockDuration + 1

FreeSlot  == [path |-> "none", user |-> "none", age |-> Expired]
NoLockReq == [at |-> "idle", path |-> "none", user |-> "none", slot |-> 0, got |-> FreeSlot,
              status |-> 0]

LocksInit ==
    /\ dav_lock = [i \in Slots |-> FreeSlot]
    /\ lockReq = [w \in LockWorkers |-> NoLockReq]

\* What print_props lists as active locks of a link.
activelocks(p) == {i \in Slots : dav_lock[i].path = p}

LockTick ==
    /\ dav_lock' = [i \in Slots |-> [dav_lock[i] EXCEPT !.age = IF @ < Expired THEN @ + 1 ELSE @]]
    /\ dav_lock' # dav_lock
    /\ UNCHANGED lockReq

LowestSlot(S) == CHOOSE i \in S : \A j \in S : i <= j

\* The slots that the search for existing locks looks at: up to the first that the
\* same user holds.
Searched(p, u) ==
    LET own == {i \in activelocks(p) : dav_lock[i].user = u}
    IN  {i \in activelocks(p) : own = {} \/ i <= LowestSlot(own)}

Foreign(p, u) == {i \in Searched(p, u) : dav_lock[i].user # u}

\* Mutant: an expired lock of another user stays where it is.
SearchedTableKeeps(p, u) ==
    [i \in Slots |-> IF i \in Searched(p, u) \ Foreign(p, u)
                     THEN [dav_lock[i] EXCEPT !.age = 0] ELSE dav_lock[i]]

\* The table after that search: expired locks of others are removed, the own one
\* is refreshed.
SearchedTable(p, u) ==
    [i \in Slots |-> IF i \in Foreign(p, u) THEN [dav_lock[i] EXCEPT !.path = "none"]
                     ELSE IF i \in Searched(p, u) THEN [dav_lock[i] EXCEPT !.age = 0]
                     ELSE dav_lock[i]]

Granted(w, p, u, slot, table) ==
    /\ dav_lock' = table
    /\ lockReq' = [lockReq EXCEPT ![w] = [at |-> "respond", path |-> p, user |-> u, slot |-> slot,
                                          got |-> table[slot], status |-> 200]]

\* dav_lock_file.  A free slot is taken even if the user's lock was just refreshed;
\* without one the refreshed lock is used, or the oldest lock is invalidated - and
\* the loop ends, since lock_index is set.
dav_lock_file(w, p, u) ==
    LET table == SearchedTable(p, u)
        free  == {i \in Slots : table[i].path = "none"}
        own   == Searched(p, u) \ Foreign(p, u)
        refused == {i \in Foreign(p, u) : dav_lock[i].age < Expired}
    IN  IF refused # {}
        THEN /\ lockReq' = [lockReq EXCEPT ![w] = [NoLockReq EXCEPT !.at = "done", !.status = 423]]
             /\ dav_lock' = [i \in Slots |-> IF i \in Foreign(p, u) /\ i < LowestSlot(refused)
                                             THEN table[i] ELSE dav_lock[i]]
        ELSE IF free # {}
        THEN Granted(w, p, u, LowestSlot(free),
                     [table EXCEPT ![LowestSlot(free)] = [path |-> p, user |-> u, age |-> 0]])
        ELSE IF own # {}
        THEN Granted(w, p, u, LowestSlot(own), table)
        ELSE \E i \in Slots :
                /\ \A j \in Slots : table[j].age <= table[i].age
                /\ Granted(w, p, u, i, [table EXCEPT ![i].path = "none"])

Lock(w) ==
    /\ lockReq[w].at = "idle"
    /\ \E p \in LockPaths, u \in LockUsers : dav_lock_file(w, p, u)

\* The answer to the LOCK is made from the slot.
LockRespond(w) ==
    /\ lockReq[w].at = "respond"
    /\ lockReq' = [lockReq EXCEPT ![w] = [NoLockReq EXCEPT !.at = "done", !.status = 200]]
    /\ UNCHANGED dav_lock

\* dav_unlock_file: the lock is looked for, and left where it is.
Unlock(w) ==
    /\ lockReq[w].at = "idle"
    /\ \E p \in LockPaths :
          lockReq' = [lockReq EXCEPT ![w].at = "done",
                                     ![w].status = IF activelocks(p) # {} THEN 204 ELSE 423]
    /\ UNCHANGED dav_lock

\* handle_propfind and dav_proppatch read the locks, or refuse all properties.
DavProperties(w) ==
    /\ lockReq[w].at = "idle"
    /\ lockReq' = [lockReq EXCEPT ![w].at = "done", ![w].status = 207]
    /\ UNCHANGED dav_lock

LockDone(w) ==
    /\ lockReq[w].at = "done"
    /\ lockReq' = [lockReq EXCEPT ![w] = NoLockReq]
    /\ UNCHANGED dav_lock

LocksNext ==
    \/ LockTick
    \/ \E w \in LockWorkers :
          Lock(w) \/ LockRespond(w) \/ Unlock(w) \/ DavProperties(w) \/ LockDone(w)

LocksSpec == LocksInit /\ [][LocksNext]_lockVars

------------------------------------------------------------------------------
(* Properties                                                              *)

\* put_file or mg_store_body has reported success for a file.
Stored(w) ==
    /\ dav[w].at = "done" /\ dav[w].op \in {"PUT", "STORE"}
    /\ dav[w].status \in {100, 200} /\ ~dav[w].conflict
    /\ fs[dav[w].name].kind = "file"

\* After a PUT that was answered with success the file holds what was read of the
\* body, in order, and nothing of an earlier file - unless another request worked
\* on the same path meanwhile (there is no lock on files).
PutStored ==
    \A w \in DavWorkers : Stored(w) =>
        fs[dav[w].name].cells = [k \in 1..BodyLen |-> IF k <= dav[w].wrote THEN w ELSE 0]

\* "Each error code path in this function must send an error" (forward_body_data):
\* a PUT is answered with success only when the whole body was read.  It does not hold:
\* mg_read returns 0 also after a timeout, and the body is taken to be complete.
PutComplete ==
    \A w \in DavWorkers : Stored(w) /\ dav[w].op = "PUT" => dav[w].wrote = BodyLen

\* A MOVE without "Overwrite: T" replaces no file, unless another request works on
\* its paths: stat and rename are two steps.
NoSilentOverwrite ==
    \A w \in DavWorkers :
        dav[w].replaced => dav[w].overwrite \/ dav[w].conflict

\* All active locks of a link belong to one user, expired ones included: what
\* print_props lists is one owner's, though a refresh adds a second entry and the
\* search ends at the first own one.
LockExclusive ==
    \A p \in LockPaths : \A i, j \in activelocks(p) : dav_lock[i].user = dav_lock[j].user

\* A LOCK that is answered with 200 leaves the search with a lock of this user on
\* this link ("Find a slot for a lock", dav_lock_file).  It does not hold with a full table.
LockGranted ==
    \A w \in LockWorkers :
        lockReq[w].at = "respond" => /\ lockReq[w].got.path = lockReq[w].path
                                     /\ lockReq[w].got.user = lockReq[w].user

\* Of several workers that write by WebDAV at a time: a PUT that succeeded is stored under
\* its name, MOVE and COPY overwrite only what they may, and two users never have a lock on
\* one path (put_file, dav_move_file, dav_lock_file).
DavSafe == PutStored /\ NoSilentOverwrite /\ LockExclusive
=============================================================================
