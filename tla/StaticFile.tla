----------------------------- MODULE StaticFile -----------------------------
(***************************************************************************)
(* handle_static_file_request and send_file_data: the answer to a GET or   *)
(* HEAD of a file, whole or a range of it, plain or pre-compressed, sent   *)
(* with sendfile() and by reading, while the file may change on disk.      *)
(* A file is its size; its bytes are the positions 0..size-1.              *)
(***************************************************************************)
EXTENDS Integers, Sequences

CONSTANTS MaxSize,      \* bound: size of a file
          SizeLimit     \* MG_FILE_COMPRESSION_SIZE_LIMIT

ASSUME StaticFileAssumption == MaxSize \in Nat /\ SizeLimit \in Nat

VARIABLES
    disk,    \* the sizes of the file and of its .gz; -1: not there
    get,     \* the request: method, range, gzip; the path that is opened, and what
             \* filep->stat says: is_gzipped and size
    out,     \* the answer: status, Content-Length, the body sent so far
    sfpc     \* where handle_static_file_request is

staticVars == <<disk, get, out, sfpc>>

NoGet == [head |-> FALSE, n |-> 0, r1 |-> 0, r2 |-> 0, accept_gzip |-> FALSE,
          file |-> "plain", is_gzipped |-> FALSE, size |-> 0]
NoOut == [status |-> 0, cl |-> 0, body |-> <<>>, offset |-> 0, len |-> 0,
          loops |-> 0, fault |-> FALSE]

StaticInit ==
    /\ disk = [plain |-> 0, gz |-> -1]
    /\ get = NoGet
    /\ out = NoOut
    /\ sfpc = "idle"

Sizes == -1..MaxSize

\* A request for the file, or for its .gz if there is no such file; the range is
\* what sscanf finds: n = 2 "bytes=r1-r2", 1 "bytes=r1-", -1 neither; 0: no header.
GetFile ==
    /\ sfpc = "idle"
    /\ \E plain, gz \in Sizes, head, accept \in BOOLEAN, n \in -1..2,
          r1 \in -1..MaxSize, r2 \in -1..(MaxSize + 1) :
          /\ plain >= 0 \/ (accept /\ gz >= 0)
          /\ (n <= 0 => r1 = 0) /\ (n < 2 => r2 = 0)
          /\ disk' = [plain |-> plain, gz |-> gz]
          /\ get' = [head |-> head, n |-> n, r1 |-> r1, r2 |-> r2, accept_gzip |-> accept,
                     file |-> IF plain = -1 THEN "gz" ELSE "plain", is_gzipped |-> plain = -1,
                     size |-> IF plain = -1 THEN gz ELSE plain]
    /\ out' = NoOut
    /\ sfpc' = "choose"

\* The request, with the path to open and what stat says of it.
Chosen(file, zipped, size) ==
    [head |-> get.head, n |-> get.n, r1 |-> get.r1, r2 |-> get.r2, accept_gzip |-> get.accept_gzip,
     file |-> file, is_gzipped |-> zipped, size |-> size]

\* The answer before anything of the body is sent.
AnswerWith(status, cl, offset, len) ==
    [status |-> status, cl |-> cl, body |-> <<>>, offset |-> offset, len |-> len,
     loops |-> 0, fault |-> out.fault]

\* The .gz beside the file is taken if the client accepts it, there is no range
\* header and the file is large.
GzBeside == /\ ~get.is_gzipped /\ get.accept_gzip /\ get.n = 0
            /\ get.size >= SizeLimit /\ disk.gz >= 0

\* The path and the Content-Length are chosen before the file is opened.
StaticChoose ==
    /\ sfpc = "choose"
    /\ get' = IF GzBeside THEN Chosen("gz", TRUE, disk.gz) ELSE get
    /\ out' = AnswerWith(200, get'.size, 0, 0)
    /\ sfpc' = "open"
    /\ UNCHANGED disk

\* mg_fopen has mg_stat fill filep->stat anew: is_gzipped is cleared (memset), and
\* the size is the one of now, while cl stays.
StaticOpen ==
    /\ sfpc = "open" /\ disk[get.file] >= 0
    /\ get' = Chosen(get.file, FALSE, disk[get.file])
    /\ sfpc' = "range"
    /\ UNCHANGED <<disk, out>>

\* The file cannot be opened: the answer is 500.
StaticOpenFails ==
    /\ sfpc = "open"
    /\ out' = [out EXCEPT !.status = 500]
    /\ sfpc' = "error"
    /\ UNCHANGED <<disk, get>>

HasRange == get.n > 0 /\ get.r1 >= 0 /\ get.r2 >= 0

Smallest(a, b) == IF a > b THEN b ELSE a

\* cl = (n == 2) ? (((r2 > cl) ? cl : r2) - r1 + 1) : (cl - r1)
RangeLength == IF get.n = 2 THEN Smallest(get.r2, out.cl) - get.r1 + 1 ELSE out.cl - get.r1

\* "Sanity check the offset".
FirstByte == IF get.r1 < 0 THEN 0 ELSE Smallest(get.r1, get.size)

\* 416 is meant for a range of a pre-compressed file, but mg_fopen has cleared
\* is_gzipped by then: every range is answered with 206.
StatusOf == IF ~HasRange THEN 200 ELSE IF get.is_gzipped THEN 416 ELSE 206

\* The header is sent: Content-Length and Content-Range; HEAD ends here.  The
\* offset is r1, also of a range that was refused ("bytes=1--1"), limited by the
\* size that mg_fopen found.
StaticHeader ==
    /\ sfpc = "range"
    /\ LET cl == IF HasRange THEN RangeLength ELSE out.cl
       IN  out' = AnswerWith(StatusOf, cl, FirstByte, cl)
    /\ sfpc' \in IF StatusOf = 416 THEN {"error"}
                 ELSE IF get.head \/ out'.len <= 0 THEN {"close"} ELSE {"sendfile", "seek"}
    /\ UNCHANGED <<disk, get>>

FileSize == disk[get.file]

Bytes(n) == [k \in 1..n |-> out.offset + k - 1]

\* n bytes of the file are sent from the offset.
Send(n, loops) ==
    [status |-> out.status, cl |-> out.cl, body |-> out.body \o Bytes(n), offset |-> out.offset + n,
     len |-> out.len - n, loops |-> loops, fault |-> out.fault]

\* sendfile sends some of the bytes that are left in the file.
SendFile ==
    /\ sfpc = "sendfile"
    /\ \E n \in 1..Smallest(out.len, FileSize - out.offset) :
          /\ out' = Send(n, 1)
          /\ sfpc' = IF out.len = n THEN "close" ELSE "sendfile"
    /\ UNCHANGED <<disk, get>>

\* sendfile sends nothing: in the first round it is not possible for this file,
\* later the file has ended.
SendFileNothing ==
    /\ sfpc = "sendfile"
    /\ out.offset >= FileSize \/ out.loops = 0
    /\ sfpc' = IF out.loops = 0 THEN "seek" ELSE "close"
    /\ UNCHANGED <<disk, get, out>>

\* Mutant: the fallback begins at the offset of the range again.
SendFileErrorRestart ==
    /\ sfpc = "sendfile"
    /\ sfpc' = "seek"
    /\ out' = [out EXCEPT !.offset = FirstByte]
    /\ UNCHANGED <<disk, get>>

\* sendfile fails: "fall back to the classic way" from where it was.
SendFileError ==
    /\ sfpc = "sendfile"
    /\ sfpc' = "seek"
    /\ UNCHANGED <<disk, get, out>>

\* fseeko to the offset, if there is one.
Seek ==
    /\ sfpc = "seek"
    /\ sfpc' = "read"
    /\ UNCHANGED <<disk, get, out>>

\* fseeko fails; the error text goes where the body should be.
SeekFails ==
    /\ sfpc = "seek" /\ out.offset > 0
    /\ out' = [out EXCEPT !.fault = TRUE]
    /\ sfpc' = "error"
    /\ UNCHANGED <<disk, get>>

\* Read a buffer and write it to the client.
ReadWrite ==
    /\ sfpc = "read" /\ out.len > 0
    /\ \E n \in 1..Smallest(out.len, FileSize - out.offset) : out' = Send(n, out.loops)
    /\ UNCHANGED <<disk, get, sfpc>>

\* All is sent, the file has ended, or reading or writing fails.
ReadEnds ==
    /\ sfpc = "read"
    /\ out' = [out EXCEPT !.fault = @ \/ (out.len > 0 /\ out.offset < FileSize)]
    /\ sfpc' = "close"
    /\ UNCHANGED <<disk, get>>

\* mg_fclose, or the answer is an error.
StaticDone ==
    /\ sfpc \in {"close", "error"}
    /\ sfpc' = "idle"
    /\ get' = NoGet /\ out' = NoOut
    /\ UNCHANGED disk

\* Another connection changes the file with PUT, or somebody does on disk.
ChangeFile ==
    /\ sfpc # "idle"
    /\ \E f \in {"plain", "gz"}, size \in 0..MaxSize :
          /\ disk[f] >= 0 /\ size # disk[f]
          /\ disk' = [disk EXCEPT ![f] = size]
    /\ out' = [out EXCEPT !.fault = TRUE]
    /\ UNCHANGED <<get, sfpc>>

StaticNext ==
    \/ GetFile \/ StaticChoose \/ StaticOpen \/ StaticOpenFails \/ StaticHeader
    \/ SendFile \/ SendFileNothing \/ SendFileError \/ Seek \/ SeekFails
    \/ ReadWrite \/ ReadEnds \/ StaticDone \/ ChangeFile

StaticSpec == StaticInit /\ [][StaticNext]_staticVars

------------------------------------------------------------------------------
(* Properties                                                              *)

\* The body is the file from the start of the range, in order, without gaps or
\* repetition where sendfile hands over to reading, and never longer than the
\* Content-Length that was sent, also when the file changes meanwhile.
BodyInOrder ==
    /\ \A k \in 1..Len(out.body) : out.body[k] = FirstByte + k - 1
    /\ out.body # <<>> => Len(out.body) <= out.cl

Undisturbed == sfpc = "close" /\ ~out.fault /\ ~get.head

\* When nothing fails and nobody changes the file, exactly the bytes that
\* Content-Length announces are sent, for the whole file, for "bytes=r1-" and for
\* a range that lies in the file.  (Not so when r2 is at or behind the end of the
\* file, or negative: there the announced length is too large.)
LengthSent ==
    /\ Undisturbed
    /\ IF HasRange THEN get.r1 < get.size /\ (get.n = 2 => get.r1 <= get.r2 /\ get.r2 < get.size)
                   ELSE FirstByte = 0
    => Len(out.body) = out.cl

\* The same for every range that begins in the file: "Send len bytes from the
\* opened file to the client" (send_file_data).  It does not hold: of a range whose end is
\* the size of the file or more, the length that is announced is one too large.
RangeHonoured ==
    /\ Undisturbed
    /\ HasRange => get.r1 < get.size /\ (get.n = 2 => get.r1 <= get.r2)
    => Len(out.body) = out.cl

\* "Range requests don't play well with a pre-gzipped file (since the range is specified
\* in the uncompressed space)" (handle_static_file_request, 10665-10666), so none is
\* answered with a part of the .gz.  It does not hold: the 416 behind that comment is
\* never reached.
RangeOfGzipRefused == out.status = 206 => get.file = "plain"
=============================================================================
