----------------------------- MODULE Connection -----------------------------
(***************************************************************************)
(* One server connection: process_new_connection with the messages the     *)
(* client sends one behind the other, get_request, the request handler     *)
(* that reads the body with mg_read, and the end of the keep-alive loop.   *)
(*                                                                         *)
(* The input is a sequence of tokens; the connection buffer holds the      *)
(* positions of the tokens in it.  A header is tokens "head" up to "end"   *)
(* ("endc" announces a chunked body, "bad" ends a header that is refused). *)
(* A body is tokens "data"; the framing of a chunked one is "size" (the    *)
(* digits of a chunk size), "ext" (";" and a chunk extension), "eol" (CRLF *)
(* behind them), "crlf" (CRLF behind the data), "trailer" (a trailer line) *)
(* and "final" (the last CRLF).  Lengths count tokens; a sum of lengths    *)
(* that overflows int64_t is outside the model.                            *)
(***************************************************************************)
EXTENDS Integers, Sequences, FiniteSets

CONSTANTS Inputs,     \* the token sequences a client may send
          buf_size,   \* tokens conn->buf has room for
          MaxRead     \* bound: tokens a handler asks mg_read for

\* A token: its kind, the number of the message it belongs to, and a length:
\* what "end" and "size" announce; for "ext" the chunk size that the digits and
\* the last character of the extension make, 0 if that is no hex digit.
Kinds == {"head", "end", "endc", "bad", "data", "size", "ext", "eol", "crlf",
          "trailer", "final", "junk"}
Token == [kind : Kinds, msg : Nat \ {0}, len : Nat]

ASSUME ConnectionAssumption ==
    /\ Inputs \subseteq Seq(Token)
    /\ buf_size \in Nat \ {0}
    /\ MaxRead \in Nat \ {0}

VARIABLES
    input,      \* what the client sends
    received,   \* how much of it the server has taken from the socket
    buf,        \* conn->buf, the first data_len tokens
    conn,       \* request_len, content_len, consumed_content, is_chunked
    pc,         \* where process_new_connection is
    call,       \* the mg_read in progress: tokens still wanted, tokens read, caller
    line,       \* lenbuf: the chunk size in it, what an extension has left there
    body,       \* what mg_read has delivered of this request's body
    result,     \* what the last mg_read returned: "data", "end", "error"
    handled,    \* conn->handled_requests
    stop_flag   \* ctx->stop_flag # 0

vars == <<input, received, buf, conn, pc, call, line, body, result, handled, stop_flag>>

data_len == Len(buf)

NoRequest == [request_len |-> 0, content_len |-> -1, consumed |-> 0, is_chunked |-> 0]

TypeOK ==
    /\ input \in Inputs
    /\ received \in 0..Len(input)
    /\ buf \in Seq(1..Len(input)) /\ data_len <= buf_size
    /\ conn \in [request_len : 0..buf_size, content_len : Nat \cup {-1},
                 consumed : 0..Len(input), is_chunked : 0..4]
    /\ pc \in {"read", "handle", "mg_read", "crlf", "line", "trailer", "discard", "next", "closed"}
    /\ call \in [left : 0..MaxRead, read : 0..MaxRead, by : {"handler", "discard"}]
    /\ line \in [size : Nat, ext : BOOLEAN, left : Nat]
    /\ body \in Seq(1..Len(input))
    /\ result \in {"none", "data", "end", "error"}
    /\ handled \in 0..(Len(input) + 1)
    /\ stop_flag \in BOOLEAN

\* init_connection and the first reset_per_request_attributes
Init ==
    /\ input \in Inputs
    /\ received = 0
    /\ buf = <<>>
    /\ conn = NoRequest
    /\ pc = "read"
    /\ call = [left |-> 0, read |-> 0, by |-> "handler"]
    /\ line = [size |-> 0, ext |-> FALSE, left |-> 0]
    /\ body = <<>>
    /\ result = "none"
    /\ handled = 0
    /\ stop_flag = FALSE

------------------------------------------------------------------------------
(* get_request                                                             *)

\* get_http_header_len: the first end of a header in the buffer, if any.
HeaderEnds == {k \in 1..data_len : input[buf[k]].kind \in {"end", "endc", "bad"}}

IsHeaderLen(n) == n \in HeaderEnds /\ \A k \in HeaderEnds : n <= k

\* Mutant: there is room for one token more.
ReadMessageOverrun ==
    /\ pc = "read" /\ HeaderEnds = {}
    /\ ~stop_flag
    /\ \E n \in 1..(buf_size + 1 - data_len) :
          /\ received + n <= Len(input)
          /\ buf' = buf \o [k \in 1..n |-> received + k]
          /\ received' = received + n
    /\ UNCHANGED <<input, conn, pc, call, line, body, result, handled, stop_flag>>

\* read_message: the header is not complete; receive what there is and what fits.
ReadMessage ==
    /\ pc = "read" /\ HeaderEnds = {}
    /\ ~stop_flag
    /\ \E n \in 1..(buf_size - data_len) :
          /\ received + n <= Len(input)
          /\ buf' = buf \o [k \in 1..n |-> received + k]
          /\ received' = received + n
    /\ UNCHANGED <<input, conn, pc, call, line, body, result, handled, stop_flag>>

\* The server stops, the header is too long, or a timeout or an error ends the
\* wait.  The error is answered and must_close ends the loop.
ReadMessageFails ==
    /\ pc = "read" /\ HeaderEnds = {}
    /\ handled' = handled + 1
    /\ pc' = "closed"
    /\ UNCHANGED <<input, received, buf, conn, call, line, body, result, stop_flag>>

\* The header is complete and the request is valid: content_len and is_chunked.
GetRequest ==
    /\ pc = "read"
    /\ \E n \in HeaderEnds :
          /\ IsHeaderLen(n)
          /\ input[buf[n]].kind # "bad"
          /\ conn' = [request_len |-> n, consumed |-> 0, content_len |-> input[buf[n]].len,
                      is_chunked |-> IF input[buf[n]].kind = "endc" THEN 1 ELSE 0]
    /\ pc' = "handle"
    /\ UNCHANGED <<input, received, buf, call, line, body, result, handled, stop_flag>>

\* The header is complete and refused: parse_http_request, switch_domain_context,
\* Transfer-Encoding, Content-Length, the HTTP version or the URI.
BadRequest ==
    /\ pc = "read"
    /\ \E n \in HeaderEnds : IsHeaderLen(n) /\ input[buf[n]].kind = "bad"
    /\ handled' = handled + 1
    /\ pc' = "closed"
    /\ UNCHANGED <<input, received, buf, conn, call, line, body, result, stop_flag>>

------------------------------------------------------------------------------
(* mg_read_inner(len): up to len tokens of the body, first those in the    *)
(* buffer, then what comes from the socket (pull_all); fewer than wanted   *)
(* if the client closes, the read fails or times out, or the server stops. *)

Smaller(a, b) == IF a < b THEN a ELSE b

Wanted(c, len) == IF c.consumed < c.content_len THEN Smaller(c.content_len - c.consumed, len) ELSE 0

\* Mutant: the buffered part is not limited by the content length.
BufferedNoLimit(c, len) ==
    LET first == c.request_len + c.consumed + 1
    IN  SubSeq(buf, first, Smaller(data_len, first + len - 1))

Buffered(c, len) ==
    LET first == c.request_len + c.consumed + 1
    IN  SubSeq(buf, first, Smaller(data_len, first + Wanted(c, len) - 1))

pull_all(len) ==
    {[k \in 1..n |-> received + k] :
        n \in 0..(IF stop_flag THEN 0 ELSE Smaller(len, Len(input) - received))}

\* The token sequences the call may return.
mg_read_inner(c, len) ==
    LET old == Buffered(c, len)
    IN  {old \o new : new \in pull_all(Wanted(c, len) - Len(old))}

\* The effect on the socket of a call that returned tokens.
Receives(tokens) ==
    received' = received + Cardinality({k \in 1..Len(tokens) : tokens[k] > received})

Kind(tokens) == IF tokens = <<>> THEN "none" ELSE input[tokens[1]].kind

------------------------------------------------------------------------------
(* mg_read, called by the handler or by discard_unread_request_data         *)

CallMgRead(len, by) ==
    /\ call' = [left |-> len, read |-> 0, by |-> by]
    /\ pc' = "mg_read"
    /\ UNCHANGED <<input, received, buf, conn, line, body, result, handled, stop_flag>>

\* A handler may read as often as it likes, also behind the end or an error.
MgRead ==
    /\ pc = "handle"
    /\ \E len \in 1..MaxRead : CallMgRead(len, "handler")

\* Mutant: discarding goes on at the end of the body (>= 0 for > 0).
ReturnAtEnd(r) ==
    /\ result' = r
    /\ pc' = IF call.by = "handler" THEN "handle"
             ELSE IF r # "error" THEN "discard" ELSE "next"

\* mg_read returns data, 0 for the end of the body, or an error.
Return(r) ==
    /\ result' = r
    /\ pc' = IF call.by = "handler" THEN "handle"
             ELSE IF r = "data" THEN "discard" ELSE "next"

Fail(c) == /\ conn' = [c EXCEPT !.is_chunked = 2]
           /\ Return("error")

\* Not chunked.
ReadBody ==
    /\ pc = "mg_read" /\ conn.is_chunked = 0
    /\ \E tokens \in mg_read_inner(conn, call.left) :
          /\ Receives(tokens)
          /\ conn' = [conn EXCEPT !.consumed = @ + Len(tokens)]
          /\ body' = body \o tokens
          /\ IF tokens = <<>> THEN Return("end") \/ Return("error") ELSE Return("data")
    /\ UNCHANGED <<input, buf, call, line, handled, stop_flag>>

\* Chunked, and nothing (more) to do: enough read, the end or an error seen before.
ChunkedReturn ==
    /\ pc = "mg_read"
    /\ \/ conn.is_chunked # 0 /\ call.left = 0 /\ Return("data")
       \/ conn.is_chunked >= 3 /\ call.left > 0 /\ Return("end")
       \/ conn.is_chunked = 2 /\ call.left > 0 /\ Return("error")
    /\ UNCHANGED <<input, received, buf, conn, call, line, body, handled, stop_flag>>

InChunked == pc = "mg_read" /\ conn.is_chunked = 1 /\ call.left > 0

\* Copy from the current chunk; behind its last token a CRLF is expected.
ChunkData ==
    /\ InChunked /\ conn.consumed # conn.content_len
    /\ \E tokens \in mg_read_inner(conn, call.left) :
          LET c == [conn EXCEPT !.consumed = @ + Len(tokens)]
          IN  /\ Receives(tokens)
              /\ body' = body \o tokens
              /\ call' = [call EXCEPT !.left = @ - Len(tokens), !.read = @ + Len(tokens)]
              /\ IF tokens = <<>> THEN Fail(c)
                 ELSE /\ conn' = c
                      /\ pc' = IF c.consumed = c.content_len THEN "crlf" ELSE pc
                      /\ UNCHANGED result
    /\ UNCHANGED <<input, buf, line, handled, stop_flag>>

\* Framing is read one token at a time: it counts as content first.
Framing == [conn EXCEPT !.content_len = @ + 1]

Framed(tokens) == [Framing EXCEPT !.consumed = @ + Len(tokens)]

\* The CRLF behind a chunk.
ChunkEnd ==
    /\ pc = "crlf"
    /\ \E tokens \in mg_read_inner(Framing, 1) :
          /\ Receives(tokens)
          /\ IF Kind(tokens) = "crlf"
             THEN conn' = Framed(tokens) /\ pc' = "mg_read" /\ UNCHANGED result
             ELSE Fail(Framed(tokens))
    /\ UNCHANGED <<input, buf, call, line, body, handled, stop_flag>>

\* Fetch a new chunk: first the digits of its size.
ChunkSize ==
    /\ InChunked /\ conn.consumed = conn.content_len
    /\ \E tokens \in mg_read_inner(Framing, 1) :
          /\ Receives(tokens)
          /\ IF Kind(tokens) = "size"
             THEN /\ line' = [size |-> input[tokens[1]].len, ext |-> FALSE, left |-> 0]
                  /\ conn' = Framed(tokens)
                  /\ pc' = "line"
                  /\ UNCHANGED result
             ELSE Fail(Framed(tokens)) /\ UNCHANGED line
    /\ UNCHANGED <<input, buf, call, body, handled, stop_flag>>

\* The end of the line with the chunk size: the chunk counts as content, or it is
\* the last one and the trailer follows.
ChunkAppend(c) ==
    IF line.size = 0
    THEN conn' = [c EXCEPT !.is_chunked = 3] /\ pc' = "trailer"
    ELSE conn' = [c EXCEPT !.content_len = @ + line.size] /\ pc' = "mg_read"

\* The rest of the line.  An extension is skipped; when a read in it brings
\* nothing, its last character stays in lenbuf and is looked at as a digit.
ChunkLine ==
    /\ pc = "line"
    /\ \E tokens \in mg_read_inner(Framing, 1) :
          LET c == Framed(tokens)
          IN  /\ Receives(tokens)
              /\ \/ /\ Kind(tokens) = "eol"
                    /\ ChunkAppend(c)
                    /\ UNCHANGED <<line, result>>
                 \/ /\ Kind(tokens) = "ext"
                    /\ line' = [line EXCEPT !.ext = TRUE, !.left = input[tokens[1]].len]
                    /\ conn' = c
                    /\ UNCHANGED <<pc, result>>
                 \/ /\ Kind(tokens) \notin {"eol", "ext"}
                    /\ IF tokens = <<>> /\ line.ext /\ line.left > 0
                       THEN /\ line' = [size |-> line.left, ext |-> FALSE, left |-> 0]
                            /\ conn' = c
                            /\ UNCHANGED <<pc, result>>
                       ELSE Fail(c) /\ UNCHANGED line
    /\ UNCHANGED <<input, buf, call, body, handled, stop_flag>>

\* Mutant: a trailer that ends early is taken for complete.
TrailerUnchecked ==
    /\ pc = "trailer"
    /\ \E tokens \in mg_read_inner(Framing, 1) :
          LET c == Framed(tokens)
          IN  /\ Receives(tokens)
              /\ \/ /\ Kind(tokens) = "trailer"
                    /\ conn' = c
                    /\ UNCHANGED <<pc, result>>
                 \/ /\ Kind(tokens) # "trailer"
                    /\ conn' = [c EXCEPT !.is_chunked = 4]
                    /\ Return(IF call.read > 0 THEN "data" ELSE "end")
    /\ UNCHANGED <<input, buf, call, line, body, handled, stop_flag>>

\* Discard the trailer for keep-alive, up to the final CRLF.
Trailer ==
    /\ pc = "trailer"
    /\ \E tokens \in mg_read_inner(Framing, 1) :
          LET c == Framed(tokens)
          IN  /\ Receives(tokens)
              /\ \/ /\ Kind(tokens) = "trailer"
                    /\ conn' = c
                    /\ UNCHANGED <<pc, result>>
                 \/ /\ Kind(tokens) = "final"
                    /\ conn' = [c EXCEPT !.is_chunked = 4]
                    /\ Return(IF call.read > 0 THEN "data" ELSE "end")
                 \/ /\ Kind(tokens) \notin {"trailer", "final"}
                    /\ Fail(c)
    /\ UNCHANGED <<input, buf, call, line, body, handled, stop_flag>>

------------------------------------------------------------------------------
(* The end of the request                                                  *)

\* handle_request returns; what the handler has not read is discarded, or not
\* (must_close, errors, files, a URI that is not local).
HandlerReturns ==
    /\ pc = "handle"
    /\ pc' \in {"discard", "next"}
    /\ UNCHANGED <<input, received, buf, conn, call, line, body, result, handled, stop_flag>>

\* discard_unread_request_data: mg_read until it returns no data.
Discard ==
    /\ pc = "discard"
    /\ CallMgRead(MaxRead, "discard")

\* Mutant: a chunked request is discardable when what is known of it is read.
DiscardableChunk ==
    /\ conn.content_len >= 0
    /\ conn.request_len > 0
    /\ \/ conn.consumed = conn.content_len
       \/ conn.request_len + conn.content_len <= data_len

\* "Enable it only if this request is completely discardable."
Discardable ==
    /\ conn.content_len >= 0
    /\ conn.request_len > 0
    /\ \/ conn.is_chunked = 4
       \/ /\ conn.is_chunked = 0
          /\ \/ conn.consumed = conn.content_len
             \/ conn.request_len + conn.content_len <= data_len

discard_len == Smaller(conn.request_len + conn.content_len, data_len)

\* The loop goes round when should_keep_alive (client, configuration, must_close)
\* allows it too; reset_per_request_attributes.
KeepAlive ==
    /\ pc = "next"
    /\ ~stop_flag
    /\ Discardable
    /\ buf' = SubSeq(buf, discard_len + 1, data_len)
    /\ conn' = NoRequest
    /\ body' = <<>>
    /\ result' = "none"
    /\ handled' = handled + 1
    /\ pc' = "read"
    /\ UNCHANGED <<input, received, call, line, stop_flag>>

\* The loop ends: close_connection.
LastRequest ==
    /\ pc = "next"
    /\ handled' = handled + 1
    /\ pc' = "closed"
    /\ UNCHANGED <<input, received, buf, conn, call, line, body, result, stop_flag>>

Stop == /\ ~stop_flag /\ stop_flag' = TRUE
        /\ UNCHANGED <<input, received, buf, conn, pc, call, line, body, result, handled>>

Closed == pc = "closed" /\ UNCHANGED vars

WorkerStep ==
    \/ ReadMessage \/ ReadMessageFails \/ GetRequest \/ BadRequest
    \/ MgRead \/ ReadBody \/ ChunkedReturn \/ ChunkData \/ ChunkEnd \/ ChunkSize
    \/ ChunkLine \/ Trailer
    \/ HandlerReturns \/ Discard \/ KeepAlive \/ LastRequest

Next == WorkerStep \/ Stop \/ Closed

Spec == Init /\ [][Next]_vars

\* The worker thread is scheduled and reads end by data, error or timeout; a
\* handler does not read for ever.
FairSpec == Spec /\ WF_vars(WorkerStep) /\ SF_vars(HandlerReturns)

------------------------------------------------------------------------------
(* Properties                                                              *)

HeaderKinds  == {"end", "endc", "bad"}
FramingKinds == {"size", "ext", "eol", "crlf", "trailer", "final"}

\* What it means that the messages of an input are the ones its tokens say: the numbers of
\* messages go up from 1, each message has its own header before its data, a body is as long
\* as the header or the chunk size says, framing belongs to the message it is in, and a message
\* ends behind its content length or behind its final CRLF.  An input may break off anywhere,
\* headers may be bad, and framing may be missing or wrong; the extensions of
\* chunks are the ones that the code skips.
WellFramed(i) ==
    /\ i # <<>> => i[1].msg = 1
    /\ \A p, q \in DOMAIN i : p < q => i[p].msg <= i[q].msg
    /\ \A p, q \in DOMAIN i : i[p].msg < i[q].msg =>
          \E r \in DOMAIN i : i[r].msg = i[p].msg /\ i[r].kind \in HeaderKinds
    /\ \A p \in DOMAIN i : i[p].kind = "data" =>
          \E r \in DOMAIN i : r < p /\ i[r].msg = i[p].msg /\ i[r].kind \in {"end", "endc"}
    /\ \A p \in DOMAIN i : i[p].kind = "end" =>
          /\ \A q \in DOMAIN i : p < q /\ q <= p + i[p].len
                                   => i[q].kind = "data" /\ i[q].msg = i[p].msg
          /\ \A q \in DOMAIN i : q = p + i[p].len + 1 => i[q].msg = i[p].msg + 1
    /\ \A p \in DOMAIN i : i[p].kind \in {"endc", "ext"} => i[p].len = 0
    /\ \A p, q \in DOMAIN i : q = p + 1 /\ i[q].kind \in FramingKinds => i[q].msg = i[p].msg
    /\ \A p, q \in DOMAIN i : q = p + 1 /\ i[p].kind = "final" => i[q].msg = i[p].msg + 1
    /\ \A s, e \in DOMAIN i :
          /\ s < e /\ i[s].kind = "size" /\ i[e].kind = "eol"
          /\ \A r \in DOMAIN i : s < r /\ r < e => i[r].kind = "ext"
          => \A q \in DOMAIN i : e < q /\ q <= e + i[s].len
                                   => i[q].kind = "data" /\ i[q].msg = i[e].msg

\* The position of the first token of message m.
Start(m) == IF \E p \in DOMAIN input : input[p].msg = m
            THEN CHOOSE p \in DOMAIN input :
                    /\ input[p].msg = m
                    /\ \A q \in DOMAIN input : input[q].msg = m => p <= q
            ELSE Len(input) + 1

\* Each request is read from where the one before it ends, whatever part of
\* that one's body its handler read, from the buffer or from the socket: no body
\* is taken for a request, and no request is swallowed (keep_alive and
\* discard_len in process_new_connection).
InSync ==
    pc = "read" =>
        /\ received - data_len + 1 = Start(handled + 1)
        /\ \A k \in 1..data_len : buf[k] = received - data_len + k

Data(m) == {p \in DOMAIN input : input[p].msg = m /\ input[p].kind = "data"}

\* What mg_read delivers is the body of this request from its beginning, in order
\* and without gaps or framing, for any sizes of reads, buffer and chunks.
BodyExact ==
    pc # "closed" =>
        \A k \in 1..Len(body) :
            /\ body[k] \in Data(handled + 1)
            /\ Cardinality({p \in Data(handled + 1) : p <= body[k]}) = k

\* mg_read says that a chunked body has ended only when all of it was delivered,
\* and what follows in the input is the next message.
EndIsComplete ==
    pc \notin {"read", "closed"} /\ conn.is_chunked = 4 =>
        /\ Len(body) = Cardinality(Data(handled + 1))
        /\ conn.consumed = conn.content_len
        /\ result # "error"

\* Under FairSpec: a connection whose client sends only so much is closed; the
\* loop does not go round without consuming input.
ConnectionCloses == <>(pc = "closed")

\* A handler that reads gets exactly the body of its request, in any portions, and is told
\* of its end only when all of it was there (mg_read and mg_read_inner).
BodyDelivered == BodyExact /\ EndIsComplete
=============================================================================
