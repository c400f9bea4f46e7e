------------------------------ MODULE Response ------------------------------
(***************************************************************************)
(* The response to one request: the header API of response.inl with its    *)
(* request_state, mg_write, and mg_send_http_error with the application's  *)
(* http_error callback and the error pages, which are files or scripts and *)
(* may write and fail themselves.  Whoever runs - handler, callback or     *)
(* page - may make any call at any time; a call that the API refuses       *)
(* changes nothing and is not a step.                                      *)
(***************************************************************************)
EXTENDS Integers, Sequences

CONSTANTS MaxHeaders,   \* MG_MAX_HEADERS
          MaxWire       \* bound: things sent for one request

ASSUME ResponseAssumption == MaxHeaders \in Nat /\ MaxWire \in Nat

VARIABLES
    reply,      \* the connection: request_state, num_headers, status_code, flags
    wire,       \* what was sent: a header with its status, or bytes of a body
    frames      \* the error handlers that are running, innermost last

responseVars == <<reply, wire, frames>>

\* Errors 1xx, 204 and 304 have no body.
Statuses == {200, 304, 404}
has_body(status) == status # 304

NoReply == [request_state |-> 0, num_headers |-> 0, status_code |-> -1,
            in_error_handler |-> FALSE, must_close |-> FALSE]

ResponseInit ==
    /\ reply = NoReply
    /\ wire = <<>>
    /\ frames = <<>>

Room == Len(wire) < MaxWire

------------------------------------------------------------------------------
(* The operations, as functions of the reply and what is on the wire        *)

\* Mutant: a header can be started when something was sent.
StartedAnyTime(r, status) ==
    [r EXCEPT !.status_code = status, !.request_state = 1, !.num_headers = 0]

\* mg_response_header_start: only if nothing was sent up to now.
Started(r, status) ==
    IF r.request_state # 0 THEN r
    ELSE [r EXCEPT !.status_code = status, !.request_state = 1, !.num_headers = 0]

Fewer(a, b) == IF a < b THEN a ELSE b

\* mg_response_header_add, n times: up to MG_MAX_HEADERS.
Added(r, n) ==
    IF r.request_state # 1 THEN r
    ELSE [r EXCEPT !.num_headers = Fewer(@ + n, MaxHeaders)]

\* mg_response_header_send: the status line, the headers and the empty line, then
\* the list is freed.
Sent(r) == IF r.request_state # 1 THEN r ELSE [r EXCEPT !.request_state = 3, !.num_headers = 0]

Header(r) == IF r.request_state # 1 THEN <<>> ELSE <<[kind |-> "head", status |-> r.status_code]>>

Body(r) == [kind |-> "body", status |-> r.status_code]

\* The default error page: start, add, send, then the text.
DefaultReply(r, status) ==
    LET a == Added(Started([r EXCEPT !.must_close = TRUE], status), 1)
    IN  IF has_body(status) THEN [Sent(a) EXCEPT !.request_state = 10] ELSE Sent(a)

DefaultWire(r, status) ==
    Header(Started(r, status)) \o (IF has_body(status) THEN <<Body(r)>> ELSE <<>>)

------------------------------------------------------------------------------
HeaderStart ==
    /\ reply.request_state = 0
    /\ \E status \in Statuses : reply' = Started(reply, status)
    /\ UNCHANGED <<wire, frames>>

\* mg_response_header_add; out of memory leaves everything as it was.
HeaderAdd ==
    /\ reply.num_headers < MaxHeaders
    /\ reply' = Added(reply, 1) /\ reply' # reply
    /\ UNCHANGED <<wire, frames>>

\* mg_response_header_add_lines.
HeaderAddLines ==
    /\ \E n \in 2..(MaxHeaders + 1) : reply' = Added(reply, n)
    /\ reply' # reply
    /\ UNCHANGED <<wire, frames>>

HeaderSend ==
    /\ Room /\ reply.request_state = 1
    /\ wire' = wire \o Header(reply)
    /\ reply' = Sent(reply)
    /\ UNCHANGED frames

\* The status line cannot be sent: mg_printf has set request_state to 10.
HeaderSendFails ==
    /\ reply.request_state = 1
    /\ reply' = [Sent(reply) EXCEPT !.request_state = 10]
    /\ UNCHANGED <<wire, frames>>

\* mg_write (and mg_printf): the response counts as sent from now on.
Write ==
    /\ Room
    /\ reply' = [reply EXCEPT !.request_state = 10]
    /\ wire' = Append(wire, Body(reply))
    /\ UNCHANGED frames

\* mg_send_chunk: length, data and CRLF, until one write fails.
SendChunk ==
    /\ Len(wire) + 3 <= MaxWire
    /\ reply' = [reply EXCEPT !.request_state = 10]
    /\ \E n \in 1..3 : wire' = wire \o [k \in 1..n |-> Body(reply)]
    /\ UNCHANGED frames

\* mg_send_http_ok and mg_send_http_redirect: start, some headers, send.
SendHeaderAtOnce ==
    /\ Room
    /\ \E status \in Statuses :
          LET r == Added(Started(reply, status), 2)
          IN  /\ reply' = Sent(r)
              /\ wire' = wire \o Header(r)
    /\ UNCHANGED frames

\* The default error page is sent.
SendDefault(r, status) ==
    /\ reply' = DefaultReply(r, status)
    /\ wire' = wire \o DefaultWire(r, status)

\* Mutant: an error in an error page looks for an error page.
ErrorPageAgain(r, status) ==
    \/ /\ reply' = [r EXCEPT !.in_error_handler = TRUE]
       /\ frames' = Append(frames, [by |-> "page", status |-> status])
       /\ Len(frames) < 2
       /\ UNCHANGED wire
    \/ SendDefault(r, status) /\ UNCHANGED frames

\* "Send user defined error pages, if defined": the first page that exists for
\* the status, its group or all errors; otherwise the default page.
ErrorPage(r, status) ==
    \/ /\ ~r.in_error_handler
       /\ reply' = [r EXCEPT !.in_error_handler = TRUE]
       /\ frames' = Append(frames, [by |-> "page", status |-> status])
       /\ UNCHANGED wire
    \/ SendDefault(r, status) /\ UNCHANGED frames

\* mg_send_http_error: the callback first, if there is one.
SendHttpError ==
    /\ Room
    /\ \E status \in Statuses \ {200} :
          LET r == [reply EXCEPT !.status_code = status]
          IN  \/ /\ ~reply.in_error_handler
                 /\ reply' = [r EXCEPT !.in_error_handler = TRUE]
                 /\ frames' = Append(frames, [by |-> "callback", status |-> status])
                 /\ UNCHANGED wire
              \/ ErrorPage(r, status)

\* The callback returns: it has handled the error, or the error page follows.
CallbackReturns ==
    /\ frames # <<>>
    /\ LET top == frames[Len(frames)]
           r   == [reply EXCEPT !.in_error_handler = FALSE]
       IN  /\ top.by = "callback"
           /\ \/ /\ reply' = r
                 /\ frames' = SubSeq(frames, 1, Len(frames) - 1)
                 /\ UNCHANGED wire
              \/ /\ reply' = [r EXCEPT !.in_error_handler = TRUE]
                 /\ frames' = [frames EXCEPT ![Len(frames)].by = "page"]
                 /\ UNCHANGED wire
              \/ /\ SendDefault(r, top.status)
                 /\ frames' = SubSeq(frames, 1, Len(frames) - 1)

PageReturns ==
    /\ frames # <<>> /\ frames[Len(frames)].by = "page"
    /\ frames' = SubSeq(frames, 1, Len(frames) - 1)
    /\ reply' = [reply EXCEPT !.in_error_handler = FALSE]
    /\ UNCHANGED wire

\* The request ends: "Response complete. Free header buffer"; then the connection
\* is closed, or reset_per_request_attributes prepares it for the next request.
EndResponse ==
    /\ frames = <<>>
    /\ reply' = NoReply
    /\ wire' = <<>>
    /\ UNCHANGED frames

ResponseNext ==
    \/ HeaderStart \/ HeaderAdd \/ HeaderAddLines \/ HeaderSend \/ HeaderSendFails
    \/ Write \/ SendChunk \/ SendHeaderAtOnce
    \/ SendHttpError \/ CallbackReturns \/ PageReturns \/ EndResponse

ResponseSpec == ResponseInit /\ [][ResponseNext]_responseVars

------------------------------------------------------------------------------
(* Properties                                                              *)

\* At most one header is sent with the header API for a request, and nothing
\* before it, whatever handler, http_error callback and error page call and in
\* which order (request_state).
HeaderFirst == \A k \in 2..Len(wire) : wire[k].kind # "head"

\* Error handlers do not nest - an error inside a callback or a page is answered
\* with the default page - and in_error_handler is set exactly while one runs.
ErrorHandlerOnce ==
    /\ Len(frames) <= 1
    /\ reply.in_error_handler = (frames # <<>>)

\* A response has one header, before any of its body, whichever of the ways of sending one
\* the application mixes, and error handlers do not nest.
ResponseOrdered == HeaderFirst /\ ErrorHandlerOnce
=============================================================================
