-------------------------------- MODULE Http2 --------------------------------
(***************************************************************************)
(* HTTP/2 (http2.inl) as a worker thread runs it: ALPN chooses the protocol *)
(* during the handshake (alpn_select_cb, civetweb.c), then frames are read  *)
(* one after the other.  A HEADERS frame is decoded entry by entry against  *)
(* the static and the dynamic HPACK table, handled like any other request,  *)
(* and answered on its stream.  The file calls itself a prototype.          *)
(*                                                                          *)
(* A header is a name; a pair of key and value strings is one allocation.   *)
(***************************************************************************)
EXTENDS Naturals, Sequences

CONSTANTS
    H2Names,      \* header names a client may send
    H2Protocols,  \* what a client may offer: a set of sets of protocols
    EnableHttp2,  \* config[ENABLE_HTTP2] = "yes"
    MaxH2Headers, \* MG_MAX_HEADERS
    DynTableSize, \* HTTP2_DYN_TABLE_SIZE
    MaxEntries    \* bound on the entries of one HEADERS frame

ASSUME H2Assumption ==
    /\ EnableHttp2 \in BOOLEAN
    /\ MaxH2Headers \in Nat \ {0} /\ DynTableSize \in Nat \ {0} /\ MaxEntries \in Nat

VARIABLES
    h2Pc,       \* "idle", "primer", "frame", "header", "serve", "http1", "closed"
    h2Offer,    \* what this connection's client offers in its handshake
    alpnProto,  \* tls.alpn_proto of the worker thread: kept between connections
    h2Dyn,      \* conn->http2.dyn_table
    h2Peer,     \* the table the client's encoder keeps, newest entry first
    h2Headers,  \* request_info.http_headers
    h2Entries,  \* entries of this frame decoded so far
    h2Meaning,  \* <<what the client meant, what was decoded>> for the last entry
    h2Alive,    \* pairs of strings allocated and not freed
    h2Sent      \* what was sent on the stream of this request

h2Vars == <<h2Pc, h2Offer, alpnProto, h2Dyn, h2Peer, h2Headers, h2Entries, h2Meaning,
            h2Alive, h2Sent>>

H2Init ==
    /\ h2Pc = "idle" /\ h2Offer = {} /\ alpnProto = "none"
    /\ h2Dyn = <<>> /\ h2Peer = <<>> /\ h2Headers = <<>> /\ h2Entries = 0
    /\ h2Meaning = <<"none", "none">> /\ h2Alive = 0 /\ h2Sent = <<>>

(***************************************************************************)
(* The worker takes a connection (20350: the protocol of the one before is  *)
(* forgotten), and the handshake lets alpn_select_cb choose: the server's   *)
(* first choice that the client offers.  Without ALPN the callback does not *)
(* run.                                                                     *)
(***************************************************************************)
ProtoOrder == IF EnableHttp2 THEN <<"h2", "http/1.1", "http/1.0">> ELSE <<"http/1.1", "http/1.0">>

alpn_select_cb(offer, before) ==
    LET found == {j \in DOMAIN ProtoOrder: ProtoOrder[j] \in offer} IN
    IF found = {} THEN before
    ELSE ProtoOrder[CHOOSE j \in found: \A k \in found: j <= k]

\* Mutant: the thread's alpn_proto is not reset for the next connection.
KeepProto == alpnProto

\* The protocol before the handshake.
ResetProto == "none"

AcceptTls ==
    /\ h2Pc = "idle"
    /\ \E offer \in H2Protocols:
        /\ h2Offer' = offer
        /\ alpnProto' = alpn_select_cb(offer, ResetProto)
        /\ h2Pc' = IF alpnProto' = "h2" THEN "primer" ELSE "http1"
    /\ UNCHANGED <<h2Dyn, h2Peer, h2Headers, h2Entries, h2Meaning, h2Alive, h2Sent>>

\* The connection is closed and the worker returns to the queue.
ConnectionDone ==
    /\ h2Pc \in {"http1", "closed"} /\ h2Pc' = "idle"
    /\ h2Peer' = <<>> /\ h2Sent' = <<>> /\ h2Meaning' = <<"none", "none">>
    /\ h2Entries' = 0
    /\ UNCHANGED <<h2Offer, alpnProto, h2Dyn, h2Headers, h2Alive>>

(***************************************************************************)
(* process_new_http2_connection: the primer, then the frames, then the      *)
(* memory of the headers.                                                   *)
(***************************************************************************)
\* A wrong primer is answered with an error; nothing has been allocated yet.
BadPrimer ==
    /\ h2Pc = "primer" /\ h2Pc' = "closed" /\ h2Sent' = <<"error">>
    /\ UNCHANGED <<h2Offer, alpnProto, h2Dyn, h2Peer, h2Headers, h2Entries, h2Meaning, h2Alive>>

\* The server sends its settings and enters the loop of handle_http2.
GoodPrimer ==
    /\ h2Pc = "primer" /\ h2Pc' = "frame"
    /\ UNCHANGED <<h2Offer, alpnProto, h2Dyn, h2Peer, h2Headers, h2Entries, h2Meaning,
                   h2Alive, h2Sent>>

\* clean_http2 and the lines after handle_http2 returns: purge the dynamic table,
\* free the request headers.
CleanHttp2 ==
    /\ h2Pc' = "closed"
    /\ h2Alive' = h2Alive - Len(h2Headers) - Len(h2Dyn)
    /\ h2Dyn' = <<>> /\ h2Headers' = <<>>
    /\ UNCHANGED <<h2Offer, alpnProto, h2Entries>>

\* The peer is gone, a frame is longer than 16384 bytes, or its type is unknown.
FrameFails ==
    /\ h2Pc = "frame"
    /\ CleanHttp2
    /\ UNCHANGED <<h2Peer, h2Meaning, h2Sent>>

\* SETTINGS is acknowledged or refused, PING is answered; DATA, PRIORITY,
\* RST_STREAM, PUSH_PROMISE, GOAWAY, WINDOW_UPDATE and CONTINUATION are read and
\* ignored, flow control with them.
OtherFrame ==
    /\ h2Pc = "frame"
    /\ \E answer \in {<<>>, <<"settings_ack">>, <<"reset">>, <<"ping_ack">>}: h2Sent' = answer
    /\ UNCHANGED <<h2Pc, h2Offer, alpnProto, h2Dyn, h2Peer, h2Headers, h2Entries, h2Meaning, h2Alive>>

HeadersFrame ==
    /\ h2Pc = "frame" /\ h2Pc' = "header"
    /\ h2Headers' = <<>> /\ h2Entries' = 0 /\ h2Sent' = <<>>
    /\ UNCHANGED <<h2Offer, alpnProto, h2Dyn, h2Peer, h2Meaning, h2Alive>>

(***************************************************************************)
(* One entry of the header block.                                           *)
(***************************************************************************)
EntryComes ==
    /\ h2Pc = "header" /\ h2Entries < MaxEntries
    /\ h2Entries' = h2Entries + 1

\* Mutant: a header beyond the limit is not stored, and not freed either.
AddHeaderLeaks(name, extra) ==
    IF Len(h2Headers) < MaxH2Headers
    THEN h2Headers' = Append(h2Headers, name) /\ h2Alive' = h2Alive + 1 + extra
    ELSE UNCHANGED h2Headers /\ h2Alive' = h2Alive + 1 + extra

\* Store the pair in the request, or free it when the request has no room.  The
\* pair was just allocated; extra counts the copy for the dynamic table.
AddHeader(name, extra) ==
    IF Len(h2Headers) < MaxH2Headers
    THEN h2Headers' = Append(h2Headers, name) /\ h2Alive' = h2Alive + 1 + extra
    ELSE UNCHANGED h2Headers /\ h2Alive' = h2Alive + extra

\* Name and value from the predefined table.
StaticEntry ==
    /\ EntryComes
    /\ \E name \in H2Names:
        /\ h2Meaning' = <<name, name>>
        /\ AddHeader(name, 0)
    /\ UNCHANGED <<h2Pc, h2Offer, alpnProto, h2Dyn, h2Peer, h2Sent>>

\* Name and value from the dynamic table: the client's entry number k is its k-th
\* newest, the server's is the k-th in its array.
DynamicEntry ==
    /\ EntryComes
    /\ \E k \in 1..Len(h2Peer):
        /\ k <= Len(h2Dyn)
        /\ h2Meaning' = <<h2Peer[k], h2Dyn[k]>>
        /\ AddHeader(h2Dyn[k], 0)
    /\ UNCHANGED <<h2Pc, h2Offer, alpnProto, h2Dyn, h2Peer, h2Sent>>

\* Name and value in the block, not to be indexed.
LiteralEntry ==
    /\ EntryComes
    /\ \E name \in H2Names:
        /\ h2Meaning' = <<name, name>>
        /\ AddHeader(name, 0)
    /\ UNCHANGED <<h2Pc, h2Offer, alpnProto, h2Dyn, h2Peer, h2Sent>>

\* The same with indexing: both sides add it to their tables.
IndexedLiteralEntry ==
    /\ EntryComes /\ Len(h2Dyn) < DynTableSize
    /\ \E name \in H2Names:
        /\ h2Meaning' = <<name, name>>
        /\ h2Dyn' = Append(h2Dyn, name)
        /\ h2Peer' = <<name>> \o h2Peer
        /\ AddHeader(name, 1)
    /\ UNCHANGED <<h2Pc, h2Offer, alpnProto, h2Sent>>

\* Entries at the end of the array are dropped until n are left.
purge_dynamic_header_table(n) ==
    LET kept == IF Len(h2Dyn) > n THEN n ELSE Len(h2Dyn) IN
    /\ h2Dyn' = SubSeq(h2Dyn, 1, kept)
    /\ h2Alive' = h2Alive - (Len(h2Dyn) - kept)

\* The client resizes the table to a few octets, which empties its own.
ResizeEntry ==
    /\ EntryComes
    /\ \E n \in {0, 1}: purge_dynamic_header_table(n)
    /\ h2Peer' = <<>>
    /\ UNCHANGED <<h2Pc, h2Offer, alpnProto, h2Headers, h2Meaning, h2Sent>>

\* The entry cannot be decoded, its index is out of range, its predefined value
\* does not exist, or the table is full: key and value are freed and the
\* connection ends.
EntryFails ==
    /\ h2Pc = "header" /\ h2Entries < MaxEntries
    /\ CleanHttp2
    /\ UNCHANGED <<h2Peer, h2Meaning, h2Sent>>

HeadersEnd ==
    /\ h2Pc = "header" /\ h2Pc' = "serve"
    /\ UNCHANGED <<h2Offer, alpnProto, h2Dyn, h2Peer, h2Headers, h2Entries, h2Meaning,
                   h2Alive, h2Sent>>

(***************************************************************************)
(* handle_request_stat_log on the stream, then the final DATA frame.  Where *)
(* handle_request says HTTP1_only the stream is reset instead of answered.  *)
(***************************************************************************)
http2_must_use_http1 == <<"reset">>
http2_data_frame_head == <<"end">>

Answers == {<<>>, <<"headers">>, <<"headers", "data">>, http2_must_use_http1}

ServeStream ==
    /\ h2Pc = "serve" /\ h2Pc' = "frame"
    /\ \E answer \in Answers: h2Sent' = answer \o http2_data_frame_head
    /\ h2Alive' = h2Alive - Len(h2Headers)
    /\ h2Headers' = <<>> /\ h2Entries' = 0 /\ h2Meaning' = <<"none", "none">>
    /\ UNCHANGED <<h2Offer, alpnProto, h2Dyn, h2Peer>>

H2Next ==
    \/ AcceptTls \/ ConnectionDone \/ BadPrimer \/ GoodPrimer \/ FrameFails \/ OtherFrame
    \/ HeadersFrame \/ StaticEntry \/ DynamicEntry \/ LiteralEntry \/ IndexedLiteralEntry
    \/ ResizeEntry \/ EntryFails \/ HeadersEnd \/ ServeStream

H2Spec == H2Init /\ [][H2Next]_h2Vars

(***************************************************************************)
(* Properties.                                                              *)
(***************************************************************************)

\* A connection is served as HTTP/2 only if its own client offered that protocol:
\* the choice lives in the worker thread, which serves many connections.
AlpnIsOwn == h2Pc \notin {"idle", "http1", "closed"} => "h2" \in h2Offer

\* The strings of headers are freed exactly once: what is allocated is what the
\* request and the dynamic table still own, through every error exit of the
\* decoder, and nothing remains when the connection is closed.
H2StringsOwned == h2Alive = Len(h2Headers) + Len(h2Dyn)

\* A header taken from the dynamic table is the one the client meant by its index
\* (RFC 7541, which the decoder's comments cite).  It does not hold: the newest entry
\* is the last of the array, and the client's first.
HpackInSync == h2Meaning[1] = h2Meaning[2]

\* Nothing follows a reset on its stream.  It does not hold: the response ends
\* behind it.
ResetIsLast == \A i \in DOMAIN h2Sent: h2Sent[i] = "reset" => i = Len(h2Sent)

\* A connection that is upgraded to HTTP/2 is one whose own handshake agreed on it, and the
\* strings of header lists and of the dynamic table are owned and freed once.
Http2Exact == AlpnIsOwn /\ H2StringsOwned
=============================================================================
