------------------------------ MODULE WebSocket -----------------------------
(***************************************************************************)
(* A websocket connection of the server: the handshake and the callbacks   *)
(* of handle_websocket_request, the read loop of read_websocket with its   *)
(* queue of bytes behind the upgrade request, the PINGs, and the threads   *)
(* that write frames with mg_websocket_write under the connection's mutex. *)
(* The worker thread is writer 0.  The peer's byte stream is the           *)
(* concatenation of its frames; byte k of frame f is <<f, k>>, so that a   *)
(* reader that loses its place is seen.                                    *)
(***************************************************************************)
EXTENDS Integers, Sequences

CONSTANTS WsFrames,    \* bound: frames that the peer sends
          WsMessages,  \* opcode and payload size of what the peer sends
          WsBuffer,    \* bytes of the queue: buf_size - request_len
          WsWriters,   \* threads of the application, positive numbers
          MaxPing,     \* MG_MAX_UNANSWERED_PING
          PingPong     \* enable_websocket_ping_pong

Opcodes == {"data", "ping", "pong", "close"}

ASSUME WebSocketAssumption ==
    /\ WsMessages \subseteq [op : Opcodes, size : Nat]
    /\ WsFrames \in Nat /\ WsBuffer \in Nat \ {0}
    /\ WsWriters \subseteq Nat \ {0} /\ MaxPing \in Nat /\ PingPong \in BOOLEAN

VARIABLES
    ws,         \* phase, must_close, stop_flag, in_websocket_handling, ping_count
    stream,     \* the frames that the peer has sent, each with its place in wire
    wire,       \* their bytes
    pulled,     \* bytes of the stream that the worker has received
    queue,      \* the bytes between request_len and data_len
    data,       \* the message that is being read or was read last
    wsHandled,  \* frames that the loop has handled
    writer,     \* what each writer is doing
    mutex,      \* the writer that holds the connection's mutex, or -1
    lastPart    \* the last part of a frame on the wire

wsVars == <<ws, stream, wire, pulled, queue, data, wsHandled, writer, mutex, lastPart>>

\* The header is longer for a length that does not fit into 7 bits (here: 1).
NewFrame(m, place) == [op |-> m.op, size |-> m.size, place |-> place,
                       header_len |-> IF m.size > 1 THEN 3 ELSE 2]

NoData == [op |-> "none", want |-> 0, bytes |-> <<>>, frame |-> 0]

WsInit ==
    /\ ws = [phase |-> "idle", must_close |-> FALSE, stop_flag |-> FALSE,
             in_websocket_handling |-> FALSE, ping_count |-> 0]
    /\ stream = <<>> /\ wire = <<>> /\ pulled = 0 /\ queue = <<>>
    /\ data = NoData /\ wsHandled = 0
    /\ writer = [w \in WsWriters \cup {0} |-> "idle"]
    /\ mutex = -1 /\ lastPart = <<>>

inVars  == <<stream, wire, pulled, queue, data, wsHandled>>
outVars == <<writer, mutex, lastPart>>

------------------------------------------------------------------------------
(* The peer                                                                *)

FrameBytes(f, n) == [k \in 1..(f.header_len + f.size) |-> <<n, k>>]

\* One more frame follows behind the last one.
FrameSent(f) ==
    /\ stream' = Append(stream, f)
    /\ wire' = wire \o FrameBytes(f, Len(stream) + 1)

PeerSends ==
    /\ ws.phase = "loop" /\ Len(stream) < WsFrames
    /\ \E m \in WsMessages : FrameSent(NewFrame(m, Len(wire)))
    /\ UNCHANGED <<ws, pulled, queue, data, wsHandled, outVars>>

Payload(f) == [k \in 1..stream[f].size |-> <<f, stream[f].header_len + k>>]

------------------------------------------------------------------------------
(* handle_websocket_request                                                *)

\* A bad key or version, a connect handler that refuses, no handler at all, or a
\* handshake that fails: the request ends without a websocket.
HandshakeFails ==
    /\ ws.phase = "idle" /\ ~ws.stop_flag
    /\ ws' = [ws EXCEPT !.phase = "close"]
    /\ UNCHANGED <<inVars, outVars>>

\* The subprotocol is chosen, the connect handler agrees, 101 is sent, the ready
\* handler is called and read_websocket is entered.
Handshake ==
    /\ ws.phase = "idle" /\ ~ws.stop_flag
    /\ ws' = [ws EXCEPT !.phase = "loop", !.in_websocket_handling = TRUE, !.ping_count = 0]
    /\ UNCHANGED <<inVars, outVars>>

------------------------------------------------------------------------------
(* read_websocket                                                          *)

Leave(w) == [w EXCEPT !.phase = "callback", !.in_websocket_handling = FALSE]

\* The loop condition.
LoopEnds ==
    /\ ws.phase = "loop"
    /\ ws.stop_flag \/ ws.must_close
    /\ ws' = Leave(ws)
    /\ UNCHANGED <<inVars, outVars>>

Looping == ws.phase = "loop" /\ ~ws.stop_flag /\ ~ws.must_close

\* The header in front of the queue, as the code would read it.
HeaderLen == IF Len(queue) < 2 THEN 0 ELSE stream[queue[1][1]].header_len
HeaderComplete == HeaderLen > 0 /\ Len(queue) >= HeaderLen

\* Mutant: after a frame that was in the queue, the bytes behind it are dropped.
FrameFromQueueDrops ==
    /\ Looping /\ HeaderComplete
    /\ LET f == queue[1][1]
           n == stream[f].size
       IN  /\ n + HeaderLen <= Len(queue)
           /\ data' = [op |-> stream[f].op, want |-> n, frame |-> f,
                       bytes |-> SubSeq(queue, HeaderLen + 1, HeaderLen + n)]
           /\ queue' = <<>>
    /\ ws' = [ws EXCEPT !.phase = "frame"]
    /\ UNCHANGED <<stream, wire, pulled, wsHandled, outVars>>

\* A whole frame is in the queue: it is copied and the queue moves forward.
FrameFromQueue ==
    /\ Looping /\ HeaderComplete
    /\ LET f == queue[1][1]
           n == stream[f].size
       IN  /\ n + HeaderLen <= Len(queue)
           /\ data' = [op |-> stream[f].op, want |-> n, frame |-> f,
                       bytes |-> SubSeq(queue, HeaderLen + 1, HeaderLen + n)]
           /\ queue' = SubSeq(queue, HeaderLen + n + 1, Len(queue))
    /\ ws' = [ws EXCEPT !.phase = "frame"]
    /\ UNCHANGED <<stream, wire, pulled, wsHandled, outVars>>

\* "Overflow case": the rest is pulled into the message.
FrameOverflows ==
    /\ Looping /\ HeaderComplete
    /\ LET f == queue[1][1]
           n == stream[f].size
       IN  /\ n + HeaderLen > Len(queue)
           /\ data' = [op |-> stream[f].op, want |-> n, frame |-> f,
                       bytes |-> SubSeq(queue, HeaderLen + 1, Len(queue))]
    /\ ws' = [ws EXCEPT !.phase = "overflow"]
    /\ UNCHANGED <<stream, wire, pulled, queue, wsHandled, outVars>>

\* No memory for the message, or it is too large.
NoMemory ==
    /\ Looping /\ HeaderComplete
    /\ ws' = Leave(ws)
    /\ UNCHANGED <<inVars, outVars>>

Rest == SubSeq(wire, pulled + 1, Len(wire))

\* pull_inner in the overflow case; a timeout is retried without an end.
OverflowPull ==
    /\ ws.phase = "overflow" /\ ~ws.stop_flag
    /\ \E n \in 1..Len(Rest) :
          /\ n <= data.want - Len(data.bytes)
          /\ data' = [data EXCEPT !.bytes = @ \o SubSeq(Rest, 1, n)]
          /\ pulled' = pulled + n
    /\ UNCHANGED <<ws, stream, wire, queue, wsHandled, outVars>>

\* pull_inner fails: the peer has gone, or the server stops.
OverflowFails ==
    /\ ws.phase = "overflow" /\ Len(data.bytes) < data.want
    /\ ws' = Leave(ws)
    /\ UNCHANGED <<inVars, outVars>>

OverflowDone ==
    /\ ws.phase = "overflow" /\ Len(data.bytes) = data.want
    /\ queue' = <<>>
    /\ ws' = [ws EXCEPT !.phase = "frame"]
    /\ UNCHANGED <<stream, wire, pulled, data, wsHandled, outVars>>

\* The frame is handled: a PONG is filtered, a PING answered, all others go to the
\* data handler, which may ask to close.
HandleFrame ==
    /\ ws.phase = "frame" /\ writer[0] = "idle"
    /\ wsHandled' = wsHandled + 1
    /\ data' = NoData
    /\ \/ /\ PingPong /\ data.op = "pong"
          /\ ws' = [ws EXCEPT !.ping_count = 0, !.phase = "loop"]
          /\ UNCHANGED writer
       \/ /\ PingPong /\ data.op = "ping"
          /\ ws' = [ws EXCEPT !.phase = "reply"]
          /\ writer' = [writer EXCEPT ![0] = "lock"]
       \/ /\ ~PingPong \/ data.op \notin {"ping", "pong"}
          /\ \/ data.op # "close" /\ ws' = [ws EXCEPT !.phase = "loop"]
             \/ ws' = Leave(ws)
          /\ UNCHANGED writer
    /\ UNCHANGED <<stream, wire, pulled, queue, mutex, lastPart>>

\* The PONG or PING was written; it may have failed.
Replied ==
    /\ ws.phase = "reply" /\ writer[0] = "idle"
    /\ \/ ws' = [ws EXCEPT !.phase = "loop"]
       \/ ws' = Leave(ws)
    /\ UNCHANGED <<inVars, outVars>>

\* "Read from the socket into the next available location".
Pull ==
    /\ Looping /\ ~HeaderComplete
    /\ \E n \in 1..Len(Rest) :
          /\ n <= WsBuffer - Len(queue)
          /\ queue' = queue \o SubSeq(Rest, 1, n)
          /\ pulled' = pulled + n
    /\ ws' = [ws EXCEPT !.ping_count = 0]
    /\ UNCHANGED <<stream, wire, data, wsHandled, outVars>>

PullFails ==
    /\ Looping /\ ~HeaderComplete
    /\ ws' = Leave(ws)
    /\ UNCHANGED <<inVars, outVars>>

\* The timeout: too many PINGs are unanswered, or one more is sent.
PullTimeout ==
    /\ Looping /\ ~HeaderComplete
    /\ IF ws.ping_count > MaxPing
       THEN ws' = Leave(ws) /\ UNCHANGED writer
       ELSE IF PingPong
       THEN /\ ws' = [ws EXCEPT !.phase = "reply", !.ping_count = @ + 1]
            /\ writer' = [writer EXCEPT ![0] = "lock"]
       ELSE UNCHANGED <<ws, writer>>
    /\ UNCHANGED <<inVars, mutex, lastPart>>

------------------------------------------------------------------------------
(* mg_websocket_write_exec                                                 *)

AppWrites(w) ==
    /\ ws.phase \notin {"idle", "close"} /\ w # 0 /\ writer[w] = "idle"
    /\ writer' = [writer EXCEPT ![w] = "lock"]
    /\ UNCHANGED <<ws, inVars, mutex, lastPart>>

\* Mutant: the mutex is not taken.
WriteUnlocked(w) ==
    /\ writer[w] = "lock"
    /\ mutex' = w
    /\ writer' = [writer EXCEPT ![w] = "header"]
    /\ UNCHANGED <<ws, inVars, lastPart>>

WriteLock(w) ==
    /\ writer[w] = "lock" /\ mutex = -1
    /\ mutex' = w
    /\ writer' = [writer EXCEPT ![w] = "header"]
    /\ UNCHANGED <<ws, inVars, lastPart>>

Unlocked(w) == mutex' = -1 /\ writer' = [writer EXCEPT ![w] = "idle"]

\* The header is written; there may be no data, or the write fails.
WriteHeader(w) ==
    /\ writer[w] = "header"
    /\ \/ lastPart' = <<w, "header">> /\ writer' = [writer EXCEPT ![w] = "data"] /\ UNCHANGED mutex
       \/ lastPart' = <<w, "header">> /\ Unlocked(w)
       \/ UNCHANGED lastPart /\ Unlocked(w)
    /\ UNCHANGED <<ws, inVars>>

WriteData(w) ==
    /\ writer[w] = "data"
    /\ \/ lastPart' = <<w, "data">>
       \/ UNCHANGED lastPart
    /\ Unlocked(w)
    /\ UNCHANGED <<ws, inVars>>

------------------------------------------------------------------------------
(* The end                                                                 *)

\* mg_close_connection by the application, while in_websocket_handling.
AppClose ==
    /\ ws.in_websocket_handling /\ ~ws.must_close
    /\ ws' = [ws EXCEPT !.must_close = TRUE]
    /\ UNCHANGED <<inVars, outVars>>

WsStop ==
    /\ ~ws.stop_flag /\ ws.phase # "idle"
    /\ ws' = [ws EXCEPT !.stop_flag = TRUE]
    /\ UNCHANGED <<inVars, outVars>>

\* The server is started again.
WsRestart ==
    /\ ws.phase = "idle" /\ ws.stop_flag
    /\ ws' = [ws EXCEPT !.stop_flag = FALSE]
    /\ UNCHANGED <<inVars, outVars>>

\* The close handler: the application forgets the connection.
CloseHandler ==
    /\ ws.phase = "callback"
    /\ ws' = [ws EXCEPT !.phase = "close"]
    /\ UNCHANGED <<inVars, outVars>>

\* Mutant: the connection is closed without its mutex.
CloseUnlocked ==
    /\ ws.phase = "close"
    /\ ws' = [ws EXCEPT !.phase = "idle", !.must_close = FALSE]
    /\ stream' = <<>> /\ wire' = <<>> /\ pulled' = 0 /\ queue' = <<>> /\ data' = NoData /\ wsHandled' = 0
    /\ writer' = [w \in DOMAIN writer |-> IF writer[w] = "lock" THEN "idle" ELSE writer[w]]
    /\ lastPart' = <<>>
    /\ UNCHANGED mutex

\* close_connection waits for the writer that holds the mutex; those that come
\* later find no socket.  The worker then serves the next client.
CloseConnection ==
    /\ ws.phase = "close" /\ mutex = -1
    /\ ws' = [ws EXCEPT !.phase = "idle", !.must_close = FALSE]
    /\ stream' = <<>> /\ wire' = <<>> /\ pulled' = 0 /\ queue' = <<>> /\ data' = NoData /\ wsHandled' = 0
    /\ writer' = [w \in DOMAIN writer |-> "idle"]
    /\ lastPart' = <<>>
    /\ UNCHANGED mutex

WorkerLoop ==
    \/ LoopEnds \/ FrameFromQueue \/ FrameOverflows \/ NoMemory
    \/ OverflowPull \/ OverflowFails \/ OverflowDone
    \/ HandleFrame \/ Replied \/ Pull \/ PullFails \/ PullTimeout
    \/ CloseHandler \/ CloseConnection

WsNext ==
    \/ PeerSends \/ HandshakeFails \/ Handshake \/ WorkerLoop
    \/ \E w \in DOMAIN writer : AppWrites(w) \/ WriteLock(w) \/ WriteHeader(w) \/ WriteData(w)
    \/ AppClose \/ WsStop \/ WsRestart

\* The worker thread goes on by itself - a poll returns at its timeout - and so
\* does every writer that was started; no fairness for peer and application.
WsFairness ==
    /\ WF_wsVars(LoopEnds \/ FrameFromQueue \/ FrameOverflows \/ OverflowDone \/ HandleFrame
                 \/ Replied \/ PullTimeout \/ CloseHandler \/ CloseConnection)
    /\ WF_wsVars(ws.stop_flag /\ OverflowFails)
    /\ \A w \in WsWriters \cup {0} :
          WF_wsVars(WriteHeader(w) \/ WriteData(w)) /\ SF_wsVars(WriteLock(w))

WsSpec == WsInit /\ [][WsNext]_wsVars /\ WsFairness

------------------------------------------------------------------------------
(* Properties                                                              *)

\* What the loop hands to the data handler is the payload of the peer's next
\* frame, byte for byte, however the network splits the stream and whether the
\* frame fits into the queue or not (read_websocket).
FrameExact ==
    ws.phase = "frame" => data.frame = wsHandled + 1 /\ data.bytes = Payload(wsHandled + 1)

\* Header and data of a frame follow each other on the wire, whichever threads
\* write, and the socket is not closed between them (the connection's mutex in
\* mg_websocket_write_exec and close_connection).
FramesWhole ==
    \A w \in DOMAIN writer : writer[w] = "data" => lastPart = <<w, "header">>

\* A websocket that is open when the server is stopped ends, also in the middle of
\* a frame and with a thread that is writing.
StopEndsWebsocket == (ws.stop_flag /\ ws.phase # "idle") ~> (ws.phase = "idle")

\* With PINGs, a peer that has gone silent is found out: "the maximum number of
\* websocket PINGs that might stay unanswered before the connection is considered
\* broken" (MG_MAX_UNANSWERED_PING).  It does not hold of one that stops in a frame.
SilentPeerClosed == (ws.phase = "loop") ~> (ws.phase = "idle")

\* What the client sent arrives at the data callback frame by frame, and what several
\* threads write leaves as whole frames (read_websocket, mg_websocket_write_exec).
WebsocketFrames == FrameExact /\ FramesWhole
=============================================================================
