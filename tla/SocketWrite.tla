---------------------------- MODULE SocketWrite ----------------------------
(***************************************************************************)
(* mg_write: one connection sends its responses through push_all and       *)
(* push_inner, with or without the bandwidth limit of the `throttle`       *)
(* option.  The limit belongs to the URI of a request (set_throttle); what *)
(* was sent in the present second belongs to the connection.  Lengths      *)
(* count bytes, the clock counts seconds.                                  *)
(***************************************************************************)
EXTENDS Integers

CONSTANTS Rates,      \* the values of conn->throttle; 0: no limit
          MaxWrite,   \* bound: bytes of one call
          MaxTime     \* bound: seconds

ASSUME SocketWriteAssumption ==
    /\ Rates \subseteq Nat /\ \E r \in Rates : \A q \in Rates : q <= r   \* it is an int
    /\ MaxWrite \in Nat /\ MaxTime \in Nat

VARIABLES
    throttle,    \* conn->throttle
    last,        \* conn->last_throttle_time and last_throttle_bytes
    clock,       \* time(NULL)
    write,       \* the call in progress, or the last one
    second,      \* bytes of limited writes that left in the present second
    link         \* the socket: "open", "broken" (error or timeout), "stopped" (stop_flag)

writeVars == <<throttle, last, clock, write, second, link>>

NoWrite == [at |-> "idle", len |-> 0, total |-> 0, allowed |-> 0, pushed |-> 0, sent |-> 0]

WriteInit ==
    /\ throttle = 0
    /\ last = [time |-> -1, bytes |-> 0]
    /\ clock = 0
    /\ write = NoWrite
    /\ second = 0
    /\ link = "open"

Least(a, b) == IF a < b THEN a ELSE b

\* The next request on the connection sets conn->throttle for its URI.
SetThrottle ==
    /\ write.at = "idle"
    /\ throttle' \in Rates
    /\ UNCHANGED <<last, clock, write, second, link>>

\* mg_write is called: what may be sent at once.
MgWrite ==
    /\ write.at = "idle"
    /\ \E len \in 0..MaxWrite :
          LET fresh == IF clock # last.time THEN [time |-> clock, bytes |-> 0] ELSE last
          IN  IF throttle = 0
              THEN /\ write' = [NoWrite EXCEPT !.at = "all", !.len = len, !.allowed = len]
                   /\ UNCHANGED last
              ELSE /\ write' = [NoWrite EXCEPT !.at = "first", !.len = len,
                                               !.allowed = Least(throttle - fresh.bytes, len)]
                   /\ last' = fresh
    /\ UNCHANGED <<throttle, clock, second, link>>

Leaves(n) == second' = IF throttle = 0 THEN second ELSE second + n

Pushing == write.at \in {"all", "first", "loop"}

\* What mg_write returns when push_all has not sent all of a round: the sum of the
\* earlier rounds, or in the first one what push_all returns.
Returned(n) == [write EXCEPT !.at = "returned",
                             !.total = IF write.at = "loop" THEN @ ELSE n]

\* push_inner: send() takes some of the bytes.
PushInner ==
    /\ Pushing /\ link = "open"
    /\ \E n \in 1..(write.allowed - write.pushed) :
          /\ Leaves(n)
          /\ write' = [write EXCEPT !.pushed = @ + n, !.sent = @ + n]
    /\ UNCHANGED <<throttle, last, clock, link>>

\* push_inner fails: an error or the timeout, or the server stops while bytes
\* leave, which are then not counted.  push_all returns -1 or what it had sent.
PushFails ==
    /\ Pushing /\ link = "open" /\ write.pushed < write.allowed
    /\ \E n \in 0..(write.allowed - write.pushed) :
          /\ link' = IF n = 0 THEN "broken" ELSE "stopped"
          /\ Leaves(n)
          /\ write' = [Returned(IF write.pushed = 0 THEN -1 ELSE write.pushed) EXCEPT !.sent = @ + n]
    /\ UNCHANGED <<throttle, last, clock>>

\* The server stops between two calls of push_inner; or the socket is broken.
PushEnds ==
    /\ Pushing /\ link # "open" /\ write.pushed < write.allowed
    /\ write' = Returned(IF link = "broken" /\ write.pushed = 0 THEN -1 ELSE write.pushed)
    /\ UNCHANGED <<throttle, last, clock, second, link>>

\* push_all has sent all it was asked for; without a limit that is the end.
PushDone ==
    /\ Pushing /\ write.pushed >= write.allowed
    /\ write.at # "loop"
    /\ IF write.at = "all" \/ write.pushed # write.allowed \/ link = "stopped"
             \/ write.pushed >= write.len
       THEN write' = [write EXCEPT !.total = write.pushed, !.at = "returned"]
       ELSE write' = [write EXCEPT !.total = write.pushed, !.pushed = 0, !.at = "loop",
                                   !.allowed = Least(throttle, write.len - write.pushed)]
    /\ last' = IF write.at = "first" /\ write.pushed = write.allowed
               THEN [last EXCEPT !.bytes = @ + write.pushed] ELSE last
    /\ UNCHANGED <<throttle, clock, second, link>>

\* Mutant: the next round is sent without sleep(1).
PushOn ==
    /\ write.at = "loop" /\ write.pushed = write.allowed
    /\ LET total == write.total + write.pushed
       IN  write' = [write EXCEPT !.total = total, !.pushed = 0,
                                  !.allowed = Least(throttle, write.len - total),
                                  !.at = IF total >= write.len \/ link = "stopped"
                                         THEN "returned" ELSE "loop"]
    /\ UNCHANGED <<throttle, last, clock, second, link>>

\* A later round is complete: sleep(1), then the next one.
PushSleep ==
    /\ write.at = "loop" /\ write.pushed = write.allowed
    /\ clock < MaxTime
    /\ clock' = clock + 1
    /\ second' = 0
    /\ last' = [time |-> clock + 1, bytes |-> write.allowed]
    /\ LET total == write.total + write.pushed
       IN  write' = [write EXCEPT !.total = total, !.pushed = 0,
                                  !.allowed = Least(throttle, write.len - total),
                                  !.at = IF total >= write.len \/ link = "stopped"
                                         THEN "returned" ELSE "loop"]
    /\ UNCHANGED <<throttle, link>>

WriteReturns ==
    /\ write.at = "returned"
    /\ write' = NoWrite
    /\ UNCHANGED <<throttle, last, clock, second, link>>

Tick ==
    /\ clock < MaxTime
    /\ clock' = clock + 1
    /\ second' = 0
    /\ UNCHANGED <<throttle, last, write, link>>

StopWrite ==
    /\ link = "open"
    /\ link' = "stopped"
    /\ UNCHANGED <<throttle, last, clock, write, second>>

\* The end of a connection, or of the time that is looked at.
CloseWrite ==
    /\ clock = MaxTime \/ write.at = "idle"
    /\ throttle' = 0 /\ last' = [time |-> -1, bytes |-> 0] /\ clock' = 0
    /\ write' = NoWrite /\ second' = 0 /\ link' = "open"

WriteNext ==
    \/ SetThrottle \/ MgWrite \/ PushInner \/ PushFails \/ PushEnds \/ PushDone
    \/ PushSleep \/ WriteReturns \/ Tick \/ StopWrite \/ CloseWrite

WriteSpec == WriteInit /\ [][WriteNext]_writeVars

------------------------------------------------------------------------------
(* Properties                                                              *)

MaxRate == CHOOSE r \in Rates : \A q \in Rates : q <= r

\* With a limit, no second sees more than three times the rate leave: a round of
\* an earlier call that the clock overtook, the rest of the rate that mg_write
\* allows at once, and one full round before its first sleep(1), however the
\* application divides its writes over the seconds.
RateBound == second <= 3 * MaxRate
=============================================================================
