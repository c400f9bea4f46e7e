------------------------------- MODULE CgiEnv -------------------------------
(***************************************************************************)
(* The environment of a CGI program (prepare_cgi_environment): one buffer  *)
(* with all "NAME=VALUE" strings, which grows when it is full and may then *)
(* be somewhere else, and an array of pointers into it of fixed size.  A   *)
(* variable is its length; a pointer is the buffer it was made for and the *)
(* place in it.                                                            *)
(***************************************************************************)
EXTENDS Integers, Sequences

CONSTANTS CgiEnvironmentSize,  \* CGI_ENVIRONMENT_SIZE
          MaxCgiEnvirVars,     \* MAX_CGI_ENVIR_VARS
          MaxVariable,         \* bound: the longest variable
          MaxGrown             \* bound: how often the buffer is replaced

ASSUME CgiEnvAssumption ==
    /\ {CgiEnvironmentSize, MaxCgiEnvirVars, MaxVariable, MaxGrown} \subseteq Nat
    /\ CgiEnvironmentSize > 2 /\ MaxCgiEnvirVars > 1

VARIABLES envPhase,  \* which variables are added: "none", "server", "headers", "configured", "done"
          envBuf,    \* the buffer: how often it was replaced, its size, the lengths of its strings
          envVar     \* env->var: pointers

envVars == <<envPhase, envBuf, envVar>>

NoBuffer == [gen |-> 0, buflen |-> 0, strings |-> <<>>]
EnvInit == envPhase = "none" /\ envBuf = NoBuffer /\ envVar = <<>>

\* Each string takes its length and a NUL.
Used(strings) ==
    LET sum[i \in 0..Len(strings)] == IF i = 0 THEN 0 ELSE sum[i - 1] + strings[i] + 1
    IN  sum[Len(strings)]
bufused == Used(envBuf.strings)

-----------------------------------------------------------------------------
\* Both blocks are allocated, or the request fails.
EnvStart ==
    /\ envPhase = "none" /\ envPhase' = "server"
    /\ envBuf' = [gen |-> 0, buflen |-> CgiEnvironmentSize, strings |-> <<>>] /\ envVar' = <<>>

EnvStartFails ==
    /\ envPhase = "none" /\ envPhase' = "failed" /\ UNCHANGED <<envBuf, envVar>>

\* The strings are where they were relative to the buffer, whose place is new.
Pointer(buf, i) == [gen |-> buf.gen, at |-> Used(SubSeq(buf.strings, 1, i - 1))]

\* Mutant: the pointers into the old buffer are kept.
KeptPointers(buf) == envVar

Retargeted(buf) == [i \in DOMAIN envVar |-> Pointer(buf, i)]

\* The buffer after it was made larger k times.
Grown(k) == [gen |-> envBuf.gen + k, buflen |-> envBuf.buflen + k * CgiEnvironmentSize,
             strings |-> envBuf.strings]

\* A string of length n and its NUL fit, and there is room for one NUL more; the buffer is
\* made larger at once when no more than two bytes are left.
Fits(buf, n) == buf.buflen - bufused > 2 /\ n + 1 <= buf.buflen - bufused - 1

\* addenv: the buffer grows until the string is not truncated.
addenv(n) ==
    /\ Len(envVar) + 2 <= MaxCgiEnvirVars
    /\ \E k \in 0..MaxGrown :
         /\ envBuf.gen + k <= MaxGrown /\ Fits(Grown(k), n) /\ \A j \in 0..k - 1 : ~Fits(Grown(j), n)
         /\ envBuf' = [Grown(k) EXCEPT !.strings = Append(@, n)]
         /\ envVar' = Append(IF k = 0 THEN envVar ELSE Retargeted(Grown(k)),
                             [gen |-> Grown(k).gen, at |-> bufused])
    /\ UNCHANGED envPhase

\* addenv gives up when the buffer cannot be made larger, if need be after it has grown.
AddenvFails(n) ==
    /\ Len(envVar) + 2 <= MaxCgiEnvirVars
    /\ \E k \in 0..MaxGrown :
         /\ envBuf.gen + k <= MaxGrown /\ \A j \in 0..k : ~Fits(Grown(j), n)
         /\ envBuf' = Grown(k)
         /\ envVar' = IF k = 0 THEN envVar ELSE Retargeted(Grown(k))
    /\ UNCHANGED envPhase

\* No pointer is left: the variable is not registered.
AddenvFull ==
    /\ Len(envVar) + 2 > MaxCgiEnvirVars /\ envPhase \in {"server", "headers", "configured"}
    /\ UNCHANGED envVars

\* The variables of the server, the headers that are not too long, and cgi_environment.
EnvGoesOn ==
    /\ \/ envPhase = "server" /\ envPhase' = "headers"
       \/ envPhase = "headers" /\ envPhase' = "configured"
    /\ UNCHANGED <<envBuf, envVar>>

\* A header whose variable name would be truncated is left out.
HeaderTooLong == envPhase = "headers" /\ UNCHANGED envVars

\* The last pointer is NULL and the buffer ends with a second NUL.
EnvFinish == envPhase = "configured" /\ envPhase' = "done" /\ UNCHANGED <<envBuf, envVar>>

\* handle_cgi_request frees both blocks.
EnvFree == envPhase \in {"done", "failed"} /\ envPhase' = "none" /\ envBuf' = NoBuffer /\ envVar' = <<>>

EnvNext ==
    \/ EnvStart \/ EnvStartFails \/ EnvGoesOn \/ HeaderTooLong \/ EnvFinish \/ EnvFree \/ AddenvFull
    \/ /\ envPhase \in {"server", "headers", "configured"}
       /\ \E n \in 0..MaxVariable : addenv(n) \/ AddenvFails(n)

-----------------------------------------------------------------------------
(* Properties *)

\* The pointers name exactly the strings of the buffer that is there now, in their order,
\* however often it was moved, and the NUL and the NULL that end both blocks have a place
\* (civetweb.c addenv: "Retarget pointers", and prepare_cgi_environment at its end).
EnvExact ==
    envPhase # "none" =>
        /\ envVar = [i \in DOMAIN envBuf.strings |-> Pointer(envBuf, i)]
        /\ envPhase # "failed" => bufused < envBuf.buflen /\ Len(envVar) < MaxCgiEnvirVars
=============================================================================
