---------------------------- MODULE MCCgiProcess ----------------------------
(* Small instances of CgiProcess, with its timers, for TLC.                 *)
EXTENDS CgiProcess

CONSTANT l   \* the timer of a Lua script, called in every period

MCPeriod == [i \in Timer |-> IF i = l THEN 1 ELSE 0]
=============================================================================
