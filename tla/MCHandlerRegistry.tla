------------------------- MODULE MCHandlerRegistry -------------------------
(* Small instances of HandlerRegistry for TLC.                              *)
EXTENDS HandlerRegistry, TLC

CONSTANTS a, b   \* b is below a: handlers for a also match requests for b

MCPartial == {<<a, b>>}
MCPattern == {<<a, a>>, <<a, b>>, <<b, b>>}

ThreadSymmetry == Permutations(Setter) \cup Permutations(Server)
=============================================================================
