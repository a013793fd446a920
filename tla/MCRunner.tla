------------------------------ MODULE MCRunner ------------------------------
(* Runner on a small instance: two calls, one of them with an agent whose    *)
(* branches may both have an event in flight.                                *)
EXTENDS Runner, TLC

CONSTANTS h1, h2

MCEmits == (h1 :> 2) @@ (h2 :> 0)
MCEvent == UNION {{h} \X (0 .. Emits[h] + 1) : h \in Handle}
=============================================================================
