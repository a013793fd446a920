---------------------------- MODULE MCModelClient ----------------------------
(* Three calls; two prefixes that share a system instruction, and requests    *)
(* that differ in everything the bodies depend on.                            *)
EXTENDS ModelClient, TLC

MCRequest(s, t, k, b, m) ==
    [sys |-> s, tools |-> t, cache |-> k, big |-> TRUE, budget |-> b, max |-> m, temperature |-> 1]

Both == MCRequest("sys", "tools", "short", 3, None)
Sys  == MCRequest("sys", None, "long", None, 5)

MCRequests == {Both, Sys}

Ask(ps, rs, ss) == [provider : ps, req : rs, streams : ss]

CONSTANTS c1, c2, c3
MCAsks == c1 :> Ask({"gemini"}, {Both}, {FALSE})
       @@ c2 :> Ask({"gemini"}, {Both}, {TRUE})
       @@ c3 :> (Ask({"gemini"}, {Both, Sys}, {FALSE}) \cup Ask({"anthropic"}, {Both, Sys}, {TRUE})
                   \cup Ask({"openai"}, {Both}, {TRUE}))
=============================================================================
