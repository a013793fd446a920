---------------------------- MODULE MCModelStream ----------------------------
(* Responses of up to three blocks, each of up to two fragments.             *)
EXTENDS ModelStream

MCBlock(i) ==
    {[kind |-> k, body |-> SubSeq(<<<<i, 1>>, <<i, 2>>>>, 1, n), sig |-> None, id |-> None, whole |-> TRUE] :
        k \in {"text", "redacted", "unknown"}, n \in {0, 2}}
    \cup {[kind |-> "thought", body |-> SubSeq(<<<<i, 1>>, <<i, 2>>>>, 1, n), sig |-> s, id |-> None, whole |-> TRUE] :
        n \in {1, 2}, s \in {None, <<i, "sig">>}}
    \cup {[kind |-> "call", body |-> SubSeq(<<<<i, 1>>, <<i, 2>>>>, 1, n), sig |-> None, id |-> d, whole |-> TRUE] :
        n \in {0, 2}, d \in {None, <<i, "id">>}}
    \cup {[kind |-> "call", body |-> <<<<i, 1>>>>, sig |-> <<i, "sig">>, id |-> None, whole |-> TRUE]}
    \cup {[kind |-> "call", body |-> <<<<i, 1>>>>, sig |-> None, id |-> <<i, "id">>, whole |-> FALSE]}

MCPlans == {<<>>} \cup {<<b>> : b \in MCBlock(1)} \cup MCBlock(1) \X MCBlock(2)
           \cup MCBlock(1) \X MCBlock(2) \X MCBlock(3)
=============================================================================
