--------------------------- MODULE MCPushNotifier ---------------------------
(* PushNotifier on a small instance: registrations against a deletion, and *)
(* the end of a task under its subscribers.                                *)
EXTENDS PushNotifier

CONSTANTS s1, s2, c1, c2

\* Both registrations are of one id, which a deletion of all stops, or each is of
\* its own, and a deletion is of one of them.
MCAsks ==
    {f \in [{s1, s2} \cup Deleter -> Config \cup {Every}] :
        /\ f[s1] = c1
        /\ f[s2] \in Config
        /\ \A d \in Deleter : f[d] = IF f[s2] = c1 THEN Every ELSE c1}
=============================================================================
