------------------------ MODULE MCSqlSessionService ------------------------
(* Three appends to one session, two of which write the same app: row, a    *)
(* delete, a create and a read.                                             *)
EXTENDS SqlSessionService, TLC

CONSTANTS s1, k1, k2, a1, u1, e1, e2, e3, c1, d1, r1

MCSessionOf == [t \in Tx \cup Reader |-> s1]
MCWrites == (e1 :> {k1}) @@ (e2 :> {k1, k2}) @@ (e3 :> {}) @@ (c1 :> {k2}) @@ (d1 :> {})
MCShares == (e1 :> {}) @@ (e2 :> {a1}) @@ (e3 :> {a1}) @@ (c1 :> {u1}) @@ (d1 :> {})
=============================================================================
