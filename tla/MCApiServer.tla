---------------------------- MODULE MCApiServer ----------------------------
(* Three requests on one session and one artifact name: two runs and what  *)
(* else may come in while they go on.                                      *)
EXTENDS ApiServer, TLC

CONSTANTS q1, q2, q3

MCAsks == (q1 :> {"run_sse", "create"}) @@ (q2 :> {"run", "patch", "load"})
              @@ (q3 :> {"delete", "load", "delete_artifact"})
MCBody == Request \X (0 .. MaxEvents + 1)
=============================================================================
