-------------------------- MODULE MCWorkflowAgents --------------------------
(* WorkflowAgents on a tree with agents of every kind.                      *)
EXTENDS WorkflowAgents, TLC

\* A leaf, then a parallel agent with a sequence and a loop.
MixedTree ==
    <<>> :> "sequential" @@ <<1>> :> "leaf" @@ <<2>> :> "parallel"
        @@ <<2, 1>> :> "sequential" @@ <<2, 1, 1>> :> "leaf" @@ <<2, 1, 2>> :> "leaf"
        @@ <<2, 2>> :> "loop" @@ <<2, 2, 1>> :> "leaf"

\* One event of one leaf of the loop.
OneOfEachBranch == [l \in Leaf |-> IF l = <<2, 2, 1>> THEN 1 ELSE 0]
=============================================================================
