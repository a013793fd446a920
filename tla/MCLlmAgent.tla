----------------------------- MODULE MCLlmAgent -----------------------------
(* Two agents that can transfer to each other.  "read" needs a             *)
(* confirmation, "deploy" a consent too; the model makes "ghost" up.       *)
EXTENDS LlmAgent

MCSubAgents == [a |-> {"b"}, b |-> {}]
MCTools == [a |-> {"deploy", "read", "exit", "choose"}, b |-> {"read", "show", "to_a"}]
MCDoes ==
    [deploy |-> "value", read |-> "value", choose |-> "value", exit |-> "escalate", show |-> "final",
     to_a |-> "a", to_b |-> "b", ghost |-> "value"]

=============================================================================
