---------------------------- MODULE MCMcpClient ----------------------------
(* McpClient on a small instance. *)
EXTENDS McpClient
=============================================================================
