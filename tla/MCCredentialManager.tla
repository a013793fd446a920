------------------------- MODULE MCCredentialManager -------------------------
(* Two tool calls and two callbacks, every kind of configuration.          *)
EXTENDS CredentialManager, TLC

MCSymmetry == Permutations(Resolver) \cup Permutations(Callback)

=============================================================================
