-------------------------- MODULE MCRemoteA2aAgent --------------------------
(* A remote agent and its server on a small instance: tasks do not share      *)
(* state, so one call with other callers of its task shows every interaction. *)
EXTENDS RemoteA2aAgent

MCReceiver == Task \cup Watcher
MCTurns == {2}
=============================================================================
