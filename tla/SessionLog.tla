----------------------------- MODULE SessionLog -----------------------------
(***************************************************************************)
(* What a session store promises (core/session.rs: "All events ever        *)
(* appended to this session (oldest first)"; services/mem/session.rs: an   *)
(* append never replaces).  Each session is absent or an append-only,      *)
(* duplicate-free log.  A session can be deleted; an append to one that is *)
(* absent restores it from the writer's own log.                           *)
(***************************************************************************)
EXTENDS EventLog

CONSTANTS
    Sid,         \* session ids
    Event,       \* event ids
    RacyCreate   \* calls may create a session on demand, and race to do it

VARIABLES
    present,   \* which sessions exist
    log        \* the events of each

logVars == <<present, log>>

Holds(evs, e) == \E i \in 1..Len(evs) : evs[i] = e

Init ==
    /\ present \in [Sid -> BOOLEAN]
    /\ log = [s \in Sid |-> <<>>]

AppendNew(s, e) ==
    /\ present[s]
    /\ log' = [log EXCEPT ![s] = Append(@, e)]
    /\ ~Holds(log[s], e)
    /\ UNCHANGED present

\* On demand creation, which can find that somebody else was faster.
Create(s) ==
    /\ ~present[s] \/ RacyCreate
    /\ present' = [present EXCEPT ![s] = TRUE]
    /\ log' = [log EXCEPT ![s] = <<>>]

Delete(s) ==
    /\ present[s]
    /\ present' = [present EXCEPT ![s] = FALSE]
    /\ log' = [log EXCEPT ![s] = <<>>]

\* The restored log is the writer's: anything without duplicates.
Restore(s) ==
    /\ ~present[s]
    /\ log'[s] \in Seq(Event)
    /\ NoDuplicates(log'[s])
    /\ present' = [present EXCEPT ![s] = TRUE]
    /\ log' = [log EXCEPT ![s] = log'[s]]

Next ==
    \E s \in Sid :
        \/ \E e \in Event : AppendNew(s, e)
        \/ Create(s)
        \/ Delete(s)
        \/ Restore(s)

Spec == Init /\ [][Next]_logVars
=============================================================================
