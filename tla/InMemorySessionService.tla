----------------------- MODULE InMemorySessionService -----------------------
(***************************************************************************)
(* The volatile session store (services/mem/session.rs) and the session    *)
(* record it shares with a running invocation (core/session.rs,            *)
(* core/services.rs).                                                      *)
(*                                                                         *)
(* An event is an opaque value: its id.  Every event carries a state       *)
(* delta, and what matters of a delta is whose write is the last one: the  *)
(* session-scoped state of a session is the event that wrote it last, and  *)
(* the app:/user: scopes are the set of events whose delta reached them.   *)
(***************************************************************************)
EXTENDS EventLog

CONSTANTS
    Sid,       \* session ids (one app, one user)
    Event,     \* event ids
    NoEvent    \* "no delta applied yet"

ASSUME NoEventAssumption == NoEvent \notin Event

VARIABLES
    sessions,  \* the DashMap of slots
    scoped     \* events applied to the app:/user: slots

storeVars == <<sessions, scoped>>

Session == [events: Seq(Event), state: Event \cup {NoEvent}]
Slot    == [present: BOOLEAN, session: Session]

NewSession == [events |-> <<>>, state |-> NoEvent]
NoSlot     == [present |-> FALSE, session |-> NewSession]

StoreTypeOK ==
    /\ sessions \in [Sid -> Slot]
    /\ scoped \subseteq Event

\* Sessions created before the first invocation are empty.
StoreInit ==
    /\ sessions \in [Sid -> {NoSlot, [NoSlot EXCEPT !.present = TRUE]}]
    /\ scoped = {}

-----------------------------------------------------------------------------
(* Pure operations on a session record. *)

\* apply_event_to_session: apply the delta and push the event.
ApplyEvent(s, e) == [events |-> Append(s.events, e), state |-> e]

\* sess.events.push, as agents do it: no delta is applied.
PushEvent(s, e) == [s EXCEPT !.events = Append(@, e)]

\* The position rposition finds: the last event with this id.
PositionOf(evs, e) ==
    CHOOSE i \in 1..Len(evs) : evs[i] = e /\ \A j \in i+1..Len(evs) : evs[j] # e

\* Mutant: the runner leaves the agent's copy in the live log.
WithoutEventKept(s, e) == s

\* Take the event with this id out of the live log, if it is there.
WithoutEvent(s, e) ==
    IF Contains(s.events, e)
    THEN [s EXCEPT !.events = RemoveAt(@, PositionOf(@, e))]
    ELSE s

-----------------------------------------------------------------------------
(* Operations of the store.  Each is one critical section.                 *)

Has(sid) == sessions[sid].present

\* create_session, second half: `sessions.insert(key, arc)` replaces
\* whatever the slot holds by now.
InsertSession(sid) ==
    /\ sessions' = [sessions EXCEPT ![sid] = [present |-> TRUE, session |-> NewSession]]
    /\ UNCHANGED scoped

\* delete_session.
DeleteSession(sid) ==
    /\ sessions' = [sessions EXCEPT ![sid] = NoSlot]
    /\ UNCHANGED scoped

\* The app_slot / user_slot writes of an append.
ApplyScoped(e) ==
    /\ scoped' = scoped \cup {e}
    /\ UNCHANGED sessions

\* Mutant: the caller's snapshot replaces the stored session.
MirroredReplacing(slot, seed, e) == [present |-> TRUE, session |-> seed]

\* Mutant: the delta is applied only to a session the store did not know.
MirroredStale(slot, seed, e) ==
    LET base == IF slot.present THEN slot.session ELSE seed IN
    [present |-> TRUE, session |-> [base EXCEPT !.events = Append(@, e)]]

\* What mirror_event leaves in a slot: the caller's snapshot seeds a session
\* the store does not know; the event is appended unless its id is there; its
\* delta is applied in any case.
Mirrored(slot, seed, e) ==
    LET base == IF slot.present THEN slot.session ELSE seed IN
    [present |-> TRUE,
     session |-> [events |-> IF Contains(base.events, e) THEN base.events
                             ELSE Append(base.events, e),
                  state  |-> e]]

MirrorEvent(sid, seed, e) ==
    /\ sessions' = [sessions EXCEPT ![sid] = Mirrored(@, seed, e)]
    /\ UNCHANGED scoped
=============================================================================
