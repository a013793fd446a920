---------------------------- MODULE SessionTable ----------------------------
(***************************************************************************)
(* What the two SQL session stores promise (services/sql): a session row,  *)
(* the rows of its events and the app:/user: rows change together, one     *)
(* call at a time, and an append merges its delta into what is stored, so  *)
(* "concurrent writers no longer clobber each other's keys".  The one way  *)
(* out is a call that has found no session: one created since is written   *)
(* over by an append, and left by a delete.                                *)
(***************************************************************************)
CONSTANTS
    Sid, Key, Scoped,        \* sessions, session-scoped keys, app: and user: keys
    Appender, Creator, Deleter,  \* calls; an appender is also its event
    None,                    \* no value
    SessionOf, Writes, Shares    \* of each call: its session, and the keys it writes

VARIABLES
    exists,     \* sessions with a row
    state,      \* the state column; a value is the call that wrote it
    eventRows,  \* the events table
    shared,     \* the app_state and user_state tables
    blind       \* appends and deletes that have found no row

tableVars == <<exists, state, eventRows, shared, blind>>

Blank == [k \in Key |-> None]

Merged(st, t) == [k \in Key |-> IF k \in Writes[t] THEN t ELSE st[k]]

Upserted(t) == [k \in Scoped |-> IF k \in Shares[t] THEN t ELSE shared[k]]

EventsOf(s) == {e \in eventRows : SessionOf[e] = s}

Init ==
    /\ exists \subseteq Sid /\ state = [s \in Sid |-> Blank]
    /\ eventRows = {} /\ shared = [k \in Scoped |-> None] /\ blind = {}

\* The event is stored, and its delta merged where there is a row.
Append(e) ==
    LET s == SessionOf[e] IN
    /\ eventRows' = eventRows \cup {e} /\ shared' = Upserted(e)
    /\ \/ s \in exists /\ state' = [state EXCEPT ![s] = Merged(@, e)]
       \/ s \in exists /\ e \in blind /\ state' = [state EXCEPT ![s] = Merged(Blank, e)]
       \/ (s \notin exists \/ e \in blind) /\ UNCHANGED state
    /\ UNCHANGED exists /\ blind' = blind \ {e}

Create(c) ==
    /\ SessionOf[c] \notin exists
    /\ exists' = exists \cup {SessionOf[c]}
    /\ state' = [state EXCEPT ![SessionOf[c]] = Merged(Blank, c)]
    /\ shared' = Upserted(c) /\ UNCHANGED <<eventRows, blind>>

\* Events that are stored while the call runs may be left behind.
Delete(d) ==
    /\ \/ /\ exists' = exists \ {SessionOf[d]}
          /\ state' = [state EXCEPT ![SessionOf[d]] = Blank]
       \/ d \in blind /\ UNCHANGED <<exists, state>>
    /\ \E gone \in SUBSET EventsOf(SessionOf[d]) : eventRows' = eventRows \ gone
    /\ blind' = blind \ {d} /\ UNCHANGED shared

Lookup(t) ==
    /\ SessionOf[t] \notin exists /\ blind' = blind \cup {t}
    /\ UNCHANGED <<exists, state, eventRows, shared>>

GiveUp(t) ==
    /\ blind' = blind \ {t} /\ UNCHANGED <<exists, state, eventRows, shared>>

Next ==
    \/ \E e \in Appender : Append(e)
    \/ \E t \in Appender \cup Deleter : Lookup(t) \/ GiveUp(t)
    \/ \E c \in Creator : Create(c)
    \/ \E d \in Deleter : Delete(d)

Spec == Init /\ [][Next]_tableVars
=============================================================================
