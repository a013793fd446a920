------------------------- MODULE SqlSessionService --------------------------
(***************************************************************************)
(* The SQL session stores (services/sql/sqlite_backend.rs and              *)
(* postgres_backend.rs): each call is a transaction of several statements, *)
(* with an await after each.  What a transaction writes is seen when it    *)
(* commits.  SQLite has one writer at a time, from its first write on;     *)
(* PostgreSQL locks the rows a statement touches until the end of its      *)
(* transaction.  A read is four statements and no transaction.             *)
(*                                                                         *)
(* append_event_locked applies the event to the live session before the    *)
(* transaction begins: whatever becomes of the transaction, the live       *)
(* session has the event.                                                  *)
(***************************************************************************)
EXTENDS Naturals, Sequences, FiniteSets

CONSTANTS
    Backends,    \* "sqlite", "postgres"
    Sid, Key, AppKey, UserKey,   \* sessions and the keys of each scope
    Appender, Creator, Deleter,  \* the calls; an appender is also its event
    Reader,      \* calls of get_session
    None,        \* no value; nobody
    Database,    \* what SQLite locks
    SessionOf, Writes, Shares,   \* of each call: its session, and the keys it writes
    Faults       \* "fail": a call fails or is dropped; "lost": the answer of a commit is

Tx == Appender \cup Creator \cup Deleter
Scoped == AppKey \cup UserKey

ASSUME SqlAssumption ==
    /\ Backends \subseteq {"sqlite", "postgres"}
    /\ Appender \cap Creator = {} /\ Appender \cap Deleter = {} /\ Creator \cap Deleter = {}
    /\ AppKey \cap UserKey = {} /\ None \notin Tx /\ Sid \cap Scoped = {}
    /\ Database \notin Sid \cup Scoped
    /\ SessionOf \in [Tx \cup Reader -> Sid]
    /\ Writes \in [Tx -> SUBSET Key] /\ Shares \in [Tx -> SUBSET Scoped]
    /\ \A d \in Deleter : Writes[d] = {} /\ Shares[d] = {}

VARIABLES
    backend,
    exists, state, eventRows, shared,  \* the tables, as committed
    pc,       \* of each transaction: the statement it is at
    base,     \* the state column an append has read
    hit,      \* appends whose SELECT found a row
    touched,  \* transactions that have written the session's row
    left,     \* the app: and user: rows still to be written
    gone,     \* the event rows a delete has taken
    taken,    \* history: the event rows deletes have taken for good
    owner,    \* the holder of each lock
    rpc, got, since  \* of a read: its step, what it has read, a delete meanwhile

tables == <<exists, state, eventRows, shared>>
work   == <<base, hit, touched, left, gone>>
reads  == <<rpc, got, since, taken>>
vars == <<backend, tables, pc, work, owner, reads>>

Values == Tx \cup {None}
States == [Key -> Values]
Item   == Sid \cup Scoped \cup {Database}

Blank == [k \in Key |-> None]
Merged(st, t) == [k \in Key |-> IF k \in Writes[t] THEN t ELSE st[k]]
EventsOf(s) == {e \in eventRows : SessionOf[e] = s}

NothingRead == [state |-> Blank, shared |-> [k \in Scoped |-> None], events |-> {}]

\* Every variable has its type, and a lock is held by a transaction that runs.
TypeOK ==
    /\ backend \in Backends /\ exists \subseteq Sid /\ state \in [Sid -> States]
    /\ eventRows \subseteq Appender /\ shared \in [Scoped -> Values]
    /\ pc \in [Tx -> {"first", "select", "row", "shared", "done", "failed"}]
    /\ base \in [Appender -> States] /\ hit \subseteq Appender /\ touched \subseteq Tx
    /\ left \in [Tx -> SUBSET Scoped] /\ gone \in [Deleter -> SUBSET Appender]
    /\ owner \in [Item -> Values]
    /\ \A i \in Item : owner[i] # None => pc[owner[i]] \notin {"done", "failed"}
    /\ rpc \in [Reader -> {"row", "app", "user", "events", "absent", "done"}]
    /\ got \in [Reader -> [state : States, shared : [Scoped -> Values], events : SUBSET Appender]]
    /\ since \subseteq Reader /\ taken \subseteq Appender

Init ==
    /\ backend \in Backends /\ exists \in SUBSET Sid
    /\ state = [s \in Sid |-> Blank] /\ eventRows = {} /\ shared = [k \in Scoped |-> None]
    /\ pc = [t \in Tx |-> "first"] /\ base = [e \in Appender |-> Blank]
    /\ hit = {} /\ touched = {} /\ left = Shares /\ gone = [d \in Deleter |-> {}]
    /\ owner = [i \in Item |-> None]
    /\ rpc = [r \in Reader |-> "row"] /\ got = [r \in Reader |-> NothingRead] /\ since = {} /\ taken = {}

-----------------------------------------------------------------------------
(* Locks.                                                                  *)

Running(t) == pc[t] \notin {"done", "failed"}

\* The lock a statement on this row takes.
LockOf(i) == IF backend = "sqlite" THEN Database ELSE i

\* The statement has the row to itself until its transaction ends.
Lock(t, i) ==
    /\ owner[LockOf(i)] \in {None, t}
    /\ owner' = [owner EXCEPT ![LockOf(i)] = t]

\* A statement that inserts an event takes a lock in SQLite only.
LockWriter(t) == IF backend = "sqlite" THEN Lock(t, Database) ELSE UNCHANGED owner

Release(t) == owner' = [i \in Item |-> IF owner[i] = t THEN None ELSE owner[i]]

\* The locals of a call go with it.
Forget(t) ==
    /\ base' = [e \in Appender |-> IF e = t THEN Blank ELSE base[e]]
    /\ hit' = hit \ {t} /\ touched' = touched \ {t} /\ left' = [left EXCEPT ![t] = {}]
    /\ gone' = [d \in Deleter |-> IF d = t THEN {} ELSE gone[d]]

To(t, place) == pc' = [pc EXCEPT ![t] = place]

\* The transaction is given up.
Rollback(t) ==
    /\ To(t, "failed") /\ Release(t) /\ Forget(t) /\ UNCHANGED <<backend, tables, reads>>

-----------------------------------------------------------------------------
(* append_event.                                                           *)

\* INSERT INTO events.  Without a session-scoped delta no state is read.
InsertEvent(e) ==
    /\ e \in Appender /\ pc[e] = "first" /\ LockWriter(e)
    /\ To(e, IF Writes[e] = {} THEN "row" ELSE "select")
    /\ UNCHANGED <<backend, tables, work, reads>>

\* The state column is read without FOR UPDATE.
SelectUnlocked(e) ==
    /\ e \in Appender /\ pc[e] = "select"
    /\ base' = [base EXCEPT ![e] = state[SessionOf[e]]]
    /\ hit' = IF SessionOf[e] \in exists THEN hit \cup {e} ELSE hit
    /\ To(e, "row") /\ UNCHANGED <<backend, tables, touched, left, gone, owner, reads>>

\* SELECT state ... FOR UPDATE.  A row that is not there is not locked, and its
\* state is the default.
SelectState(e) ==
    LET s == SessionOf[e] IN
    /\ e \in Appender /\ pc[e] = "select"
    /\ base' = [base EXCEPT ![e] = state[s]]
    /\ IF s \in exists THEN Lock(e, s) /\ hit' = hit \cup {e} ELSE UNCHANGED <<owner, hit>>
    /\ To(e, "row") /\ UNCHANGED <<backend, tables, touched, left, gone, reads>>

\* UPDATE sessions: the row may have come meanwhile, and may be absent.
UpdateRow(e) ==
    LET s == SessionOf[e] IN
    /\ e \in Appender /\ pc[e] = "row"
    /\ IF s \in exists
       THEN Lock(e, s) /\ touched' = touched \cup {e}
       ELSE UNCHANGED <<owner, touched>>
    /\ To(e, "shared") /\ UNCHANGED <<backend, tables, base, hit, left, gone, reads>>

\* The app: rows in any order, then the user: rows.
Upsert(t, k) ==
    /\ pc[t] = "shared" /\ k \in left[t]
    /\ k \in UserKey => left[t] \cap AppKey = {}
    /\ Lock(t, k) /\ left' = [left EXCEPT ![t] = @ \ {k}]
    /\ UNCHANGED <<backend, tables, pc, base, hit, touched, gone, reads>>

-----------------------------------------------------------------------------
(* create_session and delete_session.                                      *)

\* INSERT INTO sessions waits for who holds the row, and fails when it is there.
InsertSession(c) ==
    /\ c \in Creator /\ pc[c] = "first" /\ owner[LockOf(SessionOf[c])] = None
    /\ IF SessionOf[c] \in exists
       THEN Rollback(c)
       ELSE /\ To(c, "shared") /\ Lock(c, SessionOf[c]) /\ touched' = touched \cup {c}
            /\ UNCHANGED <<backend, tables, base, hit, left, gone, reads>>

\* DELETE FROM events: those that are committed by now.
DeleteEvents(d) ==
    /\ d \in Deleter /\ pc[d] = "first" /\ LockWriter(d)
    /\ gone' = [gone EXCEPT ![d] = EventsOf(SessionOf[d])]
    /\ To(d, "row") /\ UNCHANGED <<backend, tables, base, hit, touched, left, reads>>

\* DELETE FROM sessions.
DeleteRow(d) ==
    /\ d \in Deleter /\ pc[d] = "row"
    /\ IF SessionOf[d] \in exists
       THEN Lock(d, SessionOf[d]) /\ touched' = touched \cup {d}
       ELSE UNCHANGED <<owner, touched>>
    /\ To(d, "shared") /\ UNCHANGED <<backend, tables, base, hit, left, gone, reads>>

-----------------------------------------------------------------------------
(* The end of a transaction.                                               *)

\* What an append, a create and a delete leave in the tables.
Appended(e) ==
    /\ eventRows' = eventRows \cup {e} /\ UNCHANGED exists
    /\ state' = IF e \in touched /\ Writes[e] # {}
                THEN [state EXCEPT ![SessionOf[e]] = Merged(base[e], e)] ELSE state

Created(c) ==
    /\ exists' = exists \cup {SessionOf[c]} /\ UNCHANGED eventRows
    /\ state' = [state EXCEPT ![SessionOf[c]] = Merged(Blank, c)]

Deleted(d) ==
    /\ eventRows' = eventRows \ gone[d]
    /\ exists' = IF d \in touched THEN exists \ {SessionOf[d]} ELSE exists
    /\ state' = IF d \in touched THEN [state EXCEPT ![SessionOf[d]] = Blank] ELSE state

\* COMMIT.  Its answer may be lost.
Commit(t) ==
    /\ pc[t] = "shared" /\ left[t] = {}
    /\ To(t, "done") \/ ("lost" \in Faults /\ To(t, "failed"))
    /\ \/ t \in Appender /\ Appended(t)
       \/ t \in Creator /\ Created(t)
       \/ t \in Deleter /\ Deleted(t)
    /\ shared' = [k \in Scoped |-> IF k \in Shares[t] THEN t ELSE shared[k]]
    /\ since' = IF t \in Deleter THEN since \cup {r \in Reader : rpc[r] # "row"} ELSE since
    /\ Release(t) /\ Forget(t)
    /\ taken' = IF t \in Deleter THEN taken \cup gone[t] ELSE taken
    /\ UNCHANGED <<backend, rpc, got>>

\* The error of a statement is dropped on the way up.
AbortSwallowed(t) ==
    /\ Running(t) /\ "fail" \in Faults /\ To(t, "done") /\ Release(t) /\ Forget(t)
    /\ UNCHANGED <<backend, tables, reads>>

\* A statement fails, finds the database busy for too long or is chosen to end a
\* deadlock; or the future is dropped, or the process dies.
Abort(t) == Running(t) /\ "fail" \in Faults /\ Rollback(t)

-----------------------------------------------------------------------------
(* get_session.                                                            *)

\* The events are read before the app: and user: rows.
ReadEventsFirst(place) ==
    CASE place = "row" -> "events" [] place = "events" -> "app"
      [] place = "app" -> "user" [] place = "user" -> "done"

\* The statement after this one.
After(place) ==
    CASE place = "row" -> "app" [] place = "app" -> "user"
      [] place = "user" -> "events" [] place = "events" -> "done"

Overlay(r, keys) == [k \in Scoped |-> IF k \in keys THEN shared[k] ELSE got[r].shared[k]]

\* Without a row there is no session, whatever events there are.
ReadStep(r) ==
    LET s == SessionOf[r] IN
    /\ \/ /\ rpc[r] = "row" /\ s \notin exists
          /\ rpc' = [rpc EXCEPT ![r] = "absent"] /\ UNCHANGED got
       \/ /\ rpc[r] = "row" /\ s \in exists
          /\ got' = [got EXCEPT ![r].state = state[s]] /\ rpc' = [rpc EXCEPT ![r] = After("row")]
       \/ /\ rpc[r] = "app" /\ got' = [got EXCEPT ![r].shared = Overlay(r, AppKey)]
          /\ rpc' = [rpc EXCEPT ![r] = After("app")]
       \/ /\ rpc[r] = "user" /\ got' = [got EXCEPT ![r].shared = Overlay(r, UserKey)]
          /\ rpc' = [rpc EXCEPT ![r] = After("user")]
       \/ /\ rpc[r] = "events" /\ got' = [got EXCEPT ![r].events = EventsOf(s)]
          /\ rpc' = [rpc EXCEPT ![r] = After("events")]
    /\ UNCHANGED <<backend, tables, pc, work, owner, since, taken>>

-----------------------------------------------------------------------------

Statement(t) ==
    \/ InsertEvent(t) \/ SelectState(t) \/ UpdateRow(t)
    \/ InsertSession(t) \/ DeleteEvents(t) \/ DeleteRow(t)
    \/ \E k \in Scoped : Upsert(t, k)

Next ==
    \/ \E t \in Tx : Statement(t) \/ Commit(t) \/ Abort(t)
    \/ \E r \in Reader : ReadStep(r)

Spec == Init /\ [][Next]_vars

-----------------------------------------------------------------------------
(* Properties.                                                             *)

\* The calls of both stores are atomic on the tables, and no append loses what
\* another has written ("concurrent writers no longer clobber each other's
\* keys"): only one that found no row may write over a session created since.
Blind == {e \in Appender : pc[e] \in {"row", "shared"} /\ e \notin hit /\ Writes[e] # {}}
         \cup {d \in Deleter : pc[d] = "shared" /\ d \notin touched}
Table == INSTANCE SessionTable WITH blind <- Blind
ImplementsSessionTable == Table!Spec

\* An append that has returned Ok is in the events table, unless a delete has
\* taken it: no error is answered with Ok and no commit is forgotten.
AckedIsDurable ==
    \A e \in Appender : pc[e] = "done" => e \in eventRows \cup taken

\* get_session reads state and events in separate statements, and never returns
\* a value of an event of the session without the event: unless the session is
\* deleted meanwhile.
ReadIsBacked ==
    \A r \in Reader : rpc[r] = "done" /\ r \notin since =>
        \A e \in Appender : SessionOf[e] = SessionOf[r] =>
            /\ (\E k \in Key : got[r].state[k] = e) => e \in got[r].events
            /\ (\E k \in Scoped : got[r].shared[k] = e) => e \in got[r].events \cup taken

=============================================================================
