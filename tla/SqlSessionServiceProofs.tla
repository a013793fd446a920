----------------------- MODULE SqlSessionServiceProofs -----------------------
(***************************************************************************)
(* Proofs about module SqlSessionService, for any calls, sessions and      *)
(* keys, either backend and every fault: type correctness, an append that  *)
(* was answered with Ok is stored, a read never has a value without its    *)
(* event, and the calls implement the atomic ones of module SessionTable.  *)
(***************************************************************************)
EXTENDS SqlSessionService, TLAPS

\* What the assumption on the constants says of one call, session or key.
LEMMA CallFacts ==
    /\ \A t \in Tx : SessionOf[t] \in Sid /\ Writes[t] \subseteq Key /\ Shares[t] \subseteq Scoped
    /\ \A r \in Reader : SessionOf[r] \in Sid
    /\ \A t \in Tx : t # None
    /\ \A d \in Deleter : Writes[d] = {} /\ Shares[d] = {}
    /\ \A i \in Sid \cup Scoped : LockOf(i) \in Item
    /\ Blank \in States /\ \A k \in Key : Blank[k] = None
BY SqlAssumption DEF Tx, LockOf, Item, Scoped, Blank, States, Values

\* The merged state has the call's own values over those it started from.
LEMMA MergedFacts ==
    ASSUME NEW t \in Tx, NEW st \in States
    PROVE  /\ Merged(st, t) \in States
           /\ \A k \in Key : Merged(st, t)[k] \in {t, st[k]}
           /\ Writes[t] = {} => Merged(st, t) = st
BY DEF Merged, States, Values

\* The statements of get_session, in their order.
LEMMA StatementOrder ==
    /\ After("row") = "app" /\ After("app") = "user"
    /\ After("user") = "events" /\ After("events") = "done"
BY DEF After

-----------------------------------------------------------------------------
(* Locks.                                                                  *)

Owners == owner \in [Item -> Values]

\* A lock that is taken was free or the caller's own.
LEMMA LockFacts ==
    ASSUME Owners, NEW t \in Tx, NEW i \in Sid \cup Scoped \cup {Database}, Lock(t, i)
    PROVE  /\ owner' \in [Item -> Values]
           /\ backend = "sqlite" \/ i # Database => owner'[LockOf(i)] = t
           /\ \A x \in Item : owner'[x] \in {owner[x], t}
           /\ \A x \in Item : owner[x] # None => owner'[x] = owner[x]
BY CallFacts DEF Owners, Lock, LockOf, Values, Item

\* What a transaction held is free when it ends, and nothing else.
LEMMA ReleaseFacts ==
    ASSUME Owners, NEW t \in Tx, Release(t)
    PROVE  /\ owner' \in [Item -> Values]
           /\ \A x \in Item : owner[x] # t => owner'[x] = owner[x]
           /\ \A x \in Item : owner'[x] # t /\ owner'[x] \in {owner[x], None}
BY CallFacts DEF Owners, Release, Values

-----------------------------------------------------------------------------
(* Type correctness.                                                       *)

Places == {"first", "select", "row", "shared", "done", "failed"}

\* Locks are held by transactions that run.
LEMMA HoldersRun ==
    ASSUME TypeOK, NEW t \in Tx, NEW place \in Places, To(t, place), owner' \in [Item -> Values],
           \A x \in Item : owner'[x] \in {owner[x], None}
                           \/ (owner'[x] = t /\ place \notin {"done", "failed"}),
           place \in {"done", "failed"} => \A x \in Item : owner'[x] # t
    PROVE  \A x \in Item : owner'[x] # None => pc'[owner'[x]] \notin {"done", "failed"}
<1> SUFFICES ASSUME NEW x \in Item, owner'[x] # None
             PROVE  pc'[owner'[x]] \notin {"done", "failed"}
  OBVIOUS
<1>1. pc \in [Tx -> Places] /\ pc' = [pc EXCEPT ![t] = place] /\ owner'[x] \in Tx
  BY DEF TypeOK, To, Places, Values
<1>2. CASE owner'[x] = t
  BY <1>1, <1>2
<1>3. CASE owner'[x] # t
  BY <1>1, <1>3 DEF TypeOK
<1> QED
  BY <1>2, <1>3

\* The locals of a call that ends are typed.
LEMMA ForgetTypes ==
    ASSUME TypeOK, NEW t \in Tx, Forget(t)
    PROVE  /\ base' \in [Appender -> States] /\ hit' \subseteq Appender /\ touched' \subseteq Tx
           /\ left' \in [Tx -> SUBSET Scoped] /\ gone' \in [Deleter -> SUBSET Appender]
BY CallFacts DEF TypeOK, Forget

LEMMA RollbackTypes ==
    ASSUME TypeOK, NEW t \in Tx, Rollback(t)
    PROVE  TypeOK'
<1>1. owner' \in [Item -> Values] /\ \A x \in Item : owner'[x] # t /\ owner'[x] \in {owner[x], None}
  BY ReleaseFacts DEF TypeOK, Owners, Rollback
<1>2. \A x \in Item : owner'[x] # None => pc'[owner'[x]] \notin {"done", "failed"}
  BY <1>1, HoldersRun DEF Rollback, Places
<1>3. pc' \in [Tx -> Places]
  BY DEF TypeOK, Rollback, To, Places
<1> QED
  BY <1>1, <1>2, <1>3, ForgetTypes DEF TypeOK, Rollback, tables, reads, EventsOf, Places

\* A statement may take one lock for its transaction and goes on.
LEMMA StatementOwners ==
    ASSUME TypeOK, NEW t \in Tx, NEW i \in Sid \cup Scoped \cup {Database},
           NEW place \in Places \ {"done", "failed"}, To(t, place),
           Lock(t, i) \/ UNCHANGED owner
    PROVE  /\ owner' \in [Item -> Values] /\ pc' \in [Tx -> Places]
           /\ \A x \in Item : owner'[x] # None => pc'[owner'[x]] \notin {"done", "failed"}
<1>1. owner' \in [Item -> Values] /\ \A x \in Item : owner'[x] \in {owner[x], t}
  BY LockFacts DEF TypeOK, Owners
<1>2. \A x \in Item : owner'[x] # None => pc'[owner'[x]] \notin {"done", "failed"}
  BY <1>1, HoldersRun
<1>3. pc' \in [Tx -> Places]
  BY DEF TypeOK, To, Places
<1> QED
  BY <1>1, <1>2, <1>3

LEMMA StatementTypes ==
    ASSUME TypeOK, NEW t \in Tx, Statement(t)
    PROVE  TypeOK'
<1>1. CASE InsertEvent(t)
  <2>1. Lock(t, Database) \/ UNCHANGED owner
    BY <1>1 DEF InsertEvent, LockWriter
  <2>2. PICK place \in {"row", "select"} : To(t, place)
    BY <1>1 DEF InsertEvent
  <2> QED
    BY <1>1, <2>1, <2>2, StatementOwners DEF TypeOK, InsertEvent, tables, work, reads, Places
<1>2. CASE SelectState(t)
  <2>1. SessionOf[t] \in Sid /\ t \in Appender
    BY <1>2, CallFacts DEF SelectState
  <2>2. Lock(t, SessionOf[t]) \/ UNCHANGED owner
    BY <1>2 DEF SelectState
  <2>3. base' \in [Appender -> States] /\ hit' \subseteq Appender
    BY <1>2, <2>1 DEF TypeOK, SelectState
  <2> QED
    BY <1>2, <2>1, <2>2, <2>3, StatementOwners DEF TypeOK, SelectState, tables, reads, Places
<1>3. CASE UpdateRow(t)
  <2>1. SessionOf[t] \in Sid
    BY CallFacts
  <2>2. Lock(t, SessionOf[t]) \/ UNCHANGED owner
    BY <1>3 DEF UpdateRow
  <2> QED
    BY <1>3, <2>1, <2>2, StatementOwners DEF TypeOK, UpdateRow, tables, reads, Places
<1>4. CASE InsertSession(t)
  <2>1. CASE SessionOf[t] \in exists
    BY <1>4, <2>1, RollbackTypes DEF InsertSession
  <2>2. CASE SessionOf[t] \notin exists
    BY <1>4, <2>2, CallFacts, StatementOwners DEF TypeOK, InsertSession, tables, reads, Places
  <2> QED
    BY <2>1, <2>2
<1>5. CASE DeleteEvents(t)
  <2>1. Lock(t, Database) \/ UNCHANGED owner
    BY <1>5 DEF DeleteEvents, LockWriter
  <2>2. EventsOf(SessionOf[t]) \subseteq Appender
    BY DEF TypeOK, EventsOf
  <2>3. gone' \in [Deleter -> SUBSET Appender]
    BY <1>5, <2>2 DEF TypeOK, DeleteEvents
  <2> QED
    BY <1>5, <2>1, <2>3, StatementOwners DEF TypeOK, DeleteEvents, tables, reads, Places
<1>6. CASE DeleteRow(t)
  <2>1. SessionOf[t] \in Sid
    BY CallFacts
  <2>2. Lock(t, SessionOf[t]) \/ UNCHANGED owner
    BY <1>6 DEF DeleteRow
  <2> QED
    BY <1>6, <2>1, <2>2, StatementOwners DEF TypeOK, DeleteRow, tables, reads, Places
<1>7. ASSUME NEW k \in Scoped, Upsert(t, k) PROVE TypeOK'
  <2>1. owner' \in [Item -> Values] /\ \A x \in Item : owner'[x] \in {owner[x], t}
    BY <1>7, LockFacts DEF TypeOK, Owners, Upsert
  <2>2. \A x \in Item : owner'[x] # None => pc'[owner'[x]] \notin {"done", "failed"}
    BY <1>7, <2>1 DEF TypeOK, Upsert
  <2>3. left' \in [Tx -> SUBSET Scoped]
    BY <1>7 DEF TypeOK, Upsert
  <2> QED
    BY <1>7, <2>1, <2>2, <2>3 DEF TypeOK, Upsert, tables, reads
<1> QED
  BY <1>1, <1>2, <1>3, <1>4, <1>5, <1>6, <1>7 DEF Statement

\* What a commit leaves in the tables is typed.
LEMMA CommitTypes ==
    ASSUME TypeOK, NEW t \in Tx, Commit(t)
    PROVE  TypeOK'
<1>1. PICK place \in {"done", "failed"} : To(t, place)
  BY DEF Commit
<1>2. owner' \in [Item -> Values] /\ \A x \in Item : owner'[x] # t /\ owner'[x] \in {owner[x], None}
  BY ReleaseFacts DEF TypeOK, Owners, Commit
<1>3. \A x \in Item : owner'[x] # None => pc'[owner'[x]] \notin {"done", "failed"}
  BY <1>1, <1>2, HoldersRun DEF Places
<1>4. pc' \in [Tx -> Places]
  BY <1>1 DEF TypeOK, To, Places
<1>5. SessionOf[t] \in Sid
  BY CallFacts
<1>6. exists' \subseteq Sid /\ state' \in [Sid -> States] /\ eventRows' \subseteq Appender
  <2>1. CASE t \in Appender /\ Appended(t)
    <3>1. Merged(base[t], t) \in States
      BY <2>1, MergedFacts DEF TypeOK
    <3> QED
      BY <1>5, <2>1, <3>1 DEF TypeOK, Appended
  <2>2. CASE t \in Creator /\ Created(t)
    <3>1. Merged(Blank, t) \in States
      BY MergedFacts, CallFacts
    <3> QED
      BY <1>5, <2>2, <3>1 DEF TypeOK, Created
  <2>3. CASE t \in Deleter /\ Deleted(t)
    BY <1>5, <2>3, CallFacts DEF TypeOK, Deleted
  <2> QED
    BY <2>1, <2>2, <2>3 DEF Commit
<1>7. shared' \in [Scoped -> Values]
  BY DEF TypeOK, Commit, Values
<1>8. since' \subseteq Reader /\ taken' \subseteq Appender
  BY DEF TypeOK, Commit
<1>9. Forget(t) /\ UNCHANGED <<backend, rpc, got>>
  BY DEF Commit
<1> QED
  BY <1>2, <1>3, <1>4, <1>6, <1>7, <1>8, <1>9, ForgetTypes DEF TypeOK, Places

\* What a read has is typed.
LEMMA ReadTypes ==
    ASSUME TypeOK, NEW r \in Reader, ReadStep(r)
    PROVE  TypeOK'
<1>1. SessionOf[r] \in Sid
  BY CallFacts
<1>2. /\ \A keys : Overlay(r, keys) \in [Scoped -> Values]
      /\ EventsOf(SessionOf[r]) \in SUBSET Appender
      /\ state[SessionOf[r]] \in States
  BY <1>1 DEF TypeOK, Overlay, EventsOf
<1>3. rpc' \in [Reader -> {"row", "app", "user", "events", "absent", "done"}]
  BY StatementOrder DEF TypeOK, ReadStep
<1>4. \/ UNCHANGED got
      \/ got' = [got EXCEPT ![r].state = state[SessionOf[r]]]
      \/ \E keys \in {AppKey, UserKey} : got' = [got EXCEPT ![r].shared = Overlay(r, keys)]
      \/ got' = [got EXCEPT ![r].events = EventsOf(SessionOf[r])]
  BY DEF ReadStep
<1>5. got' \in [Reader -> [state : States, shared : [Scoped -> Values], events : SUBSET Appender]]
  <2> DEFINE Got == [state : States, shared : [Scoped -> Values], events : SUBSET Appender]
  <2>1. got \in [Reader -> Got]
    BY DEF TypeOK
  <2>2. \A st \in States : [got[r] EXCEPT !.state = st] \in Got
    BY <2>1
  <2>3. \A sh \in [Scoped -> Values] : [got[r] EXCEPT !.shared = sh] \in Got
    BY <2>1
  <2>4. \A ev \in SUBSET Appender : [got[r] EXCEPT !.events = ev] \in Got
    BY <2>1
  <2>5. UNCHANGED got \/ \E g \in Got : got' = [got EXCEPT ![r] = g]
    BY <1>2, <1>4, <2>2, <2>3, <2>4
  <2> QED
    BY <2>1, <2>5
<1> QED
  BY <1>3, <1>5 DEF TypeOK, ReadStep, tables, work

LEMMA InitTypes == Init => TypeOK
<1> SUFFICES ASSUME Init PROVE TypeOK
  OBVIOUS
<1>1. /\ [t \in Tx |-> "first"] \in [Tx -> Places] /\ Shares \in [Tx -> SUBSET Scoped]
      /\ NothingRead \in [state : States, shared : [Scoped -> Values], events : SUBSET Appender]
  BY CallFacts, SqlAssumption DEF NothingRead, Values, Places
<1> QED
  BY <1>1, CallFacts DEF Init, TypeOK, Places, Values

LEMMA NextTypes == TypeOK /\ [Next]_vars => TypeOK'
<1> SUFFICES ASSUME TypeOK, [Next]_vars PROVE TypeOK'
  OBVIOUS
<1>1. ASSUME NEW t \in Tx, Abort(t) PROVE TypeOK'
  BY <1>1, RollbackTypes DEF Abort
<1>2. CASE UNCHANGED vars
  BY <1>2 DEF TypeOK, vars, tables, work, reads
<1> QED
  BY <1>1, <1>2, StatementTypes, CommitTypes, ReadTypes DEF Next

\* Every state is type correct, and no lock outlives its transaction: whatever
\* fails, nobody waits for a call that has ended (sqlite_backend.rs:300-425,
\* postgres_backend.rs:300-423).
THEOREM TypeCorrect == Spec => []TypeOK
BY InitTypes, NextTypes, PTL DEF Spec

-----------------------------------------------------------------------------
(* Durability.                                                             *)

\* The calls that have written nothing: only a commit changes the tables.
LEMMA NoCommit ==
    ASSUME NEW t \in Tx, Statement(t) \/ Abort(t)
    PROVE  UNCHANGED <<backend, tables, reads>>
BY DEF Statement, Abort, Rollback, InsertEvent, SelectState, UpdateRow, InsertSession, DeleteEvents,
       DeleteRow, Upsert

\* A call is answered with Ok by its commit only.
LEMMA NotDone ==
    ASSUME TypeOK, NEW t \in Tx, Statement(t) \/ Abort(t)
    PROVE  \A u \in Tx : pc'[u] = "done" => pc[u] = "done"
BY DEF TypeOK, Statement, Abort, Rollback, To, InsertEvent, SelectState, UpdateRow, InsertSession,
       DeleteEvents, DeleteRow, Upsert

\* An append that has returned Ok is stored unless a delete has taken its event,
\* whatever fails and however the calls interleave (sqlite_backend.rs:300-456,
\* postgres_backend.rs:300-454).  The property is inductive over the types: a delete
\* moves events from the table to `taken`.
THEOREM AppendsAreDurable == Spec => []AckedIsDurable
<1>1. Init => AckedIsDurable
  BY DEF Init, AckedIsDurable, Tx
<1>2. TypeOK /\ AckedIsDurable /\ [Next]_vars => AckedIsDurable'
  <2> SUFFICES ASSUME TypeOK, AckedIsDurable, [Next]_vars PROVE AckedIsDurable'
    OBVIOUS
  <2>1. ASSUME NEW t \in Tx, Statement(t) \/ Abort(t) PROVE AckedIsDurable'
    BY <2>1, NoCommit, NotDone DEF AckedIsDurable, tables, reads, Tx
  <2>2. ASSUME NEW t \in Tx, Commit(t) PROVE AckedIsDurable'
    <3>1. \A e \in Appender \ {t} : pc'[e] = "done" => pc[e] = "done"
      BY <2>2 DEF TypeOK, Commit, To, Tx
    <3>2. eventRows \cup taken \subseteq eventRows' \cup taken'
      BY <2>2, SqlAssumption DEF Commit, Appended, Created, Deleted
    <3>3. t \in Appender => t \in eventRows'
      BY <2>2, SqlAssumption DEF Commit, Appended
    <3> QED
      BY <3>1, <3>2, <3>3 DEF AckedIsDurable
  <2>3. ASSUME NEW r \in Reader, ReadStep(r) PROVE AckedIsDurable'
    BY <2>3 DEF AckedIsDurable, ReadStep, tables
  <2>4. CASE UNCHANGED vars
    BY <2>4 DEF AckedIsDurable, vars, tables, reads
  <2> QED
    BY <2>1, <2>2, <2>3, <2>4 DEF Next
<1> QED
  BY <1>1, <1>2, TypeCorrect, PTL DEF Spec

-----------------------------------------------------------------------------
(* Who holds what.                                                         *)

\* Each kind of call has its own statements.
PlacesOf ==
    /\ \A c \in Creator : pc[c] \in {"first", "shared", "done", "failed"}
    /\ \A d \in Deleter : pc[d] \in {"first", "row", "shared", "done", "failed"}
    /\ \A e \in Appender : pc[e] = "select" => Writes[e] # {}

\* A call that has found the row of its session, or has written it, holds its
\* lock until the end.
RowLocked ==
    /\ \A t \in hit \cup touched : owner[LockOf(SessionOf[t])] = t
    /\ \A e \in hit : pc[e] \in {"row", "shared"} /\ SessionOf[e] \in exists
    /\ \A t \in touched : pc[t] = "shared" /\ (t \notin Creator => SessionOf[t] \in exists)
    /\ \A e \in hit : pc[e] = "shared" => e \in touched
    /\ \A c \in Creator : pc[c] = "shared" => c \in touched /\ SessionOf[c] \notin exists

\* A session without a row has no state.
AbsentIsBlank == \A s \in Sid \ exists : state[s] = Blank

\* An append merges into what is stored, and into nothing if it found no row.
BaseIsState ==
    \A e \in Appender : pc[e] \in {"row", "shared"} /\ Writes[e] # {} =>
        base[e] = IF e \in hit THEN state[SessionOf[e]] ELSE Blank

HoldInv == PlacesOf /\ RowLocked /\ AbsentIsBlank /\ BaseIsState

\* Two calls that hold the lock of one session are one call.
LEMMA OneHolder ==
    ASSUME TypeOK, HoldInv, NEW t \in hit \cup touched, NEW u \in hit \cup touched,
           SessionOf[t] = SessionOf[u]
    PROVE  t = u
BY DEF HoldInv, RowLocked

\* A step of one call that has no effect on the tables, keeps the locks of the
\* others and leaves what they know alone.
LEMMA OthersKeepTheirs ==
    ASSUME TypeOK, HoldInv, NEW t \in Tx, UNCHANGED <<backend, exists, state>>,
           \A x \in Item : owner[x] \notin {None, t} => owner'[x] = owner[x],
           \A u \in Tx \ {t} : /\ pc'[u] = pc[u]
                               /\ u \in hit' <=> u \in hit
                               /\ u \in touched' <=> u \in touched
                               /\ u \in Appender => base'[u] = base[u],
           t \in Creator => pc'[t] \in {"first", "shared", "done", "failed"},
           t \in Deleter => pc'[t] \in {"first", "row", "shared", "done", "failed"},
           t \in Appender /\ pc'[t] = "select" => Writes[t] # {},
           t \in hit' \cup touched' => owner'[LockOf(SessionOf[t])] = t,
           t \in hit' => pc'[t] \in {"row", "shared"} /\ SessionOf[t] \in exists
                         /\ (pc'[t] = "shared" => t \in touched'),
           t \in touched' => pc'[t] = "shared" /\ (t \notin Creator => SessionOf[t] \in exists),
           t \in Creator /\ pc'[t] = "shared" => t \in touched' /\ SessionOf[t] \notin exists,
           t \in Appender /\ pc'[t] \in {"row", "shared"} /\ Writes[t] # {} =>
               base'[t] = IF t \in hit' THEN state[SessionOf[t]] ELSE Blank,
           hit' \subseteq Tx, touched' \subseteq Tx
    PROVE  HoldInv'
<1>1. Appender \subseteq Tx /\ Creator \subseteq Tx /\ Deleter \subseteq Tx
  BY DEF Tx
<1>2. PlacesOf'
  BY <1>1 DEF HoldInv, PlacesOf
<1>3. RowLocked'
  <2>1. \A u \in Tx : LockOf(SessionOf[u])' = LockOf(SessionOf[u]) /\ LockOf(SessionOf[u]) \in Item
    BY CallFacts DEF LockOf
  <2>2. \A u \in (hit' \cup touched') \ {t} : owner'[LockOf(SessionOf[u])] = u
    BY <2>1, CallFacts DEF HoldInv, RowLocked
  <2>3. \A u \in hit' \cup touched' : owner'[LockOf(SessionOf[u])'] = u
    BY <2>1, <2>2
  <2> QED
    BY <1>1, <2>3 DEF HoldInv, RowLocked
<1>4. AbsentIsBlank'
  BY DEF HoldInv, AbsentIsBlank
<1>5. BaseIsState'
  BY <1>1 DEF HoldInv, BaseIsState
<1> QED
  BY <1>2, <1>3, <1>4, <1>5 DEF HoldInv

\* Rolled back, a call leaves what it held and what it knew.
LEMMA RollbackHold ==
    ASSUME TypeOK, HoldInv, NEW t \in Tx, Rollback(t)
    PROVE  HoldInv'
<1>1. \A x \in Item : owner[x] # t => owner'[x] = owner[x]
  BY ReleaseFacts DEF TypeOK, Owners, Rollback
<1>2. pc'[t] = "failed" /\ t \notin hit' \cup touched'
  BY DEF TypeOK, Rollback, To, Forget
<1>3. \A u \in Tx \ {t} : /\ pc'[u] = pc[u]
                          /\ u \in hit' <=> u \in hit
                          /\ u \in touched' <=> u \in touched
                          /\ u \in Appender => base'[u] = base[u]
  BY DEF TypeOK, Rollback, To, Forget
<1>4. UNCHANGED <<backend, exists, state>>
  BY DEF Rollback, tables
<1>5. hit' \subseteq Tx /\ touched' \subseteq Tx
  BY DEF TypeOK, Rollback, Forget, Tx
<1> QED
  BY <1>1, <1>2, <1>3, <1>4, <1>5, OthersKeepTheirs

LEMMA AppendStatementHold ==
    ASSUME TypeOK, HoldInv, NEW t \in Tx, InsertEvent(t) \/ SelectState(t) \/ UpdateRow(t)
    PROVE  HoldInv'
<1>1. t \in Appender /\ t \notin Creator /\ t \notin Deleter
  BY SqlAssumption DEF InsertEvent, SelectState, UpdateRow
<1>2. UNCHANGED <<backend, exists, state>>
  BY DEF InsertEvent, SelectState, UpdateRow, tables
<1>3. hit' \subseteq Tx /\ touched' \subseteq Tx
  BY <1>1 DEF TypeOK, InsertEvent, SelectState, UpdateRow, work, Tx
<1>4. SessionOf[t] \in Sid
  BY CallFacts
<1>5. CASE InsertEvent(t)
  <2>1. \A x \in Item : owner[x] \notin {None, t} => owner'[x] = owner[x]
    BY <1>5, LockFacts DEF TypeOK, Owners, InsertEvent, LockWriter
  <2>2. t \notin hit /\ t \notin touched /\ UNCHANGED <<hit, touched, base>>
    BY <1>5 DEF HoldInv, RowLocked, InsertEvent, work
  <2>3. /\ pc' = [pc EXCEPT ![t] = IF Writes[t] = {} THEN "row" ELSE "select"]
        /\ pc'[t] = IF Writes[t] = {} THEN "row" ELSE "select"
    BY <1>5 DEF TypeOK, InsertEvent, To
  <2> QED
    BY <1>1, <1>2, <1>3, <2>1, <2>2, <2>3, OthersKeepTheirs DEF TypeOK
<1>6. CASE SelectState(t)
  <2>1. \A x \in Item : owner[x] \notin {None, t} => owner'[x] = owner[x]
    BY <1>4, <1>6, LockFacts DEF TypeOK, Owners, SelectState
  <2>2. t \notin hit /\ t \notin touched /\ UNCHANGED touched
    BY <1>6 DEF HoldInv, RowLocked, SelectState
  <2>3. pc' = [pc EXCEPT ![t] = "row"] /\ pc'[t] = "row"
    BY <1>6 DEF TypeOK, SelectState, To
  <2>4. base' = [base EXCEPT ![t] = state[SessionOf[t]]] /\ base'[t] = state[SessionOf[t]]
    BY <1>1, <1>6 DEF TypeOK, SelectState
  <2>5. CASE SessionOf[t] \in exists
    <3>1. owner'[LockOf(SessionOf[t])] = t /\ hit' = hit \cup {t}
      BY <1>4, <1>6, <2>5, LockFacts, SqlAssumption DEF TypeOK, Owners, SelectState
    <3> QED
      BY <1>1, <1>2, <1>3, <2>1, <2>2, <2>3, <2>4, <2>5, <3>1, OthersKeepTheirs DEF TypeOK
  <2>6. CASE SessionOf[t] \notin exists
    <3>1. UNCHANGED hit /\ state[SessionOf[t]] = Blank
      BY <1>4, <1>6, <2>6 DEF SelectState, HoldInv, AbsentIsBlank
    <3> QED
      BY <1>1, <1>2, <1>3, <2>1, <2>2, <2>3, <2>4, <3>1, OthersKeepTheirs DEF TypeOK
  <2> QED
    BY <2>5, <2>6
<1>7. CASE UpdateRow(t)
  <2>1. \A x \in Item : owner[x] \notin {None, t} => owner'[x] = owner[x]
    BY <1>4, <1>7, LockFacts DEF TypeOK, Owners, UpdateRow
  <2>2. t \notin touched /\ UNCHANGED <<hit, base>>
    BY <1>7 DEF HoldInv, RowLocked, UpdateRow
  <2>3. pc[t] = "row" /\ pc' = [pc EXCEPT ![t] = "shared"] /\ pc'[t] = "shared"
    BY <1>7 DEF TypeOK, UpdateRow, To
  <2>4. Writes[t] # {} => base[t] = IF t \in hit THEN state[SessionOf[t]] ELSE Blank
    BY <1>1, <2>3 DEF HoldInv, BaseIsState
  <2>5. CASE SessionOf[t] \in exists
    <3>1. owner'[LockOf(SessionOf[t])] = t /\ touched' = touched \cup {t}
      BY <1>4, <1>7, <2>5, LockFacts, SqlAssumption DEF TypeOK, Owners, UpdateRow
    <3> QED
      BY <1>1, <1>2, <1>3, <2>1, <2>2, <2>3, <2>4, <2>5, <3>1, OthersKeepTheirs DEF TypeOK
  <2>6. CASE SessionOf[t] \notin exists
    <3>1. UNCHANGED <<touched, owner>> /\ t \notin hit
      BY <1>7, <2>6 DEF UpdateRow, HoldInv, RowLocked
    <3> QED
      BY <1>1, <1>2, <1>3, <2>1, <2>2, <2>3, <2>4, <3>1, OthersKeepTheirs DEF TypeOK
  <2> QED
    BY <2>5, <2>6
<1> QED
  BY <1>5, <1>6, <1>7

LEMMA UpsertHold ==
    ASSUME TypeOK, HoldInv, NEW t \in Tx, NEW k \in Scoped, Upsert(t, k)
    PROVE  HoldInv'
<1>1. /\ UNCHANGED <<backend, exists, state, pc, base, hit, touched>>
      /\ Lock(t, k)
  BY DEF Upsert, tables
<1>2. /\ \A x \in Item : owner[x] # None => owner'[x] = owner[x]
  BY <1>1, LockFacts DEF TypeOK, Owners
<1>3. \A u \in Tx : LockOf(SessionOf[u])' = LockOf(SessionOf[u]) /\ LockOf(SessionOf[u]) \in Item
  BY <1>1, CallFacts DEF LockOf
<1>4. hit \cup touched \subseteq Tx
  BY DEF TypeOK, Tx
<1>5. RowLocked'
  BY <1>1, <1>2, <1>3, <1>4, CallFacts DEF HoldInv, RowLocked
<1> QED
  BY <1>1, <1>5 DEF HoldInv, PlacesOf, AbsentIsBlank, BaseIsState

LEMMA OtherStatementHold ==
    ASSUME TypeOK, HoldInv, NEW t \in Tx, InsertSession(t) \/ DeleteEvents(t) \/ DeleteRow(t)
    PROVE  HoldInv'
<1>1. SessionOf[t] \in Sid /\ t \notin Appender
  BY CallFacts, SqlAssumption DEF InsertSession, DeleteEvents, DeleteRow
<1>2. ASSUME InsertSession(t), SessionOf[t] \notin exists PROVE HoldInv'
  <2>1. /\ \A x \in Item : owner[x] \notin {None, t} => owner'[x] = owner[x]
        /\ owner'[LockOf(SessionOf[t])] = t
    BY <1>1, <1>2, LockFacts, SqlAssumption DEF TypeOK, Owners, InsertSession
  <2>2. /\ t \in Creator /\ t \notin Deleter /\ pc' = [pc EXCEPT ![t] = "shared"] /\ pc'[t] = "shared"
        /\ UNCHANGED <<backend, exists, state, hit, base>> /\ touched' = touched \cup {t}
    BY <1>2, SqlAssumption DEF TypeOK, InsertSession, To, tables
  <2>3. hit' \subseteq Tx /\ touched' \subseteq Tx /\ t \notin hit'
    BY <1>1, <2>2 DEF TypeOK, Tx
  <2> QED
    BY <1>1, <1>2, <2>1, <2>2, <2>3, OthersKeepTheirs DEF TypeOK
<1>3. ASSUME DeleteEvents(t) PROVE HoldInv'
  <2>1. \A x \in Item : owner[x] \notin {None, t} => owner'[x] = owner[x]
    BY <1>3, LockFacts DEF TypeOK, Owners, DeleteEvents, LockWriter
  <2>2. /\ t \in Deleter /\ t \notin Creator /\ pc' = [pc EXCEPT ![t] = "row"] /\ pc'[t] = "row"
        /\ UNCHANGED <<backend, exists, state, hit, base, touched>> /\ t \notin touched
    BY <1>3, SqlAssumption DEF TypeOK, DeleteEvents, To, tables, HoldInv, RowLocked
  <2>3. hit' \subseteq Tx /\ touched' \subseteq Tx /\ t \notin hit'
    BY <1>1, <2>2 DEF TypeOK, Tx
  <2> QED
    BY <1>1, <2>1, <2>2, <2>3, OthersKeepTheirs DEF TypeOK
<1>4. ASSUME DeleteRow(t) PROVE HoldInv'
  <2>1. \A x \in Item : owner[x] \notin {None, t} => owner'[x] = owner[x]
    BY <1>1, <1>4, LockFacts DEF TypeOK, Owners, DeleteRow
  <2>2. /\ t \in Deleter /\ t \notin Creator /\ pc' = [pc EXCEPT ![t] = "shared"] /\ pc'[t] = "shared"
        /\ UNCHANGED <<backend, exists, state, hit, base>> /\ t \notin touched
    BY <1>4, SqlAssumption DEF TypeOK, DeleteRow, To, tables, HoldInv, RowLocked
  <2>3. t \in touched' => SessionOf[t] \in exists /\ owner'[LockOf(SessionOf[t])] = t
    BY <1>1, <1>4, <2>2, LockFacts, SqlAssumption DEF TypeOK, Owners, DeleteRow
  <2>4. /\ hit' \subseteq Tx /\ touched' \subseteq Tx /\ t \notin hit'
        /\ \A u \in Tx \ {t} : u \in touched' <=> u \in touched
    BY <1>1, <1>4, <2>2 DEF TypeOK, Tx, DeleteRow
  <2> QED
    BY <1>1, <2>1, <2>2, <2>3, <2>4, OthersKeepTheirs DEF TypeOK
<1>5. ASSUME InsertSession(t), SessionOf[t] \in exists PROVE HoldInv'
  BY <1>5, RollbackHold DEF InsertSession
<1> QED
  BY <1>2, <1>3, <1>4, <1>5

\* What a commit changes belongs to a session whose lock the call holds, so no
\* other call that found the row loses it or sees its state change.
LEMMA CommitFrame ==
    ASSUME TypeOK, HoldInv, NEW t \in Tx, Commit(t)
    PROVE  /\ t \in touched \/ UNCHANGED <<exists, state>>
           /\ \A s \in Sid \ {SessionOf[t]} :
                 (s \in exists' <=> s \in exists) /\ state'[s] = state[s]
           /\ \A u \in (hit \cup touched) \ {t} :
                 t \in touched => SessionOf[u] # SessionOf[t]
<1>1. SessionOf[t] \in Sid /\ pc[t] = "shared"
  BY CallFacts DEF Commit
<1>2. t \in touched \/ UNCHANGED <<exists, state>>
  BY <1>1, SqlAssumption DEF HoldInv, RowLocked, Commit, Appended, Created, Deleted
<1>3. \A s \in Sid \ {SessionOf[t]} : (s \in exists' <=> s \in exists) /\ state'[s] = state[s]
  BY <1>1 DEF TypeOK, Commit, Appended, Created, Deleted
<1>4. \A u \in (hit \cup touched) \ {t} : t \in touched => SessionOf[u] # SessionOf[t]
  BY OneHolder
<1> QED
  BY <1>2, <1>3, <1>4

LEMMA CommitHold ==
    ASSUME TypeOK, HoldInv, NEW t \in Tx, Commit(t)
    PROVE  HoldInv'
<1>1. PICK place \in {"done", "failed"} : To(t, place)
  BY DEF Commit
<1>2. /\ pc'[t] = place /\ \A u \in Tx \ {t} : pc'[u] = pc[u]
      /\ hit' = hit \ {t} /\ touched' = touched \ {t}
      /\ \A e \in Appender \ {t} : base'[e] = base[e]
      /\ UNCHANGED backend
  BY <1>1 DEF TypeOK, To, Commit, Forget
<1>3. /\ Appender \subseteq Tx /\ Creator \subseteq Tx /\ Deleter \subseteq Tx
      /\ hit \subseteq Tx /\ touched \subseteq Tx /\ SessionOf[t] \in Sid
  BY CallFacts DEF TypeOK, Tx
<1>4. PlacesOf'
  BY <1>2, <1>3 DEF HoldInv, PlacesOf
<1>5. \A u \in (hit' \cup touched') : /\ SessionOf[u] \in Sid
                                      /\ SessionOf[u] \in exists' <=> SessionOf[u] \in exists
                                      /\ state'[SessionOf[u]] = state[SessionOf[u]]
  BY <1>2, <1>3, CommitFrame, CallFacts
<1>6. \A u \in hit' \cup touched' : owner'[LockOf(SessionOf[u])'] = u
  <2>1. \A u \in Tx : LockOf(SessionOf[u])' = LockOf(SessionOf[u]) /\ LockOf(SessionOf[u]) \in Item
    BY <1>2, CallFacts DEF LockOf
  <2>2. \A x \in Item : owner[x] # t => owner'[x] = owner[x]
    BY ReleaseFacts DEF TypeOK, Owners, Commit
  <2> QED
    BY <1>2, <1>3, <2>1, <2>2 DEF HoldInv, RowLocked
<1>7. RowLocked'
  <2>1. \A e \in hit' : pc'[e] \in {"row", "shared"} /\ SessionOf[e] \in exists'
    BY <1>2, <1>3, <1>5 DEF HoldInv, RowLocked
  <2>2. \A u \in touched' : pc'[u] = "shared" /\ (u \notin Creator => SessionOf[u] \in exists')
    BY <1>2, <1>3, <1>5 DEF HoldInv, RowLocked
  <2>3. \A e \in hit' : pc'[e] = "shared" => e \in touched'
    BY <1>2, <1>3 DEF HoldInv, RowLocked
  <2>4. \A c \in Creator : pc'[c] = "shared" => c \in touched' /\ SessionOf[c] \notin exists'
    BY <1>2, <1>3, <1>5 DEF HoldInv, RowLocked
  <2> QED
    BY <1>6, <2>1, <2>2, <2>3, <2>4 DEF RowLocked
<1>8. AbsentIsBlank'
  <2>1. ASSUME NEW s \in Sid, s \notin exists', s = SessionOf[t] PROVE state'[s] = Blank
    <3>1. CASE t \in Appender /\ Appended(t)
      BY <2>1, <3>1, SqlAssumption DEF HoldInv, RowLocked, AbsentIsBlank, Appended
    <3>2. CASE t \in Creator /\ Created(t)
      BY <2>1, <3>2 DEF Created
    <3>3. CASE t \in Deleter /\ Deleted(t)
      BY <2>1, <3>3 DEF TypeOK, HoldInv, AbsentIsBlank, Deleted
    <3> QED
      BY <3>1, <3>2, <3>3 DEF Commit
  <2>2. ASSUME NEW s \in Sid, s \notin exists', s # SessionOf[t] PROVE state'[s] = Blank
    BY <2>2, CommitFrame DEF HoldInv, AbsentIsBlank
  <2> QED
    BY <2>1, <2>2 DEF AbsentIsBlank
<1>9. BaseIsState'
  BY <1>2, <1>3, <1>5 DEF HoldInv, BaseIsState
<1> QED
  BY <1>4, <1>7, <1>8, <1>9 DEF HoldInv

LEMMA NextHold == TypeOK /\ HoldInv /\ [Next]_vars => HoldInv'
<1> SUFFICES ASSUME TypeOK, HoldInv, [Next]_vars PROVE HoldInv'
  OBVIOUS
<1>1. ASSUME NEW t \in Tx, Statement(t) PROVE HoldInv'
  BY <1>1, AppendStatementHold, OtherStatementHold, UpsertHold DEF Statement
<1>2. ASSUME NEW t \in Tx, Abort(t) PROVE HoldInv'
  BY <1>2, RollbackHold DEF Abort
<1>3. ASSUME NEW r \in Reader, ReadStep(r) PROVE HoldInv'
  BY <1>3 DEF ReadStep, tables, work, HoldInv, PlacesOf, RowLocked, AbsentIsBlank, BaseIsState,
              LockOf
<1>4. CASE UNCHANGED vars
  BY <1>4 DEF vars, tables, work, HoldInv, PlacesOf, RowLocked, AbsentIsBlank, BaseIsState, LockOf
<1> QED
  BY <1>1, <1>2, <1>3, <1>4, CommitHold DEF Next

LEMMA InitHold == Init => HoldInv
<1> SUFFICES ASSUME Init PROVE HoldInv
  OBVIOUS
<1>1. \A t \in Tx : pc[t] = "first"
  BY DEF Init
<1>2. PlacesOf
  BY <1>1 DEF PlacesOf, Tx
<1>3. RowLocked
  BY <1>1 DEF Init, RowLocked, Tx
<1>4. AbsentIsBlank /\ BaseIsState
  BY <1>1 DEF Init, AbsentIsBlank, BaseIsState, Tx
<1> QED
  BY <1>2, <1>3, <1>4 DEF HoldInv

LEMMA HoldsAlways == Spec => [](TypeOK /\ HoldInv)
<1>1. Spec => []HoldInv
  BY InitHold, NextHold, TypeCorrect, PTL DEF Spec
<1> QED
  BY <1>1, TypeCorrect, PTL

-----------------------------------------------------------------------------
(* Reads.                                                                  *)

\* Events that are stored, or that a delete has seen, are those of appends that
\* have ended; a delete takes events of its own session only.
StoredHasEnded ==
    /\ \A e \in eventRows : pc[e] \in {"done", "failed"}
    /\ \A d \in Deleter : \A e \in gone[d] :
          pc[e] \in {"done", "failed"} /\ SessionOf[e] = SessionOf[d]

\* A value in the state column is backed by a stored event of the same session,
\* and a delete that found no row will not take it.
StateIsBacked ==
    /\ \A s \in Sid : \A k \in Key :
          state[s][k] \in Appender => state[s][k] \in eventRows /\ SessionOf[state[s][k]] = s
    /\ \A d \in Deleter : pc[d] = "shared" /\ d \notin touched =>
          \A k \in Key : state[SessionOf[d]][k] \notin gone[d]

\* A value of an app: or user: row outlives its event only by a delete.
SharedIsBacked ==
    \A k \in Scoped : shared[k] \in Appender => shared[k] \in eventRows \cup taken

\* What a read has so far, unless a delete has come in between.
ReadSoFar ==
    /\ \A r \in Reader \ since : rpc[r] \in {"app", "user", "events"} =>
          \A k \in Key : got[r].state[k] \in Appender => got[r].state[k] \in eventRows
    /\ \A r \in Reader \ since : rpc[r] # "done" =>
          \A k \in Scoped : got[r].shared[k] \in Appender => got[r].shared[k] \in eventRows \cup taken

ReadInv == StoredHasEnded /\ StateIsBacked /\ SharedIsBacked /\ ReadSoFar /\ ReadIsBacked

\* A statement, and the end of a call that is given up, changes no table; what a
\* delete takes is chosen from the stored events of its session.
LEMMA StatementRead ==
    ASSUME TypeOK, HoldInv, ReadInv, NEW t \in Tx, Statement(t) \/ Abort(t)
    PROVE  ReadInv'
<1>1. UNCHANGED <<backend, tables, reads>>
  BY NoCommit
<1>2. \A u \in Tx : pc[u] \in {"done", "failed"} => pc'[u] = pc[u]
  BY DEF TypeOK, Statement, Abort, Rollback, Running, To, InsertEvent, SelectState, UpdateRow,
         InsertSession, DeleteEvents, DeleteRow, Upsert
<1>3. \A d \in Deleter : \/ gone'[d] \subseteq gone[d]
                         \/ /\ gone'[d] = EventsOf(SessionOf[d])
                            /\ pc'[d] = "row"
  <2>1. CASE DeleteEvents(t)
    BY <2>1, SqlAssumption DEF TypeOK, DeleteEvents, To, Tx
  <2>2. CASE Rollback(t)
    BY <2>2 DEF Rollback, Forget
  <2>3. CASE UNCHANGED gone
    BY <2>3
  <2> QED
    BY <2>1, <2>2, <2>3 DEF Statement, Abort, InsertEvent, SelectState, UpdateRow, InsertSession,
                            DeleteRow, Upsert, work
<1>4. \A d \in Deleter : pc'[d] = "shared" /\ d \notin touched' =>
          gone'[d] \subseteq gone[d] /\ (\/ pc[d] = "shared" /\ d \notin touched
                                         \/ SessionOf[d] \notin exists)
  <2> SUFFICES ASSUME NEW d \in Deleter, pc'[d] = "shared", d \notin touched'
               PROVE  gone'[d] \subseteq gone[d] /\ (\/ pc[d] = "shared" /\ d \notin touched
                                                     \/ SessionOf[d] \notin exists)
    OBVIOUS
  <2>1. gone'[d] \subseteq gone[d]
    BY <1>3
  <2>2. d \in Tx /\ d \notin Appender /\ d \notin Creator
    BY SqlAssumption DEF Tx
  <2>3. pc[d] = "shared" \/ (d = t /\ DeleteRow(d))
    BY <2>2 DEF TypeOK, Statement, Abort, Rollback, To, InsertEvent, SelectState, UpdateRow,
           InsertSession, DeleteEvents, DeleteRow, Upsert
  <2>4. pc[d] = "shared" /\ d \in touched => d \in touched' \/ pc'[d] # "shared"
    BY <2>2 DEF TypeOK, Statement, Abort, Rollback, Forget, To, InsertEvent, SelectState, UpdateRow,
           InsertSession, DeleteEvents, DeleteRow, Upsert, work
  <2>5. DeleteRow(d) => SessionOf[d] \notin exists
    BY DEF DeleteRow, Lock
  <2> QED
    BY <2>1, <2>3, <2>4, <2>5
<1>5. StoredHasEnded'
  <2>1. \A e \in eventRows' : pc'[e] \in {"done", "failed"}
    BY <1>1, <1>2 DEF TypeOK, ReadInv, StoredHasEnded, tables, Tx
  <2>2. \A d \in Deleter : \A e \in gone'[d] : pc'[e] \in {"done", "failed"} /\ SessionOf[e] = SessionOf[d]
    BY <1>2, <1>3 DEF TypeOK, ReadInv, StoredHasEnded, EventsOf, Tx
  <2> QED
    BY <2>1, <2>2 DEF StoredHasEnded
<1>6. StateIsBacked'
  <2>1. \A d \in Deleter : SessionOf[d] \notin exists =>
            \A k \in Key : state[SessionOf[d]][k] \notin gone[d]
    BY CallFacts, SqlAssumption DEF TypeOK, HoldInv, AbsentIsBlank, Tx
  <2>2. \A d \in Deleter : pc'[d] = "shared" /\ d \notin touched' =>
            \A k \in Key : state[SessionOf[d]][k] \notin gone'[d]
    BY <1>4, <2>1 DEF ReadInv, StateIsBacked
  <2> QED
    BY <1>1, <2>2 DEF ReadInv, StateIsBacked, tables
<1> QED
  BY <1>1, <1>5, <1>6 DEF ReadInv, SharedIsBacked, ReadSoFar, ReadIsBacked, tables, reads

\* A commit stores the event of every value it writes, and what a delete takes
\* backs nothing that stays.
LEMMA CommitRead ==
    ASSUME TypeOK, HoldInv, ReadInv, NEW t \in Tx, Commit(t)
    PROVE  ReadInv'
<1>1. PICK place \in {"done", "failed"} : To(t, place)
  BY DEF Commit
<1>2. /\ pc'[t] \in {"done", "failed"} /\ \A u \in Tx \ {t} : pc'[u] = pc[u]
      /\ hit' = hit \ {t} /\ touched' = touched \ {t}
      /\ \A d \in Deleter \ {t} : gone'[d] = gone[d]
      /\ t \in Deleter => gone'[t] = {}
      /\ pc[t] = "shared" /\ UNCHANGED <<backend, rpc, got>>
  BY <1>1 DEF TypeOK, To, Commit, Forget
<1>3. /\ Appender \subseteq Tx /\ Creator \subseteq Tx /\ Deleter \subseteq Tx
      /\ SessionOf[t] \in Sid /\ None \notin Appender
  BY CallFacts DEF Tx
<1>4. /\ t \in Appender => eventRows' = eventRows \cup {t} /\ taken' = taken
      /\ t \in Creator  => eventRows' = eventRows /\ taken' = taken
      /\ t \in Deleter  => eventRows' = eventRows \ gone[t] /\ taken' = taken \cup gone[t]
  BY SqlAssumption DEF Commit, Appended, Created, Deleted
<1>5. StoredHasEnded'
  <2>1. \A e \in Tx : pc[e] \in {"done", "failed"} => pc'[e] \in {"done", "failed"}
    BY <1>2
  <2>2. eventRows' \subseteq eventRows \cup {t}
    BY <1>4 DEF Tx
  <2>3. \A e \in eventRows' : pc'[e] \in {"done", "failed"}
    BY <1>2, <1>3, <2>1, <2>2 DEF TypeOK, ReadInv, StoredHasEnded
  <2>4. \A d \in Deleter : gone'[d] \subseteq gone[d] /\ gone[d] \subseteq Appender
    BY <1>2 DEF TypeOK
  <2>5. \A d \in Deleter : \A e \in gone'[d] :
            pc'[e] \in {"done", "failed"} /\ SessionOf[e] = SessionOf[d]
    BY <1>3, <2>1, <2>4 DEF ReadInv, StoredHasEnded
  <2> QED
    BY <2>3, <2>5 DEF StoredHasEnded
<1>6. \A s \in Sid : \A k \in Key : state'[s][k] \in Appender =>
          \/ s = SessionOf[t] /\ state'[s][k] = t
          \/ state'[s][k] = state[s][k]
  <2> SUFFICES ASSUME NEW s \in Sid, NEW k \in Key, state'[s][k] \in Appender, s = SessionOf[t],
                      t \in touched
               PROVE  state'[s][k] \in {t, state[s][k]}
    BY CommitFrame
  <2>1. CASE t \in Appender /\ Appended(t)
    <3>1. CASE Writes[t] = {}
      BY <2>1, <3>1 DEF Appended
    <3>2. CASE Writes[t] # {}
      <4>1. base[t] \in {state[s], Blank} /\ base[t] \in States
        BY <1>2, <2>1, <3>2 DEF TypeOK, HoldInv, BaseIsState
      <4>2. state'[s] = Merged(base[t], t)
        BY <1>3, <2>1, <3>2 DEF TypeOK, Appended
      <4>3. state'[s][k] \in {t, base[t][k]}
        BY <4>1, <4>2, MergedFacts
      <4> QED
        BY <1>3, <4>1, <4>3, CallFacts
    <3> QED
      BY <3>1, <3>2
  <2>2. CASE t \in Creator /\ Created(t)
    BY <1>3, <2>2, MergedFacts, CallFacts DEF TypeOK, Created
  <2>3. CASE t \in Deleter /\ Deleted(t)
    BY <1>3, <2>3, CallFacts DEF TypeOK, Deleted
  <2> QED
    BY <2>1, <2>2, <2>3 DEF Commit
<1>7. ASSUME NEW s \in Sid, NEW k \in Key, state'[s][k] \in Appender
      PROVE  state'[s][k] \in eventRows' /\ SessionOf[state'[s][k]] = s
  <2>1. CASE t \in Appender
    BY <1>4, <1>6, <1>7, <2>1 DEF ReadInv, StateIsBacked
  <2>2. CASE t \in Creator
    BY <1>4, <1>6, <1>7, <2>2, SqlAssumption DEF ReadInv, StateIsBacked
  <2>3. CASE t \in Deleter
    <3>1. state'[s][k] = state[s][k]
      BY <1>6, <1>7, <2>3, SqlAssumption
    <3>2. state[s][k] \in eventRows /\ SessionOf[state[s][k]] = s
      BY <1>7, <3>1 DEF ReadInv, StateIsBacked
    <3>3. state[s][k] \notin gone[t]
      <4>1. CASE s # SessionOf[t]
        BY <2>3, <3>2, <4>1 DEF ReadInv, StoredHasEnded
      <4>2. CASE s = SessionOf[t] /\ t \notin touched
        BY <1>2, <2>3, <4>2 DEF ReadInv, StateIsBacked
      <4>3. CASE s = SessionOf[t] /\ t \in touched
        BY <1>3, <1>7, <2>3, <4>3, CallFacts, SqlAssumption DEF TypeOK, Commit, Deleted
      <4> QED
        BY <4>1, <4>2, <4>3
    <3> QED
      BY <1>4, <2>3, <3>1, <3>2, <3>3
  <2> QED
    BY <2>1, <2>2, <2>3 DEF Tx
<1>8. ASSUME NEW d \in Deleter, pc'[d] = "shared", d \notin touched', NEW k \in Key
      PROVE  state'[SessionOf[d]][k] \notin gone'[d]
  <2>1. d # t /\ pc[d] = "shared" /\ d \notin touched /\ gone'[d] = gone[d]
    BY <1>2, <1>3, <1>8
  <2>2. SessionOf[d] \in Sid /\ gone[d] \subseteq Appender
    BY <1>3, CallFacts DEF TypeOK
  <2>3. t \notin gone[d]
    BY <1>2 DEF ReadInv, StoredHasEnded
  <2> QED
    BY <1>6, <2>1, <2>2, <2>3 DEF ReadInv, StateIsBacked
<1>9. StateIsBacked'
  BY <1>7, <1>8 DEF StateIsBacked
<1>10. SharedIsBacked'
  BY <1>4, SqlAssumption DEF ReadInv, SharedIsBacked, Commit, Tx
<1>11. ReadSoFar' /\ ReadIsBacked'
  <2>1. \A r \in Reader \ since' : r \notin since /\ (rpc[r] # "row" => t \notin Deleter)
    BY DEF Commit
  <2>2. eventRows \cup taken \subseteq eventRows' \cup taken' /\ taken \subseteq taken'
    BY <1>4 DEF Tx
  <2>3. t \notin Deleter => eventRows \subseteq eventRows'
    BY <1>4 DEF Tx
  <2>4. ReadSoFar'
    BY <1>2, <2>1, <2>2, <2>3 DEF ReadInv, ReadSoFar
  <2>5. ReadIsBacked'
    BY <1>2, <2>1, <2>2 DEF ReadInv, ReadIsBacked
  <2> QED
    BY <2>4, <2>5
<1> QED
  BY <1>5, <1>9, <1>10, <1>11 DEF ReadInv

\* The statements of one read.
LEMMA ReadStepRead ==
    ASSUME TypeOK, ReadInv, NEW r \in Reader, ReadStep(r)
    PROVE  ReadInv'
<1>1. UNCHANGED <<tables, pc, gone, touched, since, taken>> /\ SessionOf[r] \in Sid
  BY CallFacts DEF ReadStep, work
<1>2. StoredHasEnded' /\ StateIsBacked' /\ SharedIsBacked'
  BY <1>1 DEF ReadInv, StoredHasEnded, StateIsBacked, SharedIsBacked, tables
<1>3. \A q \in Reader \ {r} : rpc'[q] = rpc[q] /\ got'[q] = got[q]
  BY DEF TypeOK, ReadStep
<1>4. CASE rpc[r] = "row"
  <2>1. rpc'[r] \in {"app", "absent"} /\ got'[r].shared = got[r].shared
    BY <1>4, StatementOrder DEF TypeOK, ReadStep
  <2>2. rpc'[r] = "app" => got'[r].state = state[SessionOf[r]]
    BY <1>4, StatementOrder DEF TypeOK, ReadStep
  <2>3. ReadSoFar'
    BY <1>1, <1>3, <1>4, <2>1, <2>2 DEF ReadInv, ReadSoFar, StateIsBacked, tables
  <2>4. ReadIsBacked'
    BY <1>1, <1>3, <2>1 DEF ReadInv, ReadIsBacked, tables
  <2> QED
    BY <1>2, <2>3, <2>4 DEF ReadInv
<1>5. CASE rpc[r] \in {"app", "user"}
  <2>1. rpc'[r] \in {"user", "events"} /\ got'[r].state = got[r].state
    BY <1>5, StatementOrder DEF TypeOK, ReadStep
  <2>2. \A k \in Scoped : got'[r].shared[k] \in {got[r].shared[k], shared[k]}
    BY <1>5 DEF TypeOK, ReadStep, Overlay
  <2>3. ReadSoFar'
    BY <1>1, <1>3, <1>5, <2>1, <2>2 DEF ReadInv, ReadSoFar, SharedIsBacked, tables
  <2>4. ReadIsBacked'
    BY <1>1, <1>3, <2>1 DEF ReadInv, ReadIsBacked, tables
  <2> QED
    BY <1>2, <2>3, <2>4 DEF ReadInv
<1>6. CASE rpc[r] = "events"
  <2>1. /\ rpc'[r] = "done" /\ got'[r].state = got[r].state /\ got'[r].shared = got[r].shared
        /\ got'[r].events = EventsOf(SessionOf[r])
    BY <1>6, StatementOrder DEF TypeOK, ReadStep
  <2>2. ReadSoFar'
    BY <1>1, <1>3, <2>1 DEF ReadInv, ReadSoFar, tables
  <2>3. ReadIsBacked'
    <3>1. ASSUME r \notin since, NEW e \in Appender, SessionOf[e] = SessionOf[r]
          PROVE  /\ (\E k \in Key : got'[r].state[k] = e) => e \in got'[r].events
                 /\ (\E k \in Scoped : got'[r].shared[k] = e) => e \in got'[r].events \cup taken
      <4>1. e \in eventRows => e \in got'[r].events
        BY <2>1, <3>1 DEF EventsOf
      <4>2. \A k \in Key : got[r].state[k] = e => e \in eventRows
        BY <1>6, <3>1 DEF ReadInv, ReadSoFar
      <4>3. \A k \in Scoped : got[r].shared[k] = e => e \in eventRows \cup taken
        BY <1>6, <3>1 DEF ReadInv, ReadSoFar
      <4> QED
        BY <2>1, <4>1, <4>2, <4>3
    <3> QED
      BY <1>1, <1>3, <3>1 DEF ReadInv, ReadIsBacked
  <2> QED
    BY <1>2, <2>2, <2>3 DEF ReadInv
<1> QED
  BY <1>4, <1>5, <1>6 DEF ReadStep

LEMMA InitRead == Init => ReadInv
BY CallFacts, SqlAssumption DEF Init, ReadInv, StoredHasEnded, StateIsBacked, SharedIsBacked, ReadSoFar,
   ReadIsBacked, NothingRead, Tx

LEMMA NextRead == TypeOK /\ HoldInv /\ ReadInv /\ [Next]_vars => ReadInv'
<1> SUFFICES ASSUME TypeOK, HoldInv, ReadInv, [Next]_vars PROVE ReadInv'
  OBVIOUS
<1>1. CASE UNCHANGED vars
  BY <1>1 DEF ReadInv, StoredHasEnded, StateIsBacked, SharedIsBacked, ReadSoFar, ReadIsBacked,
              vars, tables, work, reads
<1> QED
  BY <1>1, StatementRead, CommitRead, ReadStepRead DEF Next

LEMMA ReadInvAlways == Spec => []ReadInv
BY InitRead, NextRead, HoldsAlways, PTL DEF Spec

\* get_session reads the state, the app: and user: rows and the events in separate
\* statements and no transaction; for any calls, sessions and keys it still never
\* returns a value of an event without the event, unless a delete comes in between
\* (sqlite_backend.rs:146-247, postgres_backend.rs:148-247).
THEOREM ReadsAreBacked == Spec => []ReadIsBacked
<1>1. ReadInv => ReadIsBacked
  BY DEF ReadInv
<1> QED
  BY <1>1, ReadInvAlways, PTL

-----------------------------------------------------------------------------
(* The atomic calls of SessionTable.                                       *)

\* The two modules mean the same by an empty state, by merging and by the events
\* of a session.
LEMMA SameOperators ==
    /\ Table!Blank = Blank
    /\ \A st, t : Table!Merged(st, t) = Merged(st, t)
    /\ \A s : Table!EventsOf(s) = EventsOf(s)
BY DEF Table!Blank, Blank, Table!Merged, Merged, Table!EventsOf, EventsOf

\* Nobody has looked for a row yet.
LEMMA InitRefines == Init => Table!Init
BY SameOperators, SqlAssumption DEF Init, Table!Init, Blind, Tx

\* Who is blind depends on its own place and on whether it has found the row.
LEMMA BlindFrame ==
    ASSUME NEW t \in Tx,
           \A u \in Tx \ {t} : /\ pc'[u] = pc[u]
                               /\ u \in hit' <=> u \in hit
                               /\ u \in touched' <=> u \in touched
    PROVE  \A u : u # t => (u \in Blind' <=> u \in Blind)
BY DEF Blind, Tx

\* A call that ends is blind no more, and the others are as before.
LEMMA EndsBlind ==
    ASSUME TypeOK, NEW t \in Tx, NEW place \in {"done", "failed"}, To(t, place), Forget(t)
    PROVE  Blind' = Blind \ {t}
<1>1. /\ pc'[t] = place
      /\ \A u \in Tx \ {t} : /\ pc'[u] = pc[u]
                             /\ u \in hit' <=> u \in hit
                             /\ u \in touched' <=> u \in touched
  BY DEF TypeOK, To, Forget
<1>2. t \notin Blind'
  BY <1>1 DEF Blind
<1> QED
  BY <1>1, <1>2, BlindFrame

\* A transaction that is given up, whatever it had found.
LEMMA RollbackRefines ==
    ASSUME TypeOK, NEW t \in Tx, Rollback(t)
    PROVE  [Table!Next]_(Table!tableVars)
<1>1. Blind' = Blind \ {t} /\ UNCHANGED <<exists, state, eventRows, shared>>
  BY EndsBlind DEF Rollback, tables
<1>2. CASE t \in Appender \cup Deleter
  BY <1>1, <1>2 DEF Table!Next, Table!GiveUp
<1>3. CASE t \notin Appender \cup Deleter
  <2>1. Blind \subseteq Appender \cup Deleter
    BY DEF Blind
  <2> QED
    BY <1>1, <1>3, <2>1 DEF Table!tableVars
<1> QED
  BY <1>2, <1>3

\* A statement that looks for the row and does not find it is the abstract Lookup;
\* every other one changes nothing the abstract calls know of.
LEMMA StatementRefines ==
    ASSUME TypeOK, HoldInv, NEW t \in Tx, Statement(t)
    PROVE  [Table!Next]_(Table!tableVars)
<1>1. UNCHANGED <<exists, state, eventRows, shared>>
  BY NoCommit DEF tables
<1>2. SUFFICES ASSUME ~ Rollback(t) PROVE [Table!Next]_(Table!tableVars)
  BY RollbackRefines
<1>3. \A u \in Tx \ {t} : /\ pc'[u] = pc[u]
                          /\ u \in hit' <=> u \in hit
                          /\ u \in touched' <=> u \in touched
  BY <1>2 DEF TypeOK, Statement, InsertEvent, SelectState, UpdateRow, InsertSession, DeleteEvents,
              DeleteRow, Upsert, To, work
<1>4. \A u : u # t => (u \in Blind' <=> u \in Blind)
  BY <1>3, BlindFrame
<1>5. ASSUME t \in Blind' <=> t \in Blind PROVE [Table!Next]_(Table!tableVars)
  <2>1. Blind' = Blind
    BY <1>4, <1>5
  <2> QED
    BY <1>1, <2>1 DEF Table!tableVars
<1>6. ASSUME t \in Appender \cup Deleter, t \in Blind', SessionOf[t] \notin exists
      PROVE  [Table!Next]_(Table!tableVars)
  <2>1. Blind' = Blind \cup {t}
    BY <1>4, <1>6
  <2> QED
    BY <1>1, <1>6, <2>1 DEF Table!Next, Table!Lookup
<1>7. CASE InsertEvent(t)
  BY <1>5, <1>7, SqlAssumption DEF TypeOK, InsertEvent, To, Blind, work
<1>8. CASE SelectState(t)
  <2>1. /\ t \in Appender /\ t \notin Deleter /\ t \notin Blind
        /\ SessionOf[t] \in exists => t \in hit'
        /\ SessionOf[t] \notin exists => hit' = hit
        /\ pc'[t] = "row"
    BY <1>8, SqlAssumption DEF TypeOK, SelectState, To, Blind
  <2>2. Writes[t] # {}
    BY <1>8 DEF SelectState, HoldInv, PlacesOf
  <2>3. SessionOf[t] \notin exists => t \in Blind'
    BY <1>8, <2>1, <2>2 DEF HoldInv, RowLocked, SelectState, Blind
  <2>4. SessionOf[t] \in exists => t \notin Blind'
    BY <2>1 DEF Blind
  <2> QED
    BY <1>5, <1>6, <2>1, <2>3, <2>4
<1>9. CASE UpdateRow(t)
  BY <1>5, <1>9, SqlAssumption DEF TypeOK, UpdateRow, To, Blind
<1>10. CASE InsertSession(t)
  BY <1>5, <1>10, SqlAssumption DEF InsertSession, Blind
<1>11. CASE DeleteEvents(t)
  BY <1>5, <1>11, SqlAssumption DEF TypeOK, DeleteEvents, To, Blind
<1>12. CASE DeleteRow(t)
  <2>1. t \in Deleter /\ t \notin Appender /\ t \notin Blind /\ t \notin touched
    BY <1>12, SqlAssumption DEF DeleteRow, Blind, HoldInv, RowLocked
  <2>2. SessionOf[t] \in exists => t \notin Blind'
    BY <1>12, <2>1 DEF DeleteRow, Blind
  <2>3. SessionOf[t] \notin exists => t \in Blind'
    BY <1>12, <2>1 DEF TypeOK, DeleteRow, To, Blind
  <2> QED
    BY <1>5, <1>6, <2>1, <2>2, <2>3
<1>13. ASSUME NEW k \in Scoped, Upsert(t, k) PROVE [Table!Next]_(Table!tableVars)
  BY <1>5, <1>13 DEF Upsert, Blind
<1> QED
  BY <1>7, <1>8, <1>9, <1>10, <1>11, <1>12, <1>13 DEF Statement

\* A commit is the whole call.
LEMMA CommitRefines ==
    ASSUME TypeOK, HoldInv, ReadInv, NEW t \in Tx, Commit(t)
    PROVE  Table!Next
<1>1. Blind' = Blind \ {t}
  <2>1. PICK place \in {"done", "failed"} : To(t, place)
    BY DEF Commit
  <2> QED
    BY <2>1, EndsBlind DEF Commit
<1>2. /\ shared' = Table!Upserted(t) /\ pc[t] = "shared" /\ SessionOf[t] \in Sid
      /\ Blind \subseteq Appender \cup Deleter
  BY CallFacts DEF Commit, Table!Upserted, Blind
<1>3. CASE t \in Appender /\ Appended(t)
  <2> DEFINE s == SessionOf[t]
  <2>1. eventRows' = eventRows \cup {t} /\ UNCHANGED exists
    BY <1>3 DEF Appended
  <2>2. \/ s \in exists /\ state' = [state EXCEPT ![s] = Merged(@, t)]
        \/ s \in exists /\ t \in Blind /\ state' = [state EXCEPT ![s] = Merged(Blank, t)]
        \/ (s \notin exists \/ t \in Blind) /\ UNCHANGED state
    <3>1. CASE Writes[t] = {}
      <4>1. Merged(state[s], t) = state[s]
        BY <1>2, <3>1, MergedFacts DEF TypeOK
      <4>2. state' = state /\ state = [state EXCEPT ![s] = Merged(@, t)]
        BY <1>2, <1>3, <3>1, <4>1 DEF TypeOK, Appended
      <4> QED
        BY <4>2
    <3>2. CASE Writes[t] # {} /\ t \in touched
      <4>1. s \in exists /\ state' = [state EXCEPT ![s] = Merged(base[t], t)]
        BY <1>3, <3>2, SqlAssumption DEF HoldInv, RowLocked, Appended
      <4>2. base[t] = IF t \in hit THEN state[s] ELSE Blank
        BY <1>2, <1>3, <3>2 DEF HoldInv, BaseIsState
      <4>3. t \notin hit => t \in Blind
        BY <1>2, <1>3, <3>2 DEF Blind
      <4> QED
        BY <4>1, <4>2, <4>3
    <3>3. CASE Writes[t] # {} /\ t \notin touched
      <4>1. UNCHANGED state
        BY <1>3, <3>3 DEF Appended
      <4>2. t \in Blind
        BY <1>2, <1>3, <3>3 DEF Blind, HoldInv, RowLocked
      <4> QED
        BY <4>1, <4>2
    <3> QED
      BY <3>1, <3>2, <3>3
  <2> QED
    BY <1>1, <1>2, <1>3, <2>1, <2>2, SameOperators DEF Table!Next, Table!Append
<1>4. CASE t \in Creator /\ Created(t)
  <2>1. SessionOf[t] \notin exists
    BY <1>2, <1>4 DEF HoldInv, RowLocked
  <2>2. Blind' = Blind
    BY <1>1, <1>2, <1>4, SqlAssumption
  <2> QED
    BY <1>2, <1>4, <2>1, <2>2, SameOperators DEF Table!Next, Table!Create, Created
<1>5. CASE t \in Deleter /\ Deleted(t)
  <2>1. shared' = shared
    BY <1>2, <1>5, CallFacts DEF TypeOK, Commit
  <2>2. \/ /\ exists' = exists \ {SessionOf[t]}
           /\ state' = [state EXCEPT ![SessionOf[t]] = Blank]
        \/ t \in Blind /\ UNCHANGED <<exists, state>>
    BY <1>2, <1>5 DEF Deleted, Blind
  <2>3. \E lost \in SUBSET EventsOf(SessionOf[t]) : eventRows' = eventRows \ lost
    <3>1. gone[t] \cap eventRows \in SUBSET EventsOf(SessionOf[t])
      BY <1>5 DEF ReadInv, StoredHasEnded, EventsOf
    <3>2. eventRows' = eventRows \ (gone[t] \cap eventRows)
      BY <1>5 DEF Deleted
    <3> QED
      BY <3>1, <3>2
  <2> QED
    BY <1>1, <1>5, <2>1, <2>2, <2>3, SameOperators DEF Table!Next, Table!Delete
<1> QED
  BY <1>3, <1>4, <1>5 DEF Commit

LEMMA NextRefines ==
    TypeOK /\ HoldInv /\ ReadInv /\ [Next]_vars => [Table!Next]_(Table!tableVars)
<1> SUFFICES ASSUME TypeOK, HoldInv, ReadInv, [Next]_vars
             PROVE  [Table!Next]_(Table!tableVars)
  OBVIOUS
<1>1. ASSUME NEW t \in Tx, Abort(t) PROVE [Table!Next]_(Table!tableVars)
  BY <1>1, RollbackRefines DEF Abort
<1>2. ASSUME UNCHANGED <<tables, pc, work>> PROVE [Table!Next]_(Table!tableVars)
  BY <1>2 DEF tables, work, Table!tableVars, Blind
<1>3. ASSUME NEW r \in Reader, ReadStep(r) PROVE [Table!Next]_(Table!tableVars)
  BY <1>2, <1>3 DEF ReadStep
<1>4. CASE UNCHANGED vars
  BY <1>2, <1>4 DEF vars
<1> QED
  BY <1>1, <1>3, <1>4, StatementRefines, CommitRefines DEF Next

\* The transactions of either backend, statement by statement and with every fault,
\* implement the atomic calls of SessionTable: "concurrent writers no longer clobber
\* each other's keys" (sqlite_backend.rs:420-426), except for a call that has found
\* no row.  It takes the locks (HoldInv) and, for a delete, that the events it has
\* seen are those of its session (ReadInv).
THEOREM TransactionsAreAtomic == Spec => ImplementsSessionTable
<1>1. Spec => Table!Spec
  BY ReadInvAlways, HoldsAlways, InitRefines, NextRefines, PTL DEF Spec, Table!Spec
<1> QED
  BY <1>1 DEF ImplementsSessionTable

=============================================================================
