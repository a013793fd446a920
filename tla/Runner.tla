------------------------------- MODULE Runner -------------------------------
(***************************************************************************)
(* The runner (runner/runner.rs): start / resume, the lazily polled event  *)
(* stream with its ActiveGuard, cancel, and the append path into the       *)
(* in-memory session store, for several invocations of the same sessions.  *)
(*                                                                         *)
(* A handle is one call of start or resume and the stream it returned.     *)
(* Event <<h, 0>> is the user event of handle h, <<h, 1>> .. <<h,          *)
(* Emits[h]>> are what its agent emits, <<h, Emits[h] + 1>> its            *)
(* compaction event.  The agent is abstracted to what the runner sees of   *)
(* it: branches that push events into the live session and hand them over, *)
(* in any order, until it ends or fails.                                   *)
(***************************************************************************)
EXTENDS InMemorySessionService

CONSTANTS
    Handle,      \* calls of start / resume
    None,        \* "no token registered"
    Emits,       \* bound: events the agent of each call emits
    AutoCreate   \* RunnerBuilder::auto_create_session

ASSUME HandleAssumption == None \notin Handle
ASSUME EmitsAssumption == Emits \in [Handle -> Nat]
ASSUME AutoCreateAssumption == AutoCreate \in BOOLEAN
ASSUME EventAssumption == Event = UNION {{h} \X (0 .. Emits[h] + 1) : h \in Handle}

VARIABLES
    pc,        \* where each handle is, see Pc
    sid,       \* the session it runs on
    iid,       \* its invocation id, named after the handle that drew it
    active,    \* Runner::active: invocation id -> the handle whose token it holds
    token,     \* CancellationToken of each handle
    live,      \* InvocationContext::session
    seed,      \* the snapshot append_event_locked took for the store
    cur,       \* the event being processed, NoEvent for a partial one
    made,      \* events the agent has emitted so far
    pending,   \* emitted, not yet returned by the stream's next()
    yielded,   \* history: persisted events the caller has received, in order
    cut        \* history: what happened to the session under the handle, see Cut

runVars == <<pc, sid, iid, active, token, live, seed, cur, made, pending, yielded, cut>>
vars == <<storeVars, runVars>>

Starting  == {"new", "create", "insert", "loaded"}
Appending == {"live", "scoped", "mirror"}
Polled    == {"awaiting", "hook", "compact"}
Ended     == {"done", "dropped", "failed"}
Pc        == Starting \cup Appending \cup {"before_run", "ready"} \cup Polled \cup Ended

Cut == {"no", "replaced", "deleted"}

UserEvent(h)       == <<h, 0>>
CompactionEvent(h) == <<h, Emits[h] + 1>>
AgentEvents(h)     == {h} \X (1 .. Emits[h])

\* The stream exists and has been polled: its ActiveGuard is alive.
InFlight(h) ==
    \/ pc[h] \in Polled
    \/ pc[h] \in Appending /\ cur[h] # UserEvent(h)

RunTypeOK ==
    /\ pc \in [Handle -> Pc]
    /\ sid \in [Handle -> Sid]
    /\ iid \in [Handle -> Handle]
    /\ active \in [Handle -> Handle \cup {None}]
    /\ token \in [Handle -> BOOLEAN]
    /\ live \in [Handle -> Session]
    /\ seed \in [Handle -> Session]
    /\ cur \in [Handle -> Event \cup {NoEvent}]
    /\ made \in [Handle -> Nat]
    /\ pending \in [Handle -> SUBSET Event]
    /\ yielded \in [Handle -> Seq(Event)]
    /\ cut \in [Handle -> Cut]

\* The variables of both modules have their types.
TypeOK == StoreTypeOK /\ RunTypeOK

Init ==
    /\ StoreInit
    /\ pc = [h \in Handle |-> "new"]
    /\ sid \in [Handle -> Sid]
    /\ iid = [h \in Handle |-> h]
    /\ active = [i \in Handle |-> None]
    /\ token = [h \in Handle |-> FALSE]
    /\ live = [h \in Handle |-> NewSession]
    /\ seed = [h \in Handle |-> NewSession]
    /\ cur = [h \in Handle |-> NoEvent]
    /\ made = [h \in Handle |-> 0]
    /\ pending = [h \in Handle |-> {}]
    /\ yielded = [h \in Handle |-> <<>>]
    /\ cut = [h \in Handle |-> "no"]

GoTo(h, to) == pc' = [pc EXCEPT ![h] = to]

\* Handles that hold a snapshot of session s.
Holders(s) == {g \in Handle : sid[g] = s /\ pc[g] \notin {"new", "create", "insert", "failed"}}

-----------------------------------------------------------------------------
(* Leaving the run.  The context goes away, with its live session and its  *)
(* token.                                                                  *)

Release(h) ==
    /\ live' = [live EXCEPT ![h] = NewSession]
    /\ cur' = [cur EXCEPT ![h] = NoEvent]
    /\ pending' = [pending EXCEPT ![h] = {}]
    /\ token' = [token EXCEPT ![h] = FALSE]

\* start returns an error.
Fail(h) == GoTo(h, "failed") /\ Release(h)

\* Mutant: the stream forgets its entry when it ends.
FinishKeepsEntry(h) == GoTo(h, "done") /\ Release(h) /\ UNCHANGED active

\* The stream ends or is dropped: the guard takes the id out of the map,
\* whoever's token it holds by now.
Finish(h) ==
    /\ GoTo(h, "done")
    /\ active' = [active EXCEPT ![iid[h]] = None]
    /\ Release(h)

-----------------------------------------------------------------------------
(* start_internal, up to the returned RunningInvocation.                   *)

\* load_or_create_session: get_session answers.
Load(h) ==
    /\ pc[h] = "new"
    /\ IF Has(sid[h])
       THEN /\ live' = [live EXCEPT ![h] = sessions[sid[h]].session]
            /\ GoTo(h, "loaded")
       ELSE /\ GoTo(h, IF AutoCreate THEN "create" ELSE "failed")
            /\ UNCHANGED live
    /\ UNCHANGED <<storeVars, sid, iid, active, token, seed, cur, made, pending, yielded, cut>>

\* create_session, first half: AlreadyExists if the id is taken by now.
CreateCheck(h) ==
    /\ pc[h] = "create"
    /\ GoTo(h, IF Has(sid[h]) THEN "failed" ELSE "insert")
    /\ UNCHANGED <<storeVars, sid, iid, active, token, live, seed, cur, made, pending, yielded, cut>>

\* create_session, second half.
CreateInsert(h) ==
    /\ pc[h] = "insert"
    /\ InsertSession(sid[h])
    /\ cut' = [g \in Handle |->
                  IF g \in Holders(sid[h]) /\ cut[g] = "no" THEN "replaced" ELSE cut[g]]
    /\ GoTo(h, "loaded")
    /\ UNCHANGED <<sid, iid, active, token, live, seed, cur, made, pending, yielded>>

\* The token is registered, under a fresh id (start) or under the id of an
\* earlier call (resume).  Then the preprocessors accept the user content, or
\* fail the call, or (resume) there is none.
Register(h) ==
    /\ pc[h] = "loaded"
    /\ \E g \in Handle :
        /\ g = h \/ pc[g] \notin Starting
        /\ iid' = [iid EXCEPT ![h] = iid[g]]
        /\ active' = [active EXCEPT ![iid[g]] = h]
    /\ \/ GoTo(h, "live") /\ cur' = [cur EXCEPT ![h] = UserEvent(h)] /\ UNCHANGED <<token, live, pending>>
       \/ Fail(h)
       \/ GoTo(h, "before_run") /\ UNCHANGED <<token, live, cur, pending>>
    /\ UNCHANGED <<storeVars, sid, seed, made, yielded, cut>>

\* plugins.before_run; when it fails so does the call.
BeforeRun(h) ==
    /\ pc[h] = "before_run"
    /\ \/ GoTo(h, "ready") /\ UNCHANGED <<token, live, cur, pending>>
       \/ Fail(h)
    /\ UNCHANGED <<storeVars, sid, iid, active, seed, made, yielded, cut>>

-----------------------------------------------------------------------------
(* append_event_locked, called for the user event, for each event of the   *)
(* agent and for the compaction event.                                     *)

\* Critical section on the live session; the snapshot is taken inside it.
AppendLive(h) ==
    /\ pc[h] = "live"
    /\ live' = [live EXCEPT ![h] = ApplyEvent(@, cur[h])]
    /\ seed' = [seed EXCEPT ![h] = ApplyEvent(live[h], cur[h])]
    /\ GoTo(h, "scoped")
    /\ UNCHANGED <<storeVars, sid, iid, active, token, cur, made, pending, yielded, cut>>

\* app_slot / user_slot, outside the live lock.
AppendScoped(h) ==
    /\ pc[h] = "scoped"
    /\ ApplyScoped(cur[h])
    /\ GoTo(h, "mirror")
    /\ UNCHANGED <<sid, iid, active, token, live, seed, cur, made, pending, yielded, cut>>

\* mirror_event, and back to the caller; the compaction event is the last
\* thing a stream does.
AppendMirror(h) ==
    /\ pc[h] = "mirror"
    /\ MirrorEvent(sid[h], seed[h], cur[h])
    /\ seed' = [seed EXCEPT ![h] = NewSession]
    /\ \/ /\ cur[h] = UserEvent(h)
          /\ GoTo(h, "before_run")
          /\ cur' = [cur EXCEPT ![h] = NoEvent]
          /\ UNCHANGED <<active, token, live, pending>>
       \/ /\ cur[h] \in AgentEvents(h)
          /\ GoTo(h, "hook")
          /\ UNCHANGED <<active, token, live, cur, pending>>
       \/ cur[h] = CompactionEvent(h) /\ Finish(h)
    /\ UNCHANGED <<sid, iid, made, yielded, cut>>

-----------------------------------------------------------------------------
(* The event stream.  Every error ends it after plugins.after_run(Some(e)),*)
(* which touches nothing modelled here.                                    *)

\* First poll: the guard is created and the agent started, or fails to.
FirstPoll(h) ==
    /\ pc[h] = "ready"
    /\ \/ GoTo(h, "awaiting") /\ UNCHANGED <<active, token, live, cur, pending>>
       \/ Finish(h)
    /\ UNCHANGED <<storeVars, sid, iid, seed, made, yielded, cut>>

\* A branch of the agent emits an event.  LLM agents push theirs into the live
\* session first, workflow agents do not.  Branches run while the runner waits
\* or appends; what they do while it is elsewhere shows when it waits again.
AgentEmit(h) ==
    /\ InFlight(h)
    /\ pc[h] \in {"awaiting"} \cup Appending
    /\ made[h] < Emits[h]
    /\ made' = [made EXCEPT ![h] = @ + 1]
    /\ pending' = [pending EXCEPT ![h] = @ \cup {<<h, made[h] + 1>>}]
    /\ \/ live' = [live EXCEPT ![h] = PushEvent(@, <<h, made[h] + 1>>)]
       \/ UNCHANGED live
    /\ UNCHANGED <<storeVars, pc, sid, iid, active, token, seed, cur, yielded, cut>>

\* next() returns an event to persist: it is taken out of the live log, to
\* be appended again by append_event_locked.
TakeEvent(h) ==
    /\ pc[h] = "awaiting"
    /\ \E e \in pending[h] :
        /\ pending' = [pending EXCEPT ![h] = @ \ {e}]
        /\ live' = [live EXCEPT ![h] = WithoutEvent(@, e)]
        /\ cur' = [cur EXCEPT ![h] = e]
    /\ GoTo(h, "live")
    /\ UNCHANGED <<storeVars, sid, iid, active, token, seed, made, yielded, cut>>

\* plugins.on_event accepts the event, which is yielded until the caller
\* polls for more, or fails the run.  A partial event goes from next() to
\* the caller and changes nothing here.
Hook(h) ==
    /\ pc[h] = "hook"
    /\ \/ /\ GoTo(h, "awaiting")
          /\ yielded' = [yielded EXCEPT ![h] = Append(@, cur[h])]
          /\ cur' = [cur EXCEPT ![h] = NoEvent]
          /\ UNCHANGED <<active, token, live, pending>>
       \/ Finish(h) /\ UNCHANGED yielded
    /\ UNCHANGED <<storeVars, sid, iid, seed, made, cut>>

\* next() returns an error.
AgentError(h) ==
    /\ pc[h] = "awaiting"
    /\ Finish(h)
    /\ UNCHANGED <<storeVars, sid, iid, seed, made, yielded, cut>>

\* next() returns None.  A parallel agent that finds the token flipped drops
\* what its branches still have in its channel.  Then plugins.after_run(None),
\* whose failure skips compaction.
AgentEnd(h) ==
    /\ pc[h] = "awaiting"
    /\ pending[h] = {} \/ token[h]
    /\ \/ /\ GoTo(h, "compact")
          /\ pending' = [pending EXCEPT ![h] = {}]
          /\ UNCHANGED <<active, token, live, cur>>
       \/ Finish(h)
    /\ UNCHANGED <<storeVars, sid, iid, seed, made, yielded, cut>>

\* Compaction: no window, no summary or a failed one, or an event to append.
Compact(h) ==
    /\ pc[h] = "compact"
    /\ \/ Finish(h)
       \/ /\ cur' = [cur EXCEPT ![h] = CompactionEvent(h)]
          /\ GoTo(h, "live")
          /\ UNCHANGED <<active, token, live, pending>>
    /\ UNCHANGED <<storeVars, sid, iid, seed, made, yielded, cut>>

\* The caller drops the handle before polling it: there is no guard yet.
DropUnpolled(h) ==
    /\ pc[h] = "ready"
    /\ GoTo(h, "dropped")
    /\ Release(h)
    /\ UNCHANGED <<storeVars, sid, iid, active, seed, made, yielded, cut>>

\* The caller drops a stream suspended at an await or a yield.  The in-memory
\* append never suspends.
Drop(h) ==
    /\ pc[h] \in Polled
    /\ Finish(h)
    /\ UNCHANGED <<storeVars, sid, iid, seed, made, yielded, cut>>

-----------------------------------------------------------------------------
(* Other callers.                                                          *)

\* Runner::cancel, when it returns true.
Cancel(i) ==
    /\ active[i] # None
    /\ token' = [token EXCEPT ![active[i]] = TRUE]
    /\ UNCHANGED <<storeVars, pc, sid, iid, active, live, seed, cur, made, pending, yielded, cut>>

\* RunningInvocation::cancellation, flipped by whoever holds the handle.
CancelHandle(h) ==
    /\ pc[h] = "ready" \/ InFlight(h)
    /\ token' = [token EXCEPT ![h] = TRUE]
    /\ UNCHANGED <<storeVars, pc, sid, iid, active, live, seed, cur, made, pending, yielded, cut>>

\* A client deletes the session, in flight or not.
Delete(s) ==
    /\ Has(s)
    /\ DeleteSession(s)
    /\ cut' = [g \in Handle |-> IF g \in Holders(s) THEN "deleted" ELSE cut[g]]
    /\ UNCHANGED <<pc, sid, iid, active, token, live, seed, cur, made, pending, yielded>>

Start(h) ==
    Load(h) \/ CreateCheck(h) \/ CreateInsert(h) \/ Register(h) \/ BeforeRun(h)

AppendStep(h) == AppendLive(h) \/ AppendScoped(h) \/ AppendMirror(h)

Stream(h) ==
    \/ FirstPoll(h) \/ TakeEvent(h) \/ Hook(h)
    \/ AgentError(h) \/ AgentEnd(h) \/ Compact(h)

Next ==
    \/ \E h \in Handle :
        \/ Start(h) \/ AppendStep(h) \/ Stream(h) \/ AgentEmit(h)
        \/ DropUnpolled(h) \/ Drop(h) \/ CancelHandle(h)
    \/ \E i \in Handle : Cancel(i)
    \/ \E s \in Sid : Delete(s)

Spec == Init /\ [][Next]_vars

-----------------------------------------------------------------------------
(* Properties.                                                             *)

\* No event is twice in the store or twice in a live session, although the
\* agent pushes it, the runner takes it out and appends it again, and the
\* store may be seeded from a live session that already held it
\* (runner.rs:340-356, session.rs:72-81).
NoDuplicateEvents ==
    /\ \A s \in Sid : NoDuplicates(sessions[s].session.events)
    /\ \A h \in Handle : NoDuplicates(live[h].events) /\ NoDuplicates(seed[h].events)

\* What handle h's agent has in the stored session.
StoredEvents(h) == Selected(sessions[sid[h]].session.events, AgentEvents(h))

\* Unless the session was deleted or replaced under it, an invocation's events
\* are in the store in the order its caller received them, each one persisted
\* before it is yielded and at most one of them not yet yielded, however many
\* invocations write to the session (runner.rs:349-375, session.rs:55-64).
PersistedInYieldOrder ==
    \A h \in Handle : cut[h] = "no" =>
        /\ IsPrefix(yielded[h], StoredEvents(h))
        /\ Len(StoredEvents(h)) <= Len(yielded[h]) + 1

\* A session read from the store carries the delta of its last event, so that
\* replaying its log gives its state, until it has been deleted or replaced
\* under an invocation (session.rs:65-82).
StateIsReplay ==
    \A s \in Sid :
        (/\ \A h \in Handle : sid[h] = s => cut[h] = "no"
         /\ sessions[s].session.events # <<>>)
        => sessions[s].session.state = Last(sessions[s].session.events)

\* No other call ever used the invocation id of h.
SoleOwner(h) ==
    \A g \in Handle \ {h} : iid[g] # iid[h]

\* From the first poll on, a stream that shares its invocation id with no other
\* call is registered exactly while it is in flight: cancel reaches it until
\* it ends, and finds nothing afterwards, whichever way it ended
\* (runner.rs:45-58, runner.rs:323-331).
RegisteredWhileInFlight ==
    \A h \in Handle : SoleOwner(h) =>
        /\ InFlight(h) => active[iid[h]] = h
        /\ pc[h] = "done" => active[iid[h]] = None

\* The store as its users see it: an append-only log per session, whatever
\* the invocations do to it concurrently (core/session.rs:23-25 and
\* services/mem/session.rs:55-64).
Log == INSTANCE SessionLog WITH
    RacyCreate <- AutoCreate,
    present <- [s \in Sid |-> sessions[s].present],
    log <- [s \in Sid |-> sessions[s].session.events]

ImplementsSessionLog == Log!Spec

-----------------------------------------------------------------------------
(* The invariants are inductive together with these.                       *)

\* Event <<h, n>> may be in a log by now: the append of the user event has
\* begun, the agent has made the event, or the append of the compaction event,
\* which is the last thing a stream does, has begun.
Issued(h, n) ==
    \/ n = 0 /\ pc[h] \notin Starting /\ ~(pc[h] = "live" /\ cur[h] = UserEvent(h))
    \/ n \in 1 .. made[h]
    \/ /\ n = Emits[h] + 1
       /\ \/ pc[h] \in Ended
          \/ pc[h] \in {"scoped", "mirror"} /\ cur[h] = CompactionEvent(h)

InLogs(e) ==
    \/ \E s \in Sid : Contains(sessions[s].session.events, e)
    \/ \E h \in Handle : Contains(live[h].events, e) \/ Contains(seed[h].events, e)

LoggedIsIssued ==
    \A h \in Handle : \A n \in 0 .. Emits[h] + 1 : InLogs(<<h, n>>) => Issued(h, n)

\* The event in hand is the user event, one the agent made or the compaction
\* event, and it is not in the live log when its append begins.
CurrentEvent ==
    \A h \in Handle :
        /\ made[h] <= Emits[h]
        /\ pending[h] \subseteq {h} \X (1 .. made[h])
        /\ pc[h] \in Appending =>
              cur[h] \in {UserEvent(h), CompactionEvent(h)} \cup ({h} \X (1 .. made[h]))
        /\ pc[h] = "hook" => cur[h] \in {h} \X (1 .. made[h])

CurrentNotLive == \A h \in Handle : pc[h] = "live" => ~Contains(live[h].events, cur[h])

LogInv == LoggedIsIssued /\ NoDuplicateEvents /\ CurrentNotLive

\* Nobody shares the id of a call that has not registered yet, and a call that
\* has, alone under its id, has its entry until it ends.
RegisteredPc == Appending \cup {"before_run", "ready"} \cup Polled

RegistryInv ==
    \A h \in Handle :
        /\ pc[h] \in Starting => iid[h] = h /\ SoleOwner(h)
        /\ pc[h] \in RegisteredPc /\ SoleOwner(h) => active[iid[h]] = h
        /\ pc[h] = "done" /\ SoleOwner(h) => active[iid[h]] = None

CreateInv == \A h \in Handle : pc[h] \in {"create", "insert"} => AutoCreate
=============================================================================
