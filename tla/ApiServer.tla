------------------------------ MODULE ApiServer ------------------------------
(***************************************************************************)
(* The HTTP server (server/adk_web.rs) over the session store, the runner  *)
(* and the artifacts: requests that run at the same time, each of them a   *)
(* handler with its own snapshot of the session.                           *)
(*                                                                         *)
(* Module Runner has the steps of an append and of a run; here an append   *)
(* is one step, and a run is what the handler sees of it: its session, its *)
(* user event, its events, each of which may announce an artifact, and its *)
(* end.  Event <<q, 0>> is the state delta of request q, <<q, 1>> its user *)
(* event, or both are events it imports; the others are its run's.         *)
(***************************************************************************)
EXTENDS ArtifactService, Sequences, SequencesExt

CONSTANTS
    Request,     \* the requests, which are also the calls of the artifact service
    Sid,         \* session ids
    Asks,        \* what each request may ask for
    NoEvent,     \* no state delta
    MaxEvents,   \* bound: events of a run
    MaxImports,  \* bound: events a request brings with it
    AutoCreate   \* RunnerBuilder::auto_create_session

Event == Request \X (0 .. MaxEvents + 1)
Runs  == {"run", "run_sse"}
Kinds == Runs \cup {"create", "patch", "delete", "load", "delete_artifact"}

ASSUME ApiAssumption ==
    /\ Caller = Request /\ Body = Event /\ Asks \in [Request -> SUBSET Kinds]
    /\ MaxEvents \in Nat /\ MaxImports \in Nat /\ AutoCreate \in BOOLEAN

VARIABLES
    sessions,   \* the session store
    pc, kind, sid, live, made,  \* of a request: its place, what it asks, its session, its snapshot, its run's events
    delta,      \* the artifact each event announces
    told,       \* the events its client has been told of
    announced,  \* artifacts a client has been told of
    stale,      \* history: events whose artifact has been deleted
    hope,       \* of a load: what its client may count on
    cut,        \* history: the session went away under the request's snapshot
    deleted,    \* history: sessions deleted and not created again since ...
    holders     \* ... and the requests that had found them

\* The app: and user: state is in module Runner.
INSTANCE InMemorySessionService WITH scoped <- {}

sessionVars == <<sessions, deleted, holders>>
requestVars == <<pc, kind, sid, live, made, told, hope, cut>>
tellVars == <<delta, announced, stale>>
vars == <<artifactVars, sessionVars, requestVars, tellVars>>

NoDelta == <<"none", 0>>

Announcement == [name : Name, version : 1 .. MaxVersion, body : Event]
Places == {"new", "look", "insert", "import", "found", "start", "user", "run", "save", "frame",
           "load", "delete", "answered"}

\* Every variable has its type.
TypeOK ==
    /\ ArtifactTypeOK
    /\ sessions \in [Sid -> Slot] /\ deleted \subseteq Sid /\ holders \in [Sid -> SUBSET Request]
    /\ pc \in [Request -> Places] /\ kind \in [Request -> Kinds \cup {"none"}] /\ sid \in [Request -> Sid]
    /\ live \in [Request -> Session] /\ made \in [Request -> 1 .. MaxEvents + 1]
    /\ told \in [Request -> Seq(Event)] /\ cut \in [Request -> BOOLEAN]
    /\ delta \in [Event -> (Name \X (1 .. MaxVersion)) \cup {NoDelta}] /\ stale \subseteq Event
    /\ announced \subseteq Announcement /\ hope \in [Request -> SUBSET Announcement]

Init ==
    /\ ArtifactInit
    /\ sessions \in [Sid -> {NoSlot, [NoSlot EXCEPT !.present = TRUE]}]
    /\ pc = [q \in Request |-> "new"] /\ kind = [q \in Request |-> "none"]
    /\ sid \in [Request -> Sid] /\ live = [q \in Request |-> NewSession]
    /\ made = [q \in Request |-> 1] /\ delta = [e \in Event |-> NoDelta]
    /\ told = [q \in Request |-> <<>>] /\ announced = {} /\ stale = {}
    /\ hope = [q \in Request |-> {}] /\ cut = [q \in Request |-> FALSE]
    /\ deleted = {s \in Sid : ~Has(s)} /\ holders = [s \in Sid |-> {}]

\* Requests that have found session s, and not been answered.
Holding(s) == {q \in Request : sid[q] = s /\ pc[q] \notin {"new", "look", "answered"}}

\* Request q takes session s away from every other that has found or left something in it.
CutBy(q, s) ==
    cut' = [p \in Request |-> p # q /\ (cut[p] \/ (sid[p] = s /\ pc[p] \notin {"new", "look"}))]

To(q, place) == pc' = [pc EXCEPT ![q] = place]

\* The answer; the snapshot goes away with the handler.
Answer(q, events) ==
    /\ To(q, "answered") /\ told' = [told EXCEPT ![q] = events]
    /\ live' = [live EXCEPT ![q] = NewSession]

Refuse(q) == Answer(q, told[q])

\* append_event on the request's snapshot.
AppendTo(q, e) ==
    LET s == ApplyEvent(live[q], e) IN
    /\ live' = [live EXCEPT ![q] = s]
    /\ MirrorEvent(sid[q], s, e)

\* A request comes in.
Arrive(q) ==
    /\ pc[q] = "new" /\ To(q, "look")
    /\ \E k \in Asks[q] : kind' = [kind EXCEPT ![q] = k]
    /\ UNCHANGED <<artifactVars, sessionVars, sid, live, made, told, hope, cut, tellVars>>

Asked(q, k, place) == kind[q] = k /\ pc[q] = place

-----------------------------------------------------------------------------
(* Sessions.                                                               *)

\* create_session_impl: a session that is there is a conflict.
CreateLook(q) ==
    /\ Asked(q, "create", "look")
    /\ IF Has(sid[q]) THEN Refuse(q) ELSE To(q, "insert") /\ UNCHANGED <<told, live>>
    /\ UNCHANGED <<artifactVars, sessionVars, kind, sid, made, hope, cut, tellVars>>

\* Another request has inserted it meanwhile: an error, or it is replaced.
CreateInsert(q) ==
    /\ Asked(q, "create", "insert")
    /\ \/ Has(sid[q]) /\ Refuse(q) /\ UNCHANGED <<sessionVars, cut>>
       \/ /\ InsertSession(sid[q]) /\ CutBy(q, sid[q]) /\ deleted' = deleted \ {sid[q]}
          /\ UNCHANGED holders
          /\ To(q, "import") /\ UNCHANGED <<live, told>>
    /\ UNCHANGED <<artifactVars, kind, sid, made, hope, tellVars>>

\* One event of the request after the other is appended, with the id the client
\* has given it; the store knows a repeated one, the snapshot does not.
Import(q) ==
    /\ Asked(q, "create", "import") /\ Len(live[q].events) < MaxImports
    /\ \E i \in {0, 1} : AppendTo(q, <<q, i>>)
    /\ UNCHANGED <<artifactVars, deleted, holders, pc, kind, sid, made, told, hope, cut, tellVars>>

\* The answer is the snapshot.
Imported(q) ==
    /\ Asked(q, "create", "import") /\ Answer(q, live[q].events)
    /\ UNCHANGED <<artifactVars, sessionVars, kind, sid, made, hope, cut, tellVars>>

\* get_session, before an append or a run: no session, no request.
Look(q) ==
    /\ pc[q] = "look" /\ kind[q] \in Runs \cup {"patch"}
    /\ IF Has(sid[q])
       THEN To(q, "found") /\ live' = [live EXCEPT ![q] = sessions[sid[q]].session] /\ UNCHANGED told
       ELSE Refuse(q)
    /\ UNCHANGED <<artifactVars, sessionVars, kind, sid, made, hope, cut, tellVars>>

Patch(q) ==
    /\ Asked(q, "patch", "found")
    /\ MirrorEvent(sid[q], ApplyEvent(live[q], <<q, 0>>), <<q, 0>>) /\ Answer(q, <<<<q, 0>>>>)
    /\ UNCHANGED <<artifactVars, deleted, holders, kind, sid, made, hope, cut, tellVars>>

DeleteIt(q) ==
    LET s == sid[q] IN
    /\ Asked(q, "delete", "look") /\ DeleteSession(s) /\ Answer(q, <<>>)
    /\ CutBy(q, s) /\ deleted' = deleted \cup {s}
    /\ holders' = [holders EXCEPT ![s] = @ \cup Holding(s)]
    /\ UNCHANGED <<artifactVars, kind, sid, made, hope, tellVars>>

-----------------------------------------------------------------------------
(* Runs.                                                                   *)

\* start_run: the state delta of the request is an event of its own.
StateDelta(q) ==
    /\ pc[q] = "found" /\ kind[q] \in Runs
    /\ AppendTo(q, <<q, 0>>) /\ To(q, "start")
    /\ UNCHANGED <<artifactVars, deleted, holders, kind, sid, made, told, hope, cut, tellVars>>

\* Mutant: the session is not looked for before the run is started.
StartUnlooked(q) ==
    LET s == sid[q] IN
    /\ pc[q] \in {"found", "look", "start"} /\ kind[q] \in Runs
    /\ \/ Has(s) /\ live' = [live EXCEPT ![q] = sessions[s].session] /\ To(q, "user") /\ UNCHANGED <<told, sessions>>
       \/ ~Has(s) /\ AutoCreate /\ InsertSession(s) /\ live' = [live EXCEPT ![q] = NewSession] /\ To(q, "user") /\ UNCHANGED told
       \/ Refuse(q) /\ UNCHANGED sessions
    /\ UNCHANGED <<artifactVars, deleted, holders, kind, sid, made, hope, cut, tellVars>>

\* Runner::start loads the session again, and creates it if it has gone.  It
\* may fail, and a request without a message is refused only now.
Start(q) ==
    LET s == sid[q] IN
    /\ pc[q] \in {"found", "start"} /\ kind[q] \in Runs
    /\ \/ Has(s) /\ live' = [live EXCEPT ![q] = sessions[s].session] /\ To(q, "user") /\ UNCHANGED <<told, sessions>>
       \/ /\ ~Has(s) /\ AutoCreate /\ InsertSession(s) /\ live' = [live EXCEPT ![q] = NewSession]
          /\ To(q, "user") /\ UNCHANGED told
       \/ Refuse(q) /\ UNCHANGED sessions
    /\ UNCHANGED <<artifactVars, deleted, holders, kind, sid, made, hope, cut, tellVars>>

\* The message of the user is appended, and the run begins.
Begin(q) ==
    /\ pc[q] = "user" /\ AppendTo(q, <<q, 1>>) /\ To(q, "run")
    /\ UNCHANGED <<artifactVars, deleted, holders, kind, sid, made, told, hope, cut, tellVars>>

\* A tool of the run saves an artifact, before its event.
ToolSaves(q, n) ==
    /\ pc[q] = "run" /\ made[q] <= MaxEvents /\ Save(q, n, <<q, made[q] + 1>>) /\ To(q, "save")
    /\ UNCHANGED <<sessionVars, kind, sid, live, made, told, hope, cut, tellVars>>

\* ToolContext::artifact_delta takes the version.
Delta(q) == IF pc[q] = "save" /\ result[q].is = "saved" THEN <<job[q].name, result[q].version>> ELSE NoDelta

\* The runner appends the event of the agent and yields it to the handler.
Emit(q) ==
    LET e == <<q, made[q] + 1>> IN
    /\ pc[q] \in {"run", "save"} /\ at[q] = "idle" /\ made[q] <= MaxEvents
    /\ AppendTo(q, e) /\ made' = [made EXCEPT ![q] = @ + 1]
    /\ delta' = [delta EXCEPT ![e] = Delta(q)]
    /\ IF kind[q] = "run_sse" THEN To(q, "frame") /\ told' = [told EXCEPT ![q] = Append(@, e)]
                              ELSE To(q, "run") /\ UNCHANGED told
    /\ UNCHANGED <<artifactVars, deleted, holders, kind, sid, hope, cut, announced, stale>>

\* What its events announce to a client that is told of them.
Announces(events) ==
    {[name |-> delta[e][1], version |-> delta[e][2], body |-> e] :
        e \in {f \in Range(events) \ stale : delta[f] # NoDelta}}

\* sse_frames_for_event: the content first, the artifacts in a frame of their own.
Frame(q) ==
    /\ pc[q] = "frame" /\ To(q, "run")
    /\ announced' = announced \cup Announces(told[q])
    /\ UNCHANGED <<artifactVars, sessionVars, kind, sid, live, made, told, hope, cut, delta, stale>>

\* The run is over: run answers with all of its events.
End(q) ==
    LET own == [i \in 1 .. made[q] - 1 |-> <<q, i + 1>>] IN
    /\ pc[q] = "run" /\ Answer(q, own) /\ announced' = announced \cup Announces(own)
    /\ UNCHANGED <<artifactVars, sessionVars, kind, sid, made, hope, cut, delta, stale>>

\* The run fails: run answers with the error alone, run_sse with a last frame.
Fails(q) ==
    /\ pc[q] \in {"run", "save"} /\ at[q] = "idle" /\ Refuse(q)
    /\ UNCHANGED <<artifactVars, sessionVars, kind, sid, made, hope, cut, tellVars>>

\* The client goes away and the handler is dropped, with the run.
Disconnect(q) ==
    /\ kind[q] \in Runs /\ pc[q] \in {"found", "start", "user", "run", "save", "frame"} /\ Refuse(q)
    /\ IF at[q] = "idle" THEN UNCHANGED artifactVars ELSE Abandon(q)
    /\ UNCHANGED <<sessionVars, kind, sid, made, hope, cut, tellVars>>

-----------------------------------------------------------------------------
(* Artifacts.                                                              *)

\* A client asks for a version it has been told of, or for the latest one.
Load(q, n, v) ==
    /\ Asked(q, "load", "look") /\ To(q, "load") /\ Find(q, n, v)
    /\ hope' = [hope EXCEPT ![q] = {a \in announced : a.name = n /\ v \in {0, a.version}}]
    /\ UNCHANGED <<sessionVars, kind, sid, live, made, told, cut, tellVars>>

\* Its result is the answer.
Loaded(q) ==
    /\ pc[q] = "load" /\ at[q] = "idle" /\ Answer(q, <<>>)
    /\ UNCHANGED <<artifactVars, sessionVars, kind, sid, made, hope, cut, tellVars>>

\* The events with an artifact of name n, and those to come whose run has it already.
Carrying(n) == {e \in Event : delta[e] # NoDelta /\ delta[e][1] = n} \cup
            {<<p, made[p] + 1>> : p \in {p \in Request :
                                   pc[p] = "save" /\ job[p].name = n /\ at[p] \in {"write", "idle"}}}

\* Nobody can count on what was announced or saved of n before.
Forget(n) ==
    /\ announced' = {a \in announced : a.name # n}
    /\ hope' = [p \in Request |-> {a \in hope[p] : a.name # n}] /\ stale' = stale \cup Carrying(n)
    /\ UNCHANGED <<sessionVars, kind, sid, live, made, told, cut, delta>>

\* delete_artifact, and what it removes later.
DeleteArtifact(q, n) ==
    Asked(q, "delete_artifact", "look") /\ To(q, "delete") /\ Delete(q, n) /\ Forget(n)

Removes(q, v) == Unlink(q, v) /\ Forget(job[q].name) /\ UNCHANGED pc

Deleted(q) ==
    /\ pc[q] = "delete" /\ at[q] = "idle" /\ Answer(q, <<>>)
    /\ UNCHANGED <<artifactVars, sessionVars, kind, sid, made, hope, cut, tellVars>>

-----------------------------------------------------------------------------

RunStep(q) ==
    \/ StateDelta(q) \/ Start(q) \/ Begin(q) \/ Emit(q) \/ Frame(q) \/ End(q) \/ Fails(q) \/ Disconnect(q)
    \/ \E n \in Name : ToolSaves(q, n)

Next ==
    \E q \in Request :
        \/ Arrive(q) \/ CreateLook(q) \/ CreateInsert(q) \/ Import(q) \/ Imported(q)
        \/ Look(q) \/ Patch(q) \/ DeleteIt(q)
        \/ RunStep(q)
        \/ \E n \in Name, v \in 0 .. MaxVersion : Load(q, n, v)
        \/ Loaded(q) \/ Deleted(q)
        \/ \E n \in Name : DeleteArtifact(q, n)
        \/ \E v \in 1 .. MaxVersion : Removes(q, v)
        \/ FileStep(q) /\ UNCHANGED <<sessionVars, requestVars, tellVars>>

Spec == Init /\ [][Next]_vars

-----------------------------------------------------------------------------
(* Properties.                                                             *)

\* What a client has been told of (the events of its run, the event of its
\* patch, the events it imported) is in the session, once and in that order,
\* whatever other requests append, unless the session was deleted or created
\* under it.
ToldIsStored ==
    \A q \in Request : ~cut[q] =>
        \/ WithoutRepeats(told[q]) = Selected(sessions[sid[q]].session.events, Range(told[q]))
        \/ sid[q] \in deleted

\* A deleted session comes back only with a request that had found it before:
\* a run, a patch or an import never makes one that nobody has asked for.
DeletedUnlessHeld ==
    \A s \in deleted : Has(s) => holders[s] # {}

\* A client that has been told of an artifact can load it, and the latest
\* version is no older, while runs save more of that name.  Excepted is what
\* was saved before its name was deleted, or while its files were being removed,
\* and two saves of one name on files that overlap; there the latest version may
\* also be an error while it is being written.
AnnouncedLoads ==
    \A q \in Request : \A a \in hope[q] :
        pc[q] = "load" /\ at[q] = "idle" /\ a.name \notin overlapped =>
            \/ result[q].is = "part" /\ result[q].version = a.version /\ result[q].body = a.body
            \/ result[q].is = "part" /\ result[q].version > a.version
            \/ result[q].is = "error" /\ backend = "files" /\ job[q].version > a.version

=============================================================================
