----------------------------- MODULE A2aServer -----------------------------
(***************************************************************************)
(* The A2A bridge (a2a/server.rs): message/send, message/stream,           *)
(* tasks/cancel and tasks/resubscribe over the task service and the        *)
(* runner.  A task belongs to the message/* request that created it, and   *)
(* has its id.                                                             *)
(*                                                                         *)
(* Of the runner a request sees: start may fail; the stream, once polled,  *)
(* yields events, an error or its end; cancel flips the token of a         *)
(* registered run; a stream dropped unpolled never runs (module Runner).   *)
(***************************************************************************)
EXTENDS TaskService, EventLog, FiniteSets

CONSTANTS
    Canceller,   \* tasks/cancel calls
    Watcher,     \* tasks/resubscribe calls
    MaxEvents    \* bound: events a run yields

ASSUME ReceiverAssumption == Task \cup Watcher \subseteq Receiver /\ Task \cap Watcher = {}
ASSUME MaxEventsAssumption == MaxEvents \in Nat

VARIABLES
    method,   \* message/send or message/stream
    hpc,      \* the request handler
    dpc,      \* the loop that drains the run's events
    run,      \* the run: none, ready (not polled), polled, over, dropped
    token,    \* its cancellation token
    emitted,  \* events it has yielded
    texts,    \* history: those that carry text
    ops,      \* Aggregator::pending
    outcome,  \* what the drain has seen: ok, paused or error
    target,   \* the task a cancel or resubscribe call is about
    cpc,      \* tasks/cancel calls
    wpc       \* tasks/resubscribe calls

serverVars == <<method, hpc, dpc, run, token, emitted, texts, ops, outcome, target, cpc, wpc>>
vars == <<taskVars, serverVars>>

Ops == [op: {"history", "artifact"}, event: 1 .. MaxEvents]

ServerTypeOK ==
    /\ method \in [Task -> {"send", "stream"}]
    /\ hpc \in [Task -> {"new", "created", "working", "starting", "started", "subscribing",
                         "streaming", "joining", "done", "error", "gone"}]
    /\ dpc \in [Task -> {"idle", "drain", "apply", "announce", "settle", "finish", "over",
                         "killed"}]
    /\ run \in [Task -> {"none", "ready", "polled", "over", "dropped"}]
    /\ token \in [Task -> BOOLEAN]
    /\ emitted \in [Task -> 0 .. MaxEvents]
    /\ texts \in [Task -> SUBSET (1 .. MaxEvents)]
    /\ ops \in [Task -> Seq(Ops)]
    /\ outcome \in [Task -> {"ok", "paused", "error"}]
    /\ target \in [Canceller \cup Watcher -> Task]
    /\ cpc \in [Canceller -> {"new", "routed", "checked", "announce", "ok", "error"}]
    /\ wpc \in [Watcher -> {"new", "looked", "streaming", "done"}]

\* The variables of both modules have their types.
TypeOK == TaskTypeOK /\ ServerTypeOK

Init ==
    /\ TaskInit
    /\ method \in [Task -> {"send", "stream"}]
    /\ hpc = [t \in Task |-> "new"]
    /\ dpc = [t \in Task |-> "idle"]
    /\ run = [t \in Task |-> "none"]
    /\ token = [t \in Task |-> FALSE]
    /\ emitted = [t \in Task |-> 0]
    /\ texts = [t \in Task |-> {}]
    /\ ops = [t \in Task |-> <<>>]
    /\ outcome = [t \in Task |-> "ok"]
    /\ target \in [Canceller \cup Watcher -> Task]
    /\ cpc = [c \in Canceller |-> "new"]
    /\ wpc = [w \in Watcher |-> "new"]

Handler(t, from, to) == hpc[t] = from /\ hpc' = [hpc EXCEPT ![t] = to]
Drain(t, from, to)   == dpc[t] = from /\ dpc' = [dpc EXCEPT ![t] = to]

-----------------------------------------------------------------------------
(* start_task.                                                             *)

Create(t) ==
    /\ Handler(t, "new", "created")
    /\ CreateTask(t, NewTask)
    /\ UNCHANGED <<method, dpc, run, token, emitted, texts, ops, outcome, target, cpc, wpc>>

SetWorking(t) ==
    /\ Handler(t, "created", "working")
    /\ SetStatus(t, "working")
    /\ UNCHANGED <<method, dpc, run, token, emitted, texts, ops, outcome, target, cpc, wpc>>

AnnounceWorking(t) ==
    /\ Handler(t, "working", "starting")
    /\ Broadcast(t, Status("working", FALSE))
    /\ UNCHANGED <<method, dpc, run, token, emitted, texts, ops, outcome, target, cpc, wpc>>

\* runner.start; an error is answered to the caller and the task left as it is.
StartRun(t) ==
    /\ \/ /\ Handler(t, "starting", "started")
          /\ run' = [run EXCEPT ![t] = "ready"]
       \/ Handler(t, "starting", "error") /\ UNCHANGED run
    /\ UNCHANGED <<taskVars, method, dpc, token, emitted, texts, ops, outcome, target, cpc, wpc>>

\* The second create_task: the record made at the start, with the invocation
\* id in its metadata.  message/send goes on to drain the run,
\* message/stream yields the record and goes on to subscribe.
RecordInvocation(t) ==
    /\ CreateTask(t, [NewTask EXCEPT !.invocation = TRUE])
    /\ \/ /\ method[t] = "send"
          /\ Handler(t, "started", "joining")
          /\ dpc' = [dpc EXCEPT ![t] = "drain"]
          /\ run' = [run EXCEPT ![t] = "polled"]
       \/ /\ method[t] = "stream"
          /\ Handler(t, "started", "subscribing")
          /\ UNCHANGED <<dpc, run>>
    /\ UNCHANGED <<method, token, emitted, texts, ops, outcome, target, cpc, wpc>>

-----------------------------------------------------------------------------
(* The handler of message/stream, and the end of both.                     *)

\* subscribe, then the drain is spawned.
SubscribeStream(t) ==
    /\ Handler(t, "subscribing", "streaming")
    /\ Subscribe(t, t)
    /\ dpc' = [dpc EXCEPT ![t] = "drain"]
    /\ run' = [run EXCEPT ![t] = "polled"]
    /\ UNCHANGED <<method, token, emitted, texts, ops, outcome, target, cpc, wpc>>

\* "task not subscribable": the run is dropped without having been polled.
SubscribeRefused(t) ==
    /\ Handler(t, "subscribing", "error")
    /\ ~Open(t)
    /\ run' = [run EXCEPT ![t] = "dropped"]
    /\ UNCHANGED <<taskVars, method, dpc, token, emitted, texts, ops, outcome, target, cpc, wpc>>

\* One update to the SSE channel; a final one ends the loop.
StreamUpdate(t) ==
    /\ hpc[t] = "streaming"
    /\ Receive(t)
    /\ hpc' = IF IsFinal(Head(queue[t])) THEN [hpc EXCEPT ![t] = "joining"] ELSE hpc
    /\ UNCHANGED <<method, dpc, run, token, emitted, texts, ops, outcome, target, cpc, wpc>>

\* The drain is over: message/send answers the task (or the error),
\* message/stream the done frame.
Join(t) ==
    /\ dpc[t] = "over"
    /\ Handler(t, "joining", "done")
    /\ Unsubscribe(t)
    /\ UNCHANGED <<method, dpc, run, token, emitted, texts, ops, outcome, target, cpc, wpc>>

\* The client goes away and the server drops the handler where it is
\* suspended: waiting for the runner, at a yield, for updates or for the
\* run's events.  Only message/stream drains in a task of its own.
Disconnect(t) ==
    /\ \/ hpc[t] \in {"starting", "subscribing", "streaming"}
       \/ hpc[t] = "joining" /\ (method[t] = "stream" \/ dpc[t] = "drain")
    /\ hpc' = [hpc EXCEPT ![t] = "gone"]
    /\ run' = [run EXCEPT ![t] = CASE @ = "ready" -> "dropped"
                                   [] @ = "polled" /\ method[t] = "send" -> "over"
                                   [] OTHER -> @]
    /\ dpc' = [dpc EXCEPT ![t] = IF method[t] = "send" /\ @ = "drain" THEN "killed" ELSE @]
    /\ Unsubscribe(t)
    /\ UNCHANGED <<method, token, emitted, texts, ops, outcome, target, cpc, wpc>>

-----------------------------------------------------------------------------
(* The drain: awaited by message/send, spawned by message/stream.          *)

\* event_to_message: the agent's message, every part of it translated to a
\* text, a file or data.
Message(n) == [op |-> "history", event |-> n]

\* artifact_chunk: the text of the message, which only a text part has.
Chunk(n) == [op |-> "artifact", event |-> n]

\* events.next() returns an event, which may pause the invocation.  What it
\* adds to the task is queued: its message for the history, and for the
\* artifact if it carries text.  An event with neither changes nothing here.
Absorb(t) ==
    /\ dpc[t] = "drain"
    /\ emitted[t] < MaxEvents
    /\ emitted' = [emitted EXCEPT ![t] = @ + 1]
    /\ LET n == emitted[t] + 1 IN
        \/ /\ ops' = [ops EXCEPT ![t] = @ \o <<Message(n), Chunk(n)>>]
           /\ texts' = [texts EXCEPT ![t] = @ \cup {n}]
        \/ /\ ops' = [ops EXCEPT ![t] = Append(@, Message(n))]
           /\ UNCHANGED texts
    /\ \/ outcome' = [outcome EXCEPT ![t] = "paused"]
       \/ UNCHANGED outcome
    /\ UNCHANGED <<taskVars, method, hpc, dpc, run, token, target, cpc, wpc>>

\* Mutant: the final status is set before the queued mutations are applied.
StreamEndedSettlesFirst(t) ==
    /\ run' = [run EXCEPT ![t] = "over"]
    /\ Drain(t, "drain", "settle")
    /\ UNCHANGED <<taskVars, method, hpc, token, emitted, texts, ops, outcome, target, cpc, wpc>>

\* It returns None.
StreamEnded(t) ==
    /\ Drain(t, "drain", "apply")
    /\ run' = [run EXCEPT ![t] = "over"]
    /\ UNCHANGED <<taskVars, method, hpc, token, emitted, texts, ops, outcome, target, cpc, wpc>>

\* Mutant: an error ends the drain without a status.
StreamFailedSilently(t) ==
    /\ Drain(t, "drain", "over")
    /\ run' = [run EXCEPT ![t] = "over"]
    /\ outcome' = [outcome EXCEPT ![t] = "error"]
    /\ UNCHANGED <<taskVars, method, hpc, token, emitted, texts, ops, target, cpc, wpc>>

\* It returns an error: message/send gives up what it has queued.
StreamFailed(t) ==
    /\ Drain(t, "drain", IF method[t] = "send" THEN "settle" ELSE "apply")
    /\ run' = [run EXCEPT ![t] = "over"]
    /\ ops' = [ops EXCEPT ![t] = IF method[t] = "send" THEN <<>> ELSE @]
    /\ outcome' = [outcome EXCEPT ![t] = "error"]
    /\ UNCHANGED <<taskVars, method, hpc, token, emitted, texts, target, cpc, wpc>>

\* PendingOp::apply, in the order the events came.
Apply(t) ==
    /\ ops[t] # <<>>
    /\ LET head == Head(ops[t]) IN
        \/ /\ head.op = "history"
           /\ Drain(t, "apply", "apply")
           /\ AppendHistory(t, head.event)
           /\ ops' = [ops EXCEPT ![t] = Tail(@)]
        \/ /\ head.op = "artifact"
           /\ Drain(t, "apply", "announce")
           /\ AppendArtifact(t, head.event)
           /\ UNCHANGED ops
    /\ UNCHANGED <<method, hpc, run, token, emitted, texts, outcome, target, cpc, wpc>>

AnnounceArtifact(t) ==
    /\ Drain(t, "announce", "apply")
    /\ Broadcast(t, ArtifactUpdate(t, Head(ops[t]).event))
    /\ ops' = [ops EXCEPT ![t] = Tail(@)]
    /\ UNCHANGED <<method, hpc, run, token, emitted, texts, outcome, target, cpc, wpc>>

Applied(t) ==
    /\ ops[t] = <<>>
    /\ Drain(t, "apply", "settle")
    /\ UNCHANGED <<taskVars, method, hpc, run, token, emitted, texts, ops, outcome, target, cpc, wpc>>

FinalState(t) ==
    CASE outcome[t] = "error"  -> "failed"
      [] outcome[t] = "paused" -> "input_required"
      [] OTHER                 -> "completed"

\* The last update_status, whatever the task's state is by now.
SetFinal(t) ==
    /\ Drain(t, "settle", "finish")
    /\ SetStatus(t, FinalState(t))
    /\ UNCHANGED <<method, hpc, run, token, emitted, texts, ops, outcome, target, cpc, wpc>>

AnnounceFinal(t) ==
    /\ Drain(t, "finish", "over")
    /\ Broadcast(t, Status(FinalState(t), TRUE))
    /\ UNCHANGED <<method, hpc, run, token, emitted, texts, ops, outcome, target, cpc, wpc>>

-----------------------------------------------------------------------------
(* tasks/cancel.                                                           *)

\* Ids are random and nothing lists them: a client knows a task once
\* message/send answers it or message/stream yields it.
Known(t) ==
    /\ run[t] # "none"
    /\ IF method[t] = "send" THEN hpc[t] = "done" ELSE hpc[t] # "started"

CancelCall(c, from, to) == cpc[c] = from /\ cpc' = [cpc EXCEPT ![c] = to]

\* get_task, and runner.cancel when the metadata names the invocation and the
\* runner still has it.
CancelRoute(c) ==
    LET t == target[c] IN
    /\ Known(t)
    /\ CancelCall(c, "new", "routed")
    /\ token' = [token EXCEPT ![t] = @ \/ (tasks[t].invocation /\ run[t] \in {"ready", "polled"})]
    /\ UNCHANGED <<taskVars, method, hpc, dpc, run, emitted, texts, ops, outcome, target, wpc>>

\* cancel_task, the check under the mutex.
CancelCheck(c) ==
    LET t == target[c] IN
    /\ CancelCall(c, "routed", IF Open(t) THEN "checked" ELSE "error")
    /\ UNCHANGED <<taskVars, method, hpc, dpc, run, token, emitted, texts, ops, outcome, target, wpc>>

\* cancel_task, update_status once the mutex was released and taken again.
CancelSet(c) ==
    /\ CancelCall(c, "checked", "announce")
    /\ SetStatus(target[c], "canceled")
    /\ UNCHANGED <<method, hpc, dpc, run, token, emitted, texts, ops, outcome, target, wpc>>

CancelAnnounce(c) ==
    /\ CancelCall(c, "announce", "ok")
    /\ Broadcast(target[c], Status("canceled", TRUE))
    /\ UNCHANGED <<method, hpc, dpc, run, token, emitted, texts, ops, outcome, target, wpc>>

-----------------------------------------------------------------------------
(* tasks/resubscribe.                                                      *)

WatchCall(w, from, to) == wpc[w] = from /\ wpc' = [wpc EXCEPT ![w] = to]

\* get_task: the snapshot goes to the caller, a terminal one ends the call.
WatchLook(w) ==
    LET t == target[w] IN
    /\ Known(t)
    /\ WatchCall(w, "new", IF IsTerminal(t) THEN "done" ELSE "looked")
    /\ UNCHANGED <<taskVars, method, hpc, dpc, run, token, emitted, texts, ops, outcome, target, cpc>>

WatchSubscribe(w) ==
    LET t == target[w] IN
    /\ \/ WatchCall(w, "looked", "streaming") /\ Subscribe(w, t)
       \/ WatchCall(w, "looked", "done") /\ ~Open(t) /\ UNCHANGED taskVars
    /\ UNCHANGED <<method, hpc, dpc, run, token, emitted, texts, ops, outcome, target, cpc>>

WatchUpdate(w) ==
    /\ wpc[w] = "streaming"
    /\ Receive(w)
    /\ wpc' = IF IsFinal(Head(queue[w])) THEN [wpc EXCEPT ![w] = "done"] ELSE wpc
    /\ UNCHANGED <<method, hpc, dpc, run, token, emitted, texts, ops, outcome, target, cpc>>

-----------------------------------------------------------------------------
HandlerStep(t) ==
    \/ Create(t) \/ SetWorking(t) \/ AnnounceWorking(t) \/ StartRun(t) \/ RecordInvocation(t)
    \/ SubscribeStream(t) \/ SubscribeRefused(t) \/ StreamUpdate(t) \/ Join(t)

DrainStep(t) ==
    \/ Absorb(t) \/ StreamEnded(t) \/ StreamFailed(t) \/ Apply(t) \/ AnnounceArtifact(t)
    \/ Applied(t) \/ SetFinal(t) \/ AnnounceFinal(t)

CancelStep(c) == CancelRoute(c) \/ CancelCheck(c) \/ CancelSet(c) \/ CancelAnnounce(c)
WatchStep(w)  == WatchLook(w) \/ WatchSubscribe(w) \/ WatchUpdate(w)

Next ==
    \/ \E t \in Task : HandlerStep(t) \/ DrainStep(t) \/ Disconnect(t)
    \/ \E c \in Canceller : CancelStep(c)
    \/ \E w \in Watcher : WatchStep(w)

Spec == Init /\ [][Next]_vars

-----------------------------------------------------------------------------
(* Properties.                                                             *)

Numbers(n) == [i \in 1 .. n |-> i]

\* Once a run has settled its task, the task holds everything the run emitted,
\* in order, although nothing was written while it ran; a failed message/send
\* gives its output up (server.rs:381-406, server.rs:488-502).
SettledHasAllOutput ==
    \A t \in Task :
        /\ dpc[t] \in {"finish", "over"}
        /\ ~(method[t] = "send" /\ outcome[t] = "error")
        => /\ tasks[t].history = Numbers(emitted[t])
           /\ tasks[t].artifacts = Selected(Numbers(emitted[t]), texts[t])

\* A run that is drained to its end leaves its task settled, one way or
\* another; only a message/send whose client went away may not
\* (server.rs:370-410, server.rs:484-520).
RunSettlesTask ==
    \A t \in Task : dpc[t] = "drain" ~> tasks[t].state \in Settled \/ dpc[t] = "killed"

\* tasks/resubscribe ends when the run it follows settles, however far it lags
\* behind the updates (server.rs:672-685).
WatcherFinishes ==
    \A w \in Watcher :
        (wpc[w] = "streaming" /\ dpc[target[w]] = "drain")
            ~> (wpc[w] = "done" \/ dpc[target[w]] = "killed")

=============================================================================
