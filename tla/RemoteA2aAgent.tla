--------------------------- MODULE RemoteA2aAgent ---------------------------
(***************************************************************************)
(* RemoteA2aAgent (a2a/client.rs) talking to the server of module          *)
(* A2aServer: an agent whose run is one message/send or message/stream,    *)
(* turned into events for the caller's runner.  A call has the name of the *)
(* task it makes.                                                          *)
(*                                                                         *)
(* The frames of an SSE answer are read in the order they were sent and    *)
(* concern nobody else, so sending one and reading it is one step; what a  *)
(* broken connection loses is what the server had not sent.                *)
(***************************************************************************)
EXTENDS A2aServer, Functions

CONSTANT Turns   \* the events that their agent marks turn_complete

ASSUME TurnsAssumption == Turns \subseteq 1 .. MaxEvents

VARIABLES
    call,   \* the agent's run: idle, waiting, over or failed
    heard   \* the events it has yielded

clientVars == <<call, heard>>
allVars == <<vars, clientVars>>

\* An event of the remote run (and whether it is partial here), or a status
\* message of the server.
Said == [what: {"event"}, event: 1 .. MaxEvents, partial: BOOLEAN] \cup [what: {"notice"}]

Says(n, partial) == [what |-> "event", event |-> n, partial |-> partial]
Notice == [what |-> "notice"]

ClientTypeOK ==
    /\ call \in [Task -> {"idle", "waiting", "over", "failed"}]
    /\ heard \in [Task -> Seq(Said)]

\* The variables of the three modules have their types.
AllTypeOK == TypeOK /\ ClientTypeOK

ClientInit ==
    /\ Init
    /\ call = [t \in Task |-> "idle"]
    /\ heard = [t \in Task |-> <<>>]

Becomes(t, state) == call' = [call EXCEPT ![t] = state]

\* task_to_events: the agent's messages of the history, none of them partial.
\* Artifacts are used only if there is no such message, and this server makes
\* no artifact without one.
TaskToEvents(t) == [i \in 1 .. Len(tasks[t].history) |-> Says(tasks[t].history[i], FALSE)]

\* Mutant: a status says nothing.
StreamResultToEventsNoStatus(t, u) ==
    IF u.kind = "artifact" /\ u.parts THEN <<Says(u.event, u.event \notin Turns)>> ELSE <<>>

\* stream_result_to_events: the text of an artifact, or the message a status
\* has when the run paused or failed; a chunk without parts says nothing.
StreamResultToEvents(t, u) ==
    CASE u.kind = "artifact" /\ u.parts -> <<Says(u.event, u.event \notin Turns)>>
      [] u.kind = "status" /\ u.state \in {"input_required", "failed"} -> <<Notice>>
      [] OTHER -> <<>>

-----------------------------------------------------------------------------
\* run: the request is sent.
Dispatch(t) ==
    /\ call[t] = "idle"
    /\ Create(t)
    /\ Becomes(t, "waiting")
    /\ UNCHANGED heard

\* An error frame, or an error for an answer.
Refused(t) ==
    /\ StartRun(t) \/ SubscribeRefused(t)
    /\ call' = [call EXCEPT ![t] = IF hpc'[t] = "error" THEN "failed" ELSE @]
    /\ UNCHANGED heard

\* Mutant: only a terminal task ends the reading.
ReadFrameToTerminal(t) ==
    /\ call[t] = "waiting"
    /\ StreamUpdate(t)
    /\ LET u == Head(queue[t]) IN
        /\ heard' = [heard EXCEPT ![t] = @ \o StreamResultToEvents(t, u)]
        /\ call' = [call EXCEPT ![t] = IF IsFinal(u) /\ u.state \in Terminal THEN "over" ELSE @]

\* message_stream: one frame; a final status ends the stream here, before the
\* server's done frame.
ReadFrame(t) ==
    /\ call[t] = "waiting"
    /\ StreamUpdate(t)
    /\ LET u == Head(queue[t]) IN
        /\ heard' = [heard EXCEPT ![t] = @ \o StreamResultToEvents(t, u)]
        /\ call' = [call EXCEPT ![t] = IF IsFinal(u) THEN "over" ELSE @]

\* The answer of message/send: a task, or the run's error.  Of message/stream,
\* the done frame, which nobody waits for.
ReadAnswer(t) ==
    /\ Join(t)
    /\ IF method[t] = "stream" THEN UNCHANGED clientVars
       ELSE IF outcome[t] = "error" THEN Becomes(t, "failed") /\ UNCHANGED heard
       ELSE Becomes(t, "over") /\ heard' = [heard EXCEPT ![t] = TaskToEvents(t)]

\* The request's timeout, a broken connection, or a caller that goes away.
Break(t) ==
    /\ Disconnect(t)
    /\ call' = [call EXCEPT ![t] = IF @ = "waiting" THEN "failed" ELSE @]
    /\ UNCHANGED heard

\* What the client does not see.
Unseen(t) ==
    /\ SetWorking(t) \/ AnnounceWorking(t) \/ RecordInvocation(t) \/ SubscribeStream(t) \/ DrainStep(t)
    /\ UNCHANGED clientVars

Elsewhere ==
    /\ \/ \E c \in Canceller : CancelStep(c)
       \/ \E w \in Watcher : WatchStep(w)
    /\ UNCHANGED clientVars

ClientNext ==
    \/ \E t \in Task :
        Dispatch(t) \/ Refused(t) \/ ReadFrame(t) \/ ReadAnswer(t) \/ Break(t) \/ Unseen(t)
    \/ Elsewhere

\* The server's fairness, and a client that reads what it is sent.
ClientFairness ==
    /\ \A t \in Task :
        /\ WF_allVars(Refused(t) \/ ReadFrame(t) \/ ReadAnswer(t) \/ Unseen(t))
        /\ WF_allVars(DrainStep(t) /\ UNCHANGED clientVars)
    /\ \A c \in Canceller : WF_allVars(CancelStep(c) /\ cpc[c] # "new" /\ UNCHANGED clientVars)
    /\ \A w \in Watcher : WF_allVars(WatchStep(w) /\ wpc[w] # "new" /\ UNCHANGED clientVars)

ClientSpec == ClientInit /\ [][ClientNext]_allVars /\ ClientFairness

-----------------------------------------------------------------------------
(* Properties.                                                             *)

Heard(t) == {heard[t][i].event : i \in {j \in DOMAIN heard[t] : heard[t][j].what = "event"}}
Cancelled(t) == \E c \in Canceller : target[c] = t /\ cpc[c] \in {"announce", "ok"}

\* A message/stream that ends without a cancel tells how the run ended: a
\* message last if it paused or failed, none otherwise.  And it has said the
\* run's first text if the queue could hold all updates
\* (client.rs:255-285, client.rs:470-523).
StreamTellsTheEnd ==
    \A t \in Task : method[t] = "stream" /\ call[t] = "over" /\ ~Cancelled(t) =>
        /\ Notice \in Range(heard[t]) <=> outcome[t] # "ok"
        /\ outcome[t] # "ok" => heard[t][Len(heard[t])] = Notice
        /\ Cardinality(texts[t]) < Capacity =>
            \A n \in texts[t] : (\A m \in texts[t] : n <= m) => n \in Heard(t)

\* Every call ends, with the run's events or with an error, also when the task
\* waits for input and never becomes terminal (client.rs:274-284).
CallEnds == \A t \in Task : call[t] = "waiting" ~> call[t] \in {"over", "failed"}

=============================================================================
