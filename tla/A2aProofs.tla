------------------------------ MODULE A2aProofs ------------------------------
(***************************************************************************)
(* Proofs about the A2A modules: the task service's own lemmas, then the   *)
(* server and the client (A2aServer, RemoteA2aAgent) and the push notifier *)
(* (PushNotifier), for any tasks, watchers, queue capacity, events, set    *)
(* and delete calls, updates and attempts.                                 *)
(*                                                                         *)
(*  - The server: types; when a task is settled its record and its stored  *)
(*    messages hold all the output its run produced.                       *)
(*  - The client: its every behaviour is one of the server; a stream that  *)
(*    ends has told its caller how the task ended.                         *)
(*  - The notifier: types; one subscriber per configuration; a webhook is  *)
(*    stopped only because its configuration was replaced or deleted.      *)
(***************************************************************************)
EXTENDS PushNotifier, RemoteA2aAgent, EventLogProofs, FiniteSetTheorems

-----------------------------------------------------------------------------
(* The task service.                                                       *)

\* A queue keeps its type.
LEMMA PushedTypes ==
    ASSUME NEW S, NEW q \in Seq(S), NEW u \in S
    PROVE  Pushed(q, u) \in Seq(S)
<1>1. CASE Len(q) < Capacity
  BY <1>1 DEF Pushed
<1>2. CASE ~ (Len(q) < Capacity)
  <2>1. q # <<>>
    BY <1>2, CapacityAssumption
  <2>2. Tail(q) \in Seq(S)
    BY <2>1
  <2> QED
    BY <1>2, <2>2 DEF Pushed
<1> QED
  BY <1>1, <1>2

LEMMA BroadcastTypes ==
    ASSUME TaskTypeOK, NEW t \in Task, NEW u \in Update, Broadcast(t, u)
    PROVE  TaskTypeOK' /\ tasks' = tasks
BY PushedTypes DEF TaskTypeOK, Broadcast

LEMMA ReceiverTypes ==
    ASSUME TaskTypeOK, NEW x \in Receiver,
           (\E t \in Task : Subscribe(x, t)) \/ Receive(x) \/ Unsubscribe(x)
    PROVE  TaskTypeOK' /\ tasks' = tasks
<1>1. queue[x] # <<>> => Tail(queue[x]) \in Seq(Update)
  BY DEF TaskTypeOK
<1>2. <<>> \in Seq(Update)
  OBVIOUS
<1> QED
  BY <1>1, <1>2 DEF TaskTypeOK, Subscribe, Receive, Unsubscribe

LEMMA SetStatusTypes ==
    ASSUME TaskTypeOK, NEW t \in Task, NEW state \in TaskState, SetStatus(t, state)
    PROVE  TaskTypeOK' /\ \A x \in Task : Exists(x) => Exists(x)'
<1>1. [tasks[t] EXCEPT !.state = IF Exists(t) THEN state ELSE @] \in TaskRecord
  BY DEF TaskTypeOK, TaskRecord
<1>2. \A x \in Task : tasks'[x] = IF x = t THEN [tasks[t] EXCEPT !.state = IF Exists(t) THEN state ELSE @]
                                           ELSE tasks[x]
  BY DEF SetStatus, TaskTypeOK
<1>3. tasks' \in [Task -> TaskRecord]
  BY <1>1 DEF SetStatus, TaskTypeOK
<1>4. state # "absent"
  BY DEF TaskState
<1>5. ASSUME NEW x \in Task, Exists(x) PROVE Exists(x)'
  <2>1. CASE x = t
    BY <1>1, <1>2, <1>4, <1>5, <2>1 DEF Exists, TaskRecord, TaskTypeOK
  <2>2. CASE x # t
    BY <1>2, <1>5, <2>2 DEF Exists
  <2> QED
    BY <2>1, <2>2
<1> QED
  BY <1>3, <1>5 DEF SetStatus, TaskTypeOK

LEMMA SetStatusKeeps ==
    ASSUME TaskTypeOK, NEW t \in Task, NEW state, SetStatus(t, state), NEW x \in Task
    PROVE  tasks'[x].history = tasks[x].history /\ tasks'[x].artifacts = tasks[x].artifacts
<1>1. tasks' = [tasks EXCEPT ![t] = [tasks[t] EXCEPT !.state = IF Exists(t) THEN state ELSE @]]
  BY DEF SetStatus
<1>2. tasks[t] \in TaskRecord /\ tasks \in [Task -> TaskRecord]
  BY DEF TaskTypeOK
<1> QED
  BY <1>1, <1>2 DEF TaskRecord

LEMMA NewTaskTypes ==
    /\ NoTask \in TaskRecord /\ NewTask \in TaskRecord
    /\ [NewTask EXCEPT !.invocation = TRUE] \in TaskRecord
<1>1. <<>> \in Seq(Nat)
  OBVIOUS
<1> QED
  BY <1>1 DEF NoTask, NewTask, TaskRecord, TaskState

LEMMA TaskInitTypes == TaskInit => TaskTypeOK
<1>1. <<>> \in Seq(Update)
  OBVIOUS
<1> QED
  BY <1>1, NewTaskTypes DEF TaskInit, TaskTypeOK

\* What an append writes to the record, and where.
LEMMA AppendsTypes ==
    ASSUME TaskTypeOK, NEW t \in Task, NEW n \in Nat
    PROVE  /\ AppendHistory(t, n) => TaskTypeOK'
           /\ AppendArtifact(t, n) => TaskTypeOK'
<1>1. tasks[t] \in TaskRecord /\ tasks[t].history \in Seq(Nat) /\ tasks[t].artifacts \in Seq(Nat)
  BY DEF TaskTypeOK, TaskRecord
<1>2. Append(tasks[t].history, n) \in Seq(Nat) /\ Append(tasks[t].artifacts, n) \in Seq(Nat)
  BY <1>1
<1>3. /\ [tasks[t] EXCEPT !.history = Append(tasks[t].history, n)] \in TaskRecord
      /\ [tasks[t] EXCEPT !.artifacts = Append(tasks[t].artifacts, n)] \in TaskRecord
  BY <1>1, <1>2 DEF TaskRecord
<1> QED
  BY <1>3 DEF AppendHistory, AppendArtifact, TaskTypeOK

-----------------------------------------------------------------------------
(* Type correctness of the server and the client.                          *)

HandlerPlaces == {"new", "created", "working", "starting", "started", "subscribing",
                  "streaming", "joining", "done", "error", "gone"}
DrainPlaces == {"idle", "drain", "apply", "announce", "settle", "finish", "over", "killed"}
RunStates == {"none", "ready", "polled", "over", "dropped"}

\* An artifact is announced while it is the first of the queue.
HasHead == \A t \in Task : dpc[t] = "announce" => ops[t] # <<>>

LEMMA ServerInitTypes == Init => TypeOK /\ HasHead
BY TaskInitTypes, MaxEventsAssumption DEF Init, TypeOK, ServerTypeOK, HasHead

LEMMA ServerTypeFrame == TypeOK /\ HasHead /\ UNCHANGED vars => TypeOK' /\ HasHead'
BY DEF TypeOK, TaskTypeOK, ServerTypeOK, HasHead, vars, taskVars, serverVars

LEMMA HandlerTypes == ASSUME TypeOK, NEW t \in Task, HandlerStep(t) \/ Disconnect(t) PROVE TypeOK'
<1> USE DEF TypeOK
<1>0. t \in Receiver
  BY ReceiverAssumption
<1>1. CASE Create(t)
  <2>1. TaskTypeOK'
    BY <1>1, NewTaskTypes DEF Create, CreateTask, TaskTypeOK
  <2>2. ServerTypeOK'
    BY <1>1 DEF Create, Handler, ServerTypeOK
  <2> QED
    BY <2>1, <2>2
<1>2. CASE SetWorking(t)
  <2>1. TaskTypeOK'
    BY <1>2, SetStatusTypes DEF SetWorking, TaskState
  <2>2. ServerTypeOK'
    BY <1>2 DEF SetWorking, Handler, ServerTypeOK
  <2> QED
    BY <2>1, <2>2
<1>3. CASE AnnounceWorking(t)
  <2>1. Status("working", FALSE) \in Update
    BY DEF Status, Update, TaskState
  <2>2. TaskTypeOK'
    BY <1>3, <2>1, BroadcastTypes DEF AnnounceWorking
  <2>3. ServerTypeOK'
    BY <1>3 DEF AnnounceWorking, Handler, ServerTypeOK
  <2> QED
    BY <2>2, <2>3
<1>4. CASE StartRun(t)
  <2>1. TaskTypeOK'
    BY <1>4 DEF StartRun, TaskTypeOK, taskVars
  <2>2. hpc' \in [Task -> HandlerPlaces] /\ run' \in [Task -> RunStates]
    <3>1. \E to \in HandlerPlaces : hpc' = [hpc EXCEPT ![t] = to]
      BY <1>4 DEF StartRun, Handler, HandlerPlaces
    <3>2. run' = run \/ run' = [run EXCEPT ![t] = "ready"]
      BY <1>4 DEF StartRun
    <3>3. hpc \in [Task -> HandlerPlaces] /\ run \in [Task -> RunStates]
      BY DEF ServerTypeOK, HandlerPlaces, RunStates
    <3>4. hpc' \in [Task -> HandlerPlaces]
      BY <3>1, <3>3
    <3> QED
      BY <3>2, <3>3, <3>4 DEF RunStates
  <2>3. ServerTypeOK'
    BY <1>4, <2>2 DEF StartRun, ServerTypeOK, HandlerPlaces, RunStates
  <2> QED
    BY <2>1, <2>3
<1>5. CASE RecordInvocation(t)
  <2>1. TaskTypeOK'
    BY <1>5, NewTaskTypes DEF RecordInvocation, CreateTask, TaskTypeOK
  <2>2. hpc' \in [Task -> HandlerPlaces] /\ run' \in [Task -> RunStates]
    <3>1. \E to \in HandlerPlaces : hpc' = [hpc EXCEPT ![t] = to]
      BY <1>5 DEF RecordInvocation, Handler, HandlerPlaces
    <3>2. run' = run \/ run' = [run EXCEPT ![t] = "polled"]
      BY <1>5 DEF RecordInvocation
    <3>3. hpc \in [Task -> HandlerPlaces] /\ run \in [Task -> RunStates]
      BY DEF ServerTypeOK, HandlerPlaces, RunStates
    <3>4. hpc' \in [Task -> HandlerPlaces]
      BY <3>1, <3>3
    <3> QED
      BY <3>2, <3>3, <3>4 DEF RunStates
  <2>3. dpc' \in [Task -> DrainPlaces]
    BY <1>5 DEF RecordInvocation, ServerTypeOK, DrainPlaces
  <2>4. ServerTypeOK'
    BY <1>5, <2>2, <2>3 DEF RecordInvocation, ServerTypeOK, HandlerPlaces, RunStates, DrainPlaces
  <2> QED
    BY <2>1, <2>4
<1>6. CASE SubscribeStream(t)
  <2>1. TaskTypeOK'
    BY <1>0, <1>6, ReceiverTypes DEF SubscribeStream
  <2>2. ServerTypeOK'
    BY <1>6 DEF SubscribeStream, Handler, ServerTypeOK
  <2> QED
    BY <2>1, <2>2
<1>7. CASE SubscribeRefused(t)
  BY <1>7 DEF SubscribeRefused, Handler, ServerTypeOK, TaskTypeOK, taskVars
<1>8. CASE StreamUpdate(t)
  <2>1. TaskTypeOK'
    BY <1>0, <1>8, ReceiverTypes DEF StreamUpdate
  <2>2. ServerTypeOK'
    BY <1>8 DEF StreamUpdate, ServerTypeOK
  <2> QED
    BY <2>1, <2>2
<1>9. CASE Join(t)
  <2>1. TaskTypeOK'
    BY <1>0, <1>9, ReceiverTypes DEF Join
  <2>2. ServerTypeOK'
    BY <1>9 DEF Join, Handler, ServerTypeOK
  <2> QED
    BY <2>1, <2>2
<1>10. CASE Disconnect(t)
  <2>1. TaskTypeOK'
    BY <1>0, <1>10, ReceiverTypes DEF Disconnect
  <2>2. ServerTypeOK'
    BY <1>10 DEF Disconnect, ServerTypeOK
  <2> QED
    BY <2>1, <2>2
<1> QED
  BY <1>1, <1>2, <1>3, <1>4, <1>5, <1>6, <1>7, <1>8, <1>9, <1>10 DEF HandlerStep

LEMMA DrainTypes == ASSUME TypeOK, HasHead, NEW t \in Task, DrainStep(t) PROVE TypeOK'
<1> USE DEF TypeOK
<1>0. FinalState(t) \in TaskState /\ Status(FinalState(t), TRUE) \in Update
  BY DEF FinalState, TaskState, Status, Update
<1>1. ops[t] # <<>> => Head(ops[t]) \in Ops /\ Head(ops[t]).event \in 1 .. MaxEvents /\ Tail(ops[t]) \in Seq(Ops)
  <2>1. ops[t] \in Seq(Ops)
    BY DEF ServerTypeOK
  <2>2. ops[t] # <<>> => Head(ops[t]) \in Ops /\ Tail(ops[t]) \in Seq(Ops)
    BY <2>1
  <2> QED
    BY <2>2 DEF Ops
<1>2. CASE Absorb(t)
  <2>1. emitted[t] + 1 \in 1 .. MaxEvents
    BY <1>2, MaxEventsAssumption DEF Absorb, ServerTypeOK
  <2>2. Message(emitted[t] + 1) \in Ops /\ Chunk(emitted[t] + 1) \in Ops
    BY <2>1 DEF Message, Chunk, Ops
  <2>3. /\ Append(ops[t], Message(emitted[t] + 1)) \in Seq(Ops)
        /\ ops[t] \o <<Message(emitted[t] + 1), Chunk(emitted[t] + 1)>> \in Seq(Ops)
    BY <2>2 DEF ServerTypeOK
  <2>4. TaskTypeOK'
    BY <1>2 DEF Absorb, TaskTypeOK, taskVars
  <2>5. emitted' \in [Task -> 0 .. MaxEvents]
    <3>1. emitted[t] + 1 \in 0 .. MaxEvents
      BY <2>1
    <3>2. emitted' = [emitted EXCEPT ![t] = emitted[t] + 1]
      BY <1>2 DEF Absorb
    <3>3. emitted \in [Task -> 0 .. MaxEvents]
      BY DEF ServerTypeOK
    <3> QED
      BY <3>1, <3>2, <3>3
  <2>6. ops' \in [Task -> Seq(Ops)]
    <3>1. \E q \in Seq(Ops) : ops' = [ops EXCEPT ![t] = q]
      BY <1>2, <2>3 DEF Absorb
    <3>2. ops \in [Task -> Seq(Ops)]
      BY DEF ServerTypeOK
    <3> QED
      BY <3>1, <3>2
  <2>7. texts' \in [Task -> SUBSET (1 .. MaxEvents)]
    <3>1. texts' = texts \/ texts' = [texts EXCEPT ![t] = texts[t] \cup {emitted[t] + 1}]
      BY <1>2 DEF Absorb
    <3>2. texts \in [Task -> SUBSET (1 .. MaxEvents)]
      BY DEF ServerTypeOK
    <3>3. texts[t] \cup {emitted[t] + 1} \in SUBSET (1 .. MaxEvents)
      BY <2>1, <3>2
    <3> QED
      BY <3>1, <3>2, <3>3
  <2>8. ServerTypeOK'
    BY <1>2, <2>5, <2>6, <2>7 DEF Absorb, ServerTypeOK
  <2> QED
    BY <2>4, <2>8
<1>3. CASE StreamEnded(t)
  BY <1>3 DEF StreamEnded, Drain, ServerTypeOK, TaskTypeOK, taskVars
<1>4. CASE StreamFailed(t)
  <2>1. <<>> \in Seq(Ops)
    OBVIOUS
  <2>2. ops' \in [Task -> Seq(Ops)]
    BY <1>4, <2>1 DEF StreamFailed, ServerTypeOK
  <2>3. TaskTypeOK'
    BY <1>4 DEF StreamFailed, TaskTypeOK, taskVars
  <2> QED
    BY <1>4, <2>2, <2>3 DEF StreamFailed, Drain, ServerTypeOK
<1>5. CASE Apply(t)
  <2>1. TaskTypeOK'
    BY <1>1, <1>5, AppendsTypes DEF Apply
  <2>2. ops' \in [Task -> Seq(Ops)]
    BY <1>1, <1>5 DEF Apply, ServerTypeOK
  <2>3. dpc' \in [Task -> DrainPlaces]
    <3>1. \E to \in DrainPlaces : dpc' = [dpc EXCEPT ![t] = to]
      BY <1>5 DEF Apply, Drain, DrainPlaces
    <3> QED
      BY <3>1 DEF ServerTypeOK, DrainPlaces
  <2>4. ServerTypeOK'
    BY <1>5, <2>2, <2>3 DEF Apply, ServerTypeOK, DrainPlaces
  <2> QED
    BY <2>1, <2>4
<1>6. CASE AnnounceArtifact(t)
  <2>1. ASSUME ops[t] # <<>> PROVE TypeOK'
    <3>1. Head(ops[t]).event \in Nat
      BY <1>1, <2>1, MaxEventsAssumption
    <3>2. ArtifactUpdate(t, Head(ops[t]).event) \in Update
      BY <3>1 DEF ArtifactUpdate, Artifact, Update
    <3>3. TaskTypeOK'
      BY <1>6, <3>2, BroadcastTypes DEF AnnounceArtifact
    <3>4. ServerTypeOK'
      BY <1>1, <1>6, <2>1 DEF AnnounceArtifact, Drain, ServerTypeOK
    <3> QED
      BY <3>3, <3>4
  <2> QED
    BY <1>6, <2>1 DEF AnnounceArtifact, Drain, HasHead
<1>7. CASE Applied(t)
  BY <1>7 DEF Applied, Drain, ServerTypeOK, TaskTypeOK, taskVars
<1>8. CASE SetFinal(t)
  <2>1. TaskTypeOK'
    BY <1>0, <1>8, SetStatusTypes DEF SetFinal
  <2>2. ServerTypeOK'
    BY <1>8 DEF SetFinal, Drain, ServerTypeOK
  <2> QED
    BY <2>1, <2>2
<1>9. CASE AnnounceFinal(t)
  <2>1. TaskTypeOK'
    BY <1>0, <1>9, BroadcastTypes DEF AnnounceFinal
  <2>2. ServerTypeOK'
    BY <1>9 DEF AnnounceFinal, Drain, ServerTypeOK
  <2> QED
    BY <2>1, <2>2
<1> QED
  BY <1>2, <1>3, <1>4, <1>5, <1>6, <1>7, <1>8, <1>9 DEF DrainStep

LEMMA CallTypesServer ==
    ASSUME TypeOK, (\E c \in Canceller : CancelStep(c)) \/ (\E w \in Watcher : WatchStep(w))
    PROVE  TypeOK'
<1> USE DEF TypeOK
<1>0. \A y \in Canceller \cup Watcher : target[y] \in Task
  BY DEF ServerTypeOK
<1>1. ASSUME NEW c \in Canceller, CancelRoute(c) PROVE TypeOK'
  BY <1>0, <1>1 DEF CancelRoute, CancelCall, ServerTypeOK, TaskTypeOK, TaskRecord, taskVars
<1>2. ASSUME NEW c \in Canceller, CancelCheck(c) PROVE TypeOK'
  BY <1>2 DEF CancelCheck, CancelCall, ServerTypeOK, TaskTypeOK, taskVars
<1>3. ASSUME NEW c \in Canceller, CancelSet(c) PROVE TypeOK'
  <2>1. TaskTypeOK'
    BY <1>0, <1>3, SetStatusTypes DEF CancelSet, TaskState
  <2>2. ServerTypeOK'
    BY <1>3 DEF CancelSet, CancelCall, ServerTypeOK
  <2> QED
    BY <2>1, <2>2
<1>4. ASSUME NEW c \in Canceller, CancelAnnounce(c) PROVE TypeOK'
  <2>1. Status("canceled", TRUE) \in Update
    BY DEF Status, Update, TaskState
  <2>2. TaskTypeOK'
    BY <1>0, <1>4, <2>1, BroadcastTypes DEF CancelAnnounce
  <2>3. ServerTypeOK'
    BY <1>4 DEF CancelAnnounce, CancelCall, ServerTypeOK
  <2> QED
    BY <2>2, <2>3
<1>5. ASSUME NEW w \in Watcher, WatchLook(w) PROVE TypeOK'
  BY <1>5 DEF WatchLook, WatchCall, ServerTypeOK, TaskTypeOK, taskVars
<1>6. ASSUME NEW w \in Watcher, WatchSubscribe(w) PROVE TypeOK'
  <2>1. TaskTypeOK'
    <3>1. Subscribe(w, target[w]) \/ UNCHANGED taskVars
      BY <1>6 DEF WatchSubscribe
    <3>2. w \in Receiver
      BY ReceiverAssumption
    <3> QED
      BY <1>0, <3>1, <3>2, ReceiverTypes DEF TaskTypeOK, taskVars
  <2>2. ServerTypeOK'
    BY <1>6 DEF WatchSubscribe, WatchCall, ServerTypeOK
  <2> QED
    BY <2>1, <2>2
<1>7. ASSUME NEW w \in Watcher, WatchUpdate(w) PROVE TypeOK'
  <2>1. TaskTypeOK'
    BY <1>7, ReceiverTypes, ReceiverAssumption DEF WatchUpdate
  <2>2. ServerTypeOK'
    BY <1>7 DEF WatchUpdate, ServerTypeOK
  <2> QED
    BY <2>1, <2>2
<1> QED
  BY <1>1, <1>2, <1>3, <1>4, <1>5, <1>6, <1>7 DEF CancelStep, WatchStep

\* Only the drain takes from the queue, and not before the announcement.
LEMMA HeadKept == TypeOK /\ HasHead /\ Next => HasHead'
<1> SUFFICES ASSUME TypeOK, HasHead, Next, NEW t \in Task, dpc'[t] = "announce"
             PROVE  ops'[t] # <<>>
  BY DEF HasHead
<1> USE DEF TypeOK, ServerTypeOK
<1>1. CASE dpc'[t] = dpc[t] /\ ops'[t] = ops[t]
  BY <1>1 DEF HasHead
<1>2. ASSUME NEW u \in Task, HandlerStep(u) \/ Disconnect(u) PROVE ops'[t] # <<>>
  <2>1. ops' = ops /\ (dpc' = dpc \/ \E to \in {"drain", "killed", dpc[u]} : dpc' = [dpc EXCEPT ![u] = to])
    BY <1>2 DEF HandlerStep, Create, SetWorking, AnnounceWorking, StartRun, RecordInvocation,
            SubscribeStream, SubscribeRefused, StreamUpdate, Join, Disconnect
  <2> QED
    BY <1>1, <2>1
<1>3. ASSUME NEW u \in Task, DrainStep(u) PROVE ops'[t] # <<>>
  <2>1. CASE u = t
    <3>1. ASSUME ~ Apply(t) PROVE ops'[t] # <<>>
      <4>1. dpc'[t] # "announce"
        <5>1. \/ dpc[t] = "drain" /\ dpc' = dpc
              \/ \E to \in DrainPlaces \ {"announce"} : dpc' = [dpc EXCEPT ![t] = to]
          BY <1>3, <2>1, <3>1 DEF DrainStep, Absorb, StreamEnded, StreamFailed, AnnounceArtifact,
                  Applied, SetFinal, AnnounceFinal, Drain, DrainPlaces
        <5> QED
          BY <5>1
      <4> QED
        BY <4>1
    <3>2. ASSUME Apply(t) PROVE ops'[t] # <<>>
      BY <3>2 DEF Apply, Drain
    <3> QED
      BY <3>1, <3>2
  <2>2. CASE u # t
    <3>1. dpc' = dpc \/ \E to : dpc' = [dpc EXCEPT ![u] = to]
      BY <1>3 DEF DrainStep, Absorb, StreamEnded, StreamFailed, Apply, AnnounceArtifact,
              Applied, SetFinal, AnnounceFinal, Drain
    <3>2. ops' = ops \/ \E q : ops' = [ops EXCEPT ![u] = q]
      BY <1>3 DEF DrainStep, Absorb, StreamEnded, StreamFailed, Apply, AnnounceArtifact,
              Applied, SetFinal, AnnounceFinal
    <3> QED
      BY <1>1, <2>2, <3>1, <3>2
  <2> QED
    BY <2>1, <2>2
<1>4. ASSUME (\E c \in Canceller : CancelStep(c)) \/ (\E w \in Watcher : WatchStep(w))
      PROVE  ops'[t] # <<>>
  <2>1. dpc' = dpc /\ ops' = ops
    BY <1>4 DEF CancelStep, CancelRoute, CancelCheck, CancelSet, CancelAnnounce, WatchStep, WatchLook,
            WatchSubscribe, WatchUpdate
  <2> QED
    BY <1>1, <2>1
<1> QED
  BY <1>2, <1>3, <1>4 DEF Next

LEMMA ServerNextTypes == TypeOK /\ HasHead /\ [Next]_vars => TypeOK' /\ HasHead'
<1>1. TypeOK /\ HasHead /\ Next => TypeOK'
  BY HandlerTypes, DrainTypes, CallTypesServer DEF Next
<1> QED
  BY <1>1, HeadKept, ServerTypeFrame

\* Every state is type correct (server.rs, task_service.rs); it needs that an artifact
\* is announced before it leaves the queue.
THEOREM ServerTypeCorrect == Spec => [](TypeOK /\ HasHead)
BY ServerInitTypes, ServerNextTypes, PTL DEF Spec

-----------------------------------------------------------------------------
(* The queue of a drain.                                                   *)

\* The order of what an event queues, and of the events.
Before(a, b) ==
    a.event < b.event \/ (a.event = b.event /\ a.op = "history" /\ b.op = "artifact")

\* The events whose text is queued, from a place of the queue on.
ChunksFrom(q, from) == {n \in 1 .. MaxEvents : \E i \in from .. Len(q) : q[i] = Chunk(n)}

\* With k of m messages in the history and the texts of T queued so far: the queue has,
\* in their order, the other messages, and the texts that come with them; it may still
\* have the text of the last message written.
QueueOK(q, k, m, T) ==
    /\ \A i, j \in 1 .. Len(q) : i < j => Before(q[i], q[j])
    /\ \A i \in 1 .. Len(q) : q[i].op = "history" => k < q[i].event
    /\ \A i \in 1 .. Len(q) : q[i].event <= m
    /\ \A n \in k + 1 .. m : \E i \in 1 .. Len(q) : q[i] = Message(n)
    /\ \A n \in ChunksFrom(q, 1) : n \in T /\ k <= n
    /\ \A n \in T : k < n => n \in ChunksFrom(q, 1)

LEMMA OpFacts ==
    /\ \A o \in Ops : /\ o.event \in 1 .. MaxEvents /\ o.event \in Nat
                      /\ o.op \in {"history", "artifact"}
                      /\ o.op = "artifact" <=> o = Chunk(o.event)
                      /\ o.op = "history" <=> o = Message(o.event)
    /\ \A n : /\ Message(n).event = n /\ Message(n).op = "history"
              /\ Chunk(n).event = n /\ Chunk(n).op = "artifact"
              /\ n \in 1 .. MaxEvents => Message(n) \in Ops /\ Chunk(n) \in Ops
<1>1. \A n : /\ Message(n).event = n /\ Message(n).op = "history"
             /\ Chunk(n).event = n /\ Chunk(n).op = "artifact"
             /\ n \in 1 .. MaxEvents => Message(n) \in Ops /\ Chunk(n) \in Ops
  BY DEF Message, Chunk, Ops
<1>2. ASSUME NEW o \in Ops
      PROVE  /\ o.event \in 1 .. MaxEvents /\ o.event \in Nat
             /\ o.op \in {"history", "artifact"}
             /\ o.op = "artifact" <=> o = Chunk(o.event)
             /\ o.op = "history" <=> o = Message(o.event)
  <2>1. o.event \in 1 .. MaxEvents /\ o.op \in {"history", "artifact"} /\ o = [op |-> o.op, event |-> o.event]
    BY DEF Ops
  <2>2. o.event \in Nat
    BY <2>1, MaxEventsAssumption
  <2> QED
    BY <1>1, <2>1, <2>2 DEF Message, Chunk
<1> QED
  BY <1>1, <1>2

LEMMA OpsOf == ASSUME NEW q \in Seq(Ops) PROVE \A i \in 1 .. Len(q) : q[i] \in Ops
OBVIOUS

LEMMA ConcatTwo ==
    ASSUME NEW q \in Seq(Ops), NEW a \in Ops, NEW b \in Ops
    PROVE  q \o <<a, b>> = Append(Append(q, a), b)
OBVIOUS

\* An event queues its message.
LEMMA QueueMessage ==
    ASSUME NEW q \in Seq(Ops), NEW k \in Nat, NEW m \in Nat, k <= m, m < MaxEvents,
           NEW T \in SUBSET (1 .. m), QueueOK(q, k, m, T)
    PROVE  /\ Append(q, Message(m + 1)) \in Seq(Ops)
           /\ QueueOK(Append(q, Message(m + 1)), k, m + 1, T)
           /\ ChunksFrom(Append(q, Message(m + 1)), 1) = ChunksFrom(q, 1)
<1> DEFINE r == Append(q, Message(m + 1))
<1>1. /\ Message(m + 1) \in Ops /\ Message(m + 1).op = "history" /\ Message(m + 1).event = m + 1
      /\ \A n : Message(m + 1) # Chunk(n)
  BY MaxEventsAssumption DEF Message, Chunk, Ops
<1>2. r \in Seq(Ops) /\ Len(r) = Len(q) + 1 /\ Len(q) \in Nat
      /\ r[Len(q) + 1] = Message(m + 1) /\ \A i \in 1 .. Len(q) : r[i] = q[i]
  BY <1>1
<1>3. \A i \in 1 .. Len(q) : q[i].event \in Nat
  BY OpsOf, OpFacts
<1> HIDE DEF r
<1>4. ChunksFrom(r, 1) = ChunksFrom(q, 1)
  BY <1>1, <1>2 DEF ChunksFrom
<1>5. \A i, j \in 1 .. Len(r) : i < j => Before(r[i], r[j])
  <2> SUFFICES ASSUME NEW i \in 1 .. Len(r), NEW j \in 1 .. Len(r), i < j PROVE Before(r[i], r[j])
    OBVIOUS
  <2>1. CASE j \in 1 .. Len(q)
    <3>1. i \in 1 .. Len(q)
      BY <1>2, <2>1
    <3> QED
      BY <1>2, <2>1, <3>1 DEF QueueOK
  <2>2. CASE j = Len(q) + 1
    <3>1. i \in 1 .. Len(q) /\ r[i] = q[i] /\ r[j] = Message(m + 1)
      BY <1>2, <2>2
    <3>2. q[i].event <= m /\ q[i].event \in Nat
      BY <1>3, <3>1 DEF QueueOK
    <3> QED
      BY <1>1, <3>1, <3>2 DEF Before
  <2> QED
    BY <1>2, <2>1, <2>2
<1>6. ASSUME NEW n \in k + 1 .. m + 1 PROVE \E i \in 1 .. Len(r) : r[i] = Message(n)
  <2>1. CASE n \in k + 1 .. m
    <3>1. PICK i \in 1 .. Len(q) : q[i] = Message(n)
      BY <2>1 DEF QueueOK
    <3> QED
      BY <1>2, <3>1
  <2>2. CASE n = m + 1
    BY <1>2, <2>2
  <2> QED
    BY <2>1, <2>2
<1>7. ASSUME NEW i \in 1 .. Len(r) PROVE r[i].event <= m + 1 /\ (r[i].op = "history" => k < r[i].event)
  <2>1. CASE i \in 1 .. Len(q)
    <3>1. q[i].event <= m /\ q[i].event \in Nat /\ (q[i].op = "history" => k < q[i].event)
      BY <1>3, <2>1 DEF QueueOK
    <3> QED
      BY <1>2, <2>1, <3>1
  <2>2. CASE i = Len(q) + 1
    BY <1>1, <1>2, <2>2
  <2> QED
    BY <1>2, <2>1, <2>2
<1> QED
  BY <1>2, <1>4, <1>5, <1>6, <1>7 DEF QueueOK, r

\* And then its text.
LEMMA QueueChunk ==
    ASSUME NEW q \in Seq(Ops), NEW k \in Nat, NEW m \in 1 .. MaxEvents, k < m,
           NEW T \in SUBSET (1 .. m - 1), QueueOK(q, k, m, T)
    PROVE  /\ Append(q, Chunk(m)) \in Seq(Ops)
           /\ QueueOK(Append(q, Chunk(m)), k, m, T \cup {m})
           /\ ChunksFrom(Append(q, Chunk(m)), 1) = ChunksFrom(q, 1) \cup {m}
<1> DEFINE r == Append(q, Chunk(m))
<1>1. /\ Chunk(m) \in Ops /\ Chunk(m).op = "artifact" /\ Chunk(m).event = m
      /\ \A n : Chunk(n) = Chunk(m) => n = m
  BY MaxEventsAssumption DEF Chunk, Ops
<1>2. r \in Seq(Ops) /\ Len(r) = Len(q) + 1 /\ Len(q) \in Nat
      /\ r[Len(q) + 1] = Chunk(m) /\ \A i \in 1 .. Len(q) : r[i] = q[i]
  BY <1>1
<1>3. \A i \in 1 .. Len(q) :
        /\ q[i].event \in 1 .. MaxEvents /\ q[i].event \in Nat /\ q[i].op \in {"history", "artifact"}
        /\ q[i].op = "artifact" => q[i] = Chunk(q[i].event)
  BY OpsOf, OpFacts
<1>4. \A i \in 1 .. Len(q) : q[i].op = "artifact" => q[i].event # m
  <2>1. m \notin ChunksFrom(q, 1)
    BY DEF QueueOK
  <2> QED
    BY <1>3, <2>1 DEF ChunksFrom
<1> HIDE DEF r
<1>5. ChunksFrom(r, 1) = ChunksFrom(q, 1) \cup {m}
  BY <1>1, <1>2 DEF ChunksFrom
<1>6. \A i, j \in 1 .. Len(r) : i < j => Before(r[i], r[j])
  <2> SUFFICES ASSUME NEW i \in 1 .. Len(r), NEW j \in 1 .. Len(r), i < j PROVE Before(r[i], r[j])
    OBVIOUS
  <2>1. CASE j \in 1 .. Len(q)
    <3>1. i \in 1 .. Len(q)
      BY <1>2, <2>1
    <3> QED
      BY <1>2, <2>1, <3>1 DEF QueueOK
  <2>2. CASE j = Len(q) + 1
    <3>1. i \in 1 .. Len(q) /\ r[i] = q[i] /\ r[j] = Chunk(m)
      BY <1>2, <2>2
    <3>2. q[i].event <= m /\ q[i].event \in Nat
      BY <1>3, <3>1 DEF QueueOK
    <3> QED
      BY <1>1, <1>3, <1>4, <3>1, <3>2 DEF Before
  <2> QED
    BY <1>2, <2>1, <2>2
<1>7. \A n \in k + 1 .. m : \E i \in 1 .. Len(r) : r[i] = Message(n)
  BY <1>2 DEF QueueOK
<1>8. ASSUME NEW i \in 1 .. Len(r) PROVE r[i].event <= m /\ (r[i].op = "history" => k < r[i].event)
  <2>1. CASE i \in 1 .. Len(q)
    <3>1. q[i].event <= m /\ (q[i].op = "history" => k < q[i].event)
      BY <2>1 DEF QueueOK
    <3> QED
      BY <1>2, <2>1, <3>1
  <2>2. CASE i = Len(q) + 1
    BY <1>1, <1>2, <2>2
  <2> QED
    BY <1>2, <2>1, <2>2
<1>9. \A n \in ChunksFrom(r, 1) : n \in T \cup {m} /\ k <= n
  BY <1>5 DEF QueueOK
<1>10. \A n \in T \cup {m} : k < n => n \in ChunksFrom(r, 1)
  BY <1>5 DEF QueueOK
<1> QED
  BY <1>2, <1>5, <1>6, <1>7, <1>8, <1>9, <1>10 DEF QueueOK, r

LEMMA TailOf ==
    ASSUME NEW q \in Seq(Ops), q # <<>>
    PROVE  /\ Tail(q) \in Seq(Ops) /\ Len(Tail(q)) = Len(q) - 1 /\ Len(q) \in Nat \ {0}
           /\ Head(q) = q[1] /\ q[1] \in Ops
           /\ \A i \in 1 .. Len(q) - 1 : Tail(q)[i] = q[i + 1]
           /\ ChunksFrom(Tail(q), 1) = ChunksFrom(q, 2)
<1>1. /\ Tail(q) \in Seq(Ops) /\ Len(Tail(q)) = Len(q) - 1 /\ Len(q) \in Nat \ {0}
      /\ Head(q) = q[1] /\ q[1] \in Ops
      /\ \A i \in 1 .. Len(q) - 1 : Tail(q)[i] = q[i + 1]
  OBVIOUS
<1>2. ASSUME NEW n \in 1 .. MaxEvents
      PROVE  (\E i \in 1 .. Len(Tail(q)) : Tail(q)[i] = Chunk(n)) <=> (\E i \in 2 .. Len(q) : q[i] = Chunk(n))
  <2>1. ASSUME NEW i \in 2 .. Len(q), q[i] = Chunk(n) PROVE \E j \in 1 .. Len(Tail(q)) : Tail(q)[j] = Chunk(n)
    <3>1. i - 1 \in 1 .. Len(q) - 1 /\ (i - 1) + 1 = i
      BY <1>1
    <3>2. Tail(q)[i - 1] = Chunk(n)
      BY <1>1, <2>1, <3>1
    <3> QED
      BY <1>1, <3>1, <3>2
  <2>2. ASSUME NEW i \in 1 .. Len(Tail(q)), Tail(q)[i] = Chunk(n) PROVE \E j \in 2 .. Len(q) : q[j] = Chunk(n)
    <3>1. i + 1 \in 2 .. Len(q) /\ q[i + 1] = Chunk(n)
      BY <1>1, <2>2
    <3> QED
      BY <3>1
  <2> QED
    BY <2>1, <2>2
<1>3. ChunksFrom(Tail(q), 1) = ChunksFrom(q, 2)
  BY <1>2 DEF ChunksFrom
<1> QED
  BY <1>1, <1>3

\* The message at the head is the next of the history.
LEMMA QueueWriteMessage ==
    ASSUME NEW q \in Seq(Ops), NEW k \in Nat, NEW m \in Nat, k <= m,
           NEW T \in SUBSET (1 .. m), QueueOK(q, k, m, T), q # <<>>, Head(q).op = "history"
    PROVE  /\ Head(q).event = k + 1 /\ k + 1 <= m
           /\ QueueOK(Tail(q), k + 1, m, T)
           /\ ChunksFrom(Tail(q), 1) = ChunksFrom(q, 1)
<1>0. ChunksFrom(Tail(q), 1) = ChunksFrom(q, 2)
  BY TailOf
<1>1. /\ Len(Tail(q)) = Len(q) - 1 /\ Len(q) \in Nat \ {0} /\ 1 \in 1 .. Len(q)
      /\ Head(q) = q[1] /\ q[1].op = "history"
      /\ \A i \in 1 .. Len(q) - 1 : Tail(q)[i] = q[i + 1]
  BY TailOf
<1>2. \A i \in 1 .. Len(q) :
        /\ q[i].event \in 1 .. MaxEvents /\ q[i].event \in Nat /\ q[i].op \in {"history", "artifact"}
        /\ q[i].op = "artifact" <=> q[i] = Chunk(q[i].event)
        /\ q[i].op = "history" <=> q[i] = Message(q[i].event)
  BY OpsOf, OpFacts
<1>3. \A n \in Nat : Message(n).event = n /\ Message(n).op = "history" /\ Chunk(n).event = n /\ Chunk(n).op = "artifact"
  BY DEF Message, Chunk
<1>4. q[1].event = k + 1 /\ k + 1 <= m
  <2>1. k < q[1].event /\ q[1].event <= m /\ q[1].event \in Nat
    BY <1>1, <1>2 DEF QueueOK
  <2>2. PICK i \in 1 .. Len(q) : q[i] = Message(k + 1)
    BY <2>1 DEF QueueOK
  <2>3. i # 1 => Before(q[1], q[i])
    BY <1>1 DEF QueueOK
  <2> QED
    BY <1>1, <1>3, <2>1, <2>2, <2>3 DEF Before
<1>5. ChunksFrom(q, 2) = ChunksFrom(q, 1)
  <2>1. \A n \in 1 .. MaxEvents : q[1] # Chunk(n)
    BY <1>1, <1>3, MaxEventsAssumption
  <2> QED
    BY <1>1, <2>1 DEF ChunksFrom
<1>6. \A i \in 2 .. Len(q) : Before(q[1], q[i]) /\ q[i] # q[1]
  BY <1>1, <1>2 DEF QueueOK, Before
<1> DEFINE r == Tail(q)
<1>7. \A i \in 1 .. Len(r) : r[i] = q[i + 1] /\ i + 1 \in 2 .. Len(q) /\ i + 1 \in 1 .. Len(q)
  BY <1>1
<1>8. \A i \in 2 .. Len(q) : i - 1 \in 1 .. Len(r) /\ r[i - 1] = q[i]
  BY <1>1, <1>7
<1> HIDE DEF r
<1>9. \A i, j \in 1 .. Len(r) : i < j => Before(r[i], r[j])
  BY <1>7 DEF QueueOK
<1>10. \A i \in 1 .. Len(r) : r[i].event <= m /\ (r[i].op = "history" => k + 1 < r[i].event)
  BY <1>1, <1>2, <1>4, <1>6, <1>7 DEF QueueOK, Before
<1>11. \A n \in (k + 1) + 1 .. m : \E i \in 1 .. Len(r) : r[i] = Message(n)
  <2> SUFFICES ASSUME NEW n \in (k + 1) + 1 .. m PROVE \E i \in 1 .. Len(r) : r[i] = Message(n)
    OBVIOUS
  <2>1. PICK i \in 1 .. Len(q) : q[i] = Message(n)
    BY DEF QueueOK
  <2>2. i # 1
    BY <1>3, <1>4, <2>1
  <2> QED
    BY <1>8, <2>1, <2>2
<1>12. \A n \in ChunksFrom(q, 2) : n \in T /\ k + 1 <= n
  <2> SUFFICES ASSUME NEW n \in ChunksFrom(q, 2) PROVE n \in T /\ k + 1 <= n
    OBVIOUS
  <2>1. n \in T
    BY <1>5 DEF QueueOK
  <2>2. PICK i \in 2 .. Len(q) : q[i] = Chunk(n)
    BY DEF ChunksFrom
  <2>3. n \in Nat
    BY <2>1
  <2> QED
    BY <1>3, <1>4, <1>6, <2>1, <2>2, <2>3 DEF Before
<1>13. \A n \in T : k + 1 < n => n \in ChunksFrom(q, 2)
  <2>1. \A n \in T : n \in Nat
    OBVIOUS
  <2> QED
    BY <1>5, <2>1 DEF QueueOK
<1> QED
  BY <1>0, <1>1, <1>4, <1>5, <1>9, <1>10, <1>11, <1>12, <1>13 DEF QueueOK, r

\* A text at the head is that of the last message of the history.
LEMMA QueueWriteChunk ==
    ASSUME NEW q \in Seq(Ops), NEW k \in Nat, NEW m \in Nat, k <= m,
           NEW T \in SUBSET (1 .. m), QueueOK(q, k, m, T), q # <<>>, Head(q).op = "artifact"
    PROVE  /\ Head(q) = Chunk(k) /\ k \in T /\ Head(q).event = k /\ k \in ChunksFrom(q, 1)
           /\ QueueOK(Tail(q), k, m, T)
           /\ ChunksFrom(Tail(q), 1) = ChunksFrom(q, 1) \ {k}
<1>0. ChunksFrom(Tail(q), 1) = ChunksFrom(q, 2)
  BY TailOf
<1>1. /\ Len(Tail(q)) = Len(q) - 1 /\ Len(q) \in Nat \ {0} /\ 1 \in 1 .. Len(q)
      /\ Head(q) = q[1] /\ q[1].op = "artifact"
      /\ \A i \in 1 .. Len(q) - 1 : Tail(q)[i] = q[i + 1]
  BY TailOf
<1>2. \A i \in 1 .. Len(q) :
        /\ q[i].event \in 1 .. MaxEvents /\ q[i].event \in Nat /\ q[i].op \in {"history", "artifact"}
        /\ q[i].op = "artifact" <=> q[i] = Chunk(q[i].event)
        /\ q[i].op = "history" <=> q[i] = Message(q[i].event)
  BY OpsOf, OpFacts
<1>3. \A n \in Nat : Message(n).event = n /\ Message(n).op = "history" /\ Chunk(n).event = n /\ Chunk(n).op = "artifact"
  BY DEF Message, Chunk
<1> DEFINE e == q[1].event
<1>4. e \in 1 .. MaxEvents /\ e \in Nat /\ q[1] = Chunk(e) /\ e \in ChunksFrom(q, 1)
  BY <1>1, <1>2 DEF ChunksFrom
<1>5. e \in T /\ k <= e /\ e <= m
  BY <1>4 DEF QueueOK
<1> HIDE DEF e
<1>6. e = k
  <2> SUFFICES ASSUME k < e PROVE FALSE
    BY <1>4, <1>5
  <2>1. e \in k + 1 .. m
    BY <1>4, <1>5
  <2>2. PICK i \in 1 .. Len(q) : q[i] = Message(e)
    BY <2>1 DEF QueueOK
  <2>3. i # 1
    BY <1>1, <1>3, <1>4, <2>2
  <2>4. Before(q[1], q[i])
    BY <1>1, <2>3 DEF QueueOK
  <2> QED
    BY <1>3, <1>4, <2>2, <2>4 DEF Before
<1>7. \A i \in 2 .. Len(q) : Before(q[1], q[i])
  BY <1>1 DEF QueueOK
<1>8. ChunksFrom(q, 2) = ChunksFrom(q, 1) \ {k}
  <2>1. \A n \in 1 .. MaxEvents : q[1] = Chunk(n) <=> n = k
    BY <1>3, <1>4, <1>6, MaxEventsAssumption
  <2>2. \A i \in 2 .. Len(q) : q[i] # Chunk(k)
    BY <1>3, <1>4, <1>6, <1>7 DEF Before
  <2> QED
    BY <1>1, <2>1, <2>2 DEF ChunksFrom
<1> DEFINE r == Tail(q)
<1>9. \A i \in 1 .. Len(r) : r[i] = q[i + 1] /\ i + 1 \in 2 .. Len(q) /\ i + 1 \in 1 .. Len(q)
  BY <1>1
<1>10. \A i \in 2 .. Len(q) : i - 1 \in 1 .. Len(r) /\ r[i - 1] = q[i]
  BY <1>1, <1>9
<1> HIDE DEF r
<1>11. \A i, j \in 1 .. Len(r) : i < j => Before(r[i], r[j])
  BY <1>9 DEF QueueOK
<1>12. \A i \in 1 .. Len(r) : r[i].event <= m /\ (r[i].op = "history" => k < r[i].event)
  BY <1>9 DEF QueueOK
<1>13. \A n \in k + 1 .. m : \E i \in 1 .. Len(r) : r[i] = Message(n)
  <2> SUFFICES ASSUME NEW n \in k + 1 .. m PROVE \E i \in 1 .. Len(r) : r[i] = Message(n)
    OBVIOUS
  <2>1. PICK i \in 1 .. Len(q) : q[i] = Message(n)
    BY DEF QueueOK
  <2>2. i # 1
    BY <1>1, <1>3, <2>1
  <2> QED
    BY <1>10, <2>1, <2>2
<1>14. \A n \in ChunksFrom(q, 2) : n \in T /\ k <= n
  BY <1>8 DEF QueueOK
<1>15. \A n \in T : k < n => n \in ChunksFrom(q, 2)
  BY <1>8 DEF QueueOK
<1> QED
  <2>1. QueueOK(r, k, m, T)
    BY <1>0, <1>11, <1>12, <1>13, <1>14, <1>15 DEF QueueOK, r
  <2>2. Head(q) = Chunk(k) /\ Head(q).event = k /\ k \in T /\ k \in ChunksFrom(q, 1)
    BY <1>1, <1>3, <1>4, <1>5, <1>6
  <2> QED
    BY <1>0, <1>8, <2>1, <2>2 DEF r

-----------------------------------------------------------------------------
(* The artifact: the numbers up to k, and those of them in a set.          *)

LEMMA NumbersFacts ==
    ASSUME NEW k \in Nat
    PROVE  /\ Numbers(k) \in Seq(Nat) /\ Len(Numbers(k)) = k
           /\ \A i \in 1 .. k : Numbers(k)[i] = i
           /\ Numbers(k + 1) = Append(Numbers(k), k + 1)
           /\ Numbers(0) = <<>>
<1>1. Numbers(k) \in Seq(Nat) /\ Len(Numbers(k)) = k /\ \A i \in 1 .. k : Numbers(k)[i] = i
  BY DEF Numbers
<1>2. /\ Numbers(k + 1) \in Seq(Nat) /\ Len(Numbers(k + 1)) = k + 1
      /\ \A i \in 1 .. k + 1 : Numbers(k + 1)[i] = i
  BY DEF Numbers
<1>3. /\ Append(Numbers(k), k + 1) \in Seq(Nat) /\ Len(Append(Numbers(k), k + 1)) = k + 1
      /\ \A i \in 1 .. k + 1 : Append(Numbers(k), k + 1)[i] = i
  BY <1>1
<1>4. Numbers(k + 1) = Append(Numbers(k), k + 1)
  BY <1>2, <1>3, SeqEqual
<1>5. Numbers(0) \in Seq(Nat) /\ Len(Numbers(0)) = 0
  BY DEF Numbers
<1>6. Numbers(0) = <<>>
  BY <1>5, EmptySeq
<1> QED
  BY <1>1, <1>4, <1>6

LEMMA NumbersSelected ==
    ASSUME NEW k \in Nat, NEW A
    PROVE  /\ k + 1 \notin A => Selected(Numbers(k + 1), A) = Selected(Numbers(k), A)
           /\ k + 1 \in A => Selected(Numbers(k + 1), A) = Append(Selected(Numbers(k), A), k + 1)
           /\ \A B : (\A n \in 1 .. k : n \in A <=> n \in B) =>
                  Selected(Numbers(k), A) = Selected(Numbers(k), B)
           /\ (\A n \in 1 .. k : n \notin A) => Selected(Numbers(k), A) = <<>>
<1>1. Numbers(k) \in Seq(Nat) /\ Len(Numbers(k)) = k /\ (\A i \in 1 .. k : Numbers(k)[i] = i)
      /\ Numbers(k + 1) = Append(Numbers(k), k + 1) /\ k + 1 \in Nat
  <2>1. Numbers(k) \in Seq(Nat) /\ Len(Numbers(k)) = k /\ (\A i \in 1 .. k : Numbers(k)[i] = i)
    BY NumbersFacts
  <2>2. Numbers(k + 1) = Append(Numbers(k), k + 1)
    BY NumbersFacts
  <2> QED
    BY <2>1, <2>2
<1>2. Selected(Append(Numbers(k), k + 1), A)
        = IF k + 1 \in A THEN Append(Selected(Numbers(k), A), k + 1) ELSE Selected(Numbers(k), A)
  <2>1. k + 1 \in Nat /\ Numbers(k) \in Seq(Nat)
    BY <1>1
  <2> QED
    BY <2>1, SelectedAppend, ZenonT(30)
<1>3. ASSUME NEW B, \A n \in 1 .. k : n \in A <=> n \in B
      PROVE  Selected(Numbers(k), A) = Selected(Numbers(k), B)
  <2>1. \A i \in 1 .. Len(Numbers(k)) : Numbers(k)[i] \in A <=> Numbers(k)[i] \in B
    BY <1>1, <1>3
  <2> QED
    BY <1>1, <2>1, SelectedSame
<1>4. ASSUME \A n \in 1 .. k : n \notin A PROVE Selected(Numbers(k), A) = <<>>
  BY <1>1, <1>4, SelectedNone
<1> QED
  BY <1>1, <1>2, <1>3, <1>4

\* Writing the next message, whose text is not written yet, and then its text.
LEMMA ArtifactsWithout ==
    ASSUME NEW k \in Nat, NEW T, NEW W, k + 1 \in T => k + 1 \in W
    PROVE  Selected(Numbers(k + 1), T \ W) = Selected(Numbers(k), T \ W)
BY NumbersSelected

LEMMA ArtifactsWith ==
    ASSUME NEW k \in Nat \ {0}, NEW T, NEW W, k \in T
    PROVE  Append(Selected(Numbers(k), T \ (W \cup {k})), k) = Selected(Numbers(k), T \ (W \ {k}))
<1> DEFINE A == T \ (W \cup {k})
           B == T \ (W \ {k})
<1>1. PICK j \in Nat : k = j + 1
  <2>1. k - 1 \in Nat /\ k = (k - 1) + 1
    OBVIOUS
  <2> QED
    BY <2>1
<1>2. j + 1 \notin A /\ j + 1 \in B /\ \A n \in 1 .. j : n \in A <=> n \in B
  BY <1>1
<1> HIDE DEF A, B
<1>3. Selected(Numbers(j + 1), A) = Selected(Numbers(j), A)
  BY <1>2, NumbersSelected
<1>4. Selected(Numbers(j + 1), B) = Append(Selected(Numbers(j), B), j + 1)
  BY <1>2, NumbersSelected
<1>5. Selected(Numbers(j), A) = Selected(Numbers(j), B)
  BY <1>2, NumbersSelected
<1> QED
  BY <1>1, <1>3, <1>4, <1>5 DEF A, B

-----------------------------------------------------------------------------
(* The output of a run.                                                    *)

Early == {"new", "created", "working", "starting", "started", "subscribing"}

Stored(t) == Len(tasks[t].history)

\* The texts that are queued, and of those the ones that are not stored yet: while an
\* artifact is announced, the first of the queue is.
Queued(t)  == ChunksFrom(ops[t], 1)
Waiting(t) == ChunksFrom(ops[t], IF dpc[t] = "announce" THEN 2 ELSE 1)

\* Before the drain begins there is nothing, and no error before it ends.
NothingYet(t) ==
    /\ hpc[t] \in Early => dpc[t] = "idle"
    /\ dpc[t] \in {"idle", "drain"} => outcome[t] # "error"
    /\ dpc[t] = "idle" =>
          /\ emitted[t] = 0 /\ texts[t] = {} /\ ops[t] = <<>>
          /\ tasks[t].history = <<>> /\ tasks[t].artifacts = <<>>

\* What the record holds is a prefix of the run's output.
RecordOK(t) ==
    /\ Stored(t) <= emitted[t] /\ texts[t] \subseteq 1 .. emitted[t]
    /\ tasks[t].history = Numbers(Stored(t))
    /\ tasks[t].artifacts = Selected(Numbers(Stored(t)), texts[t] \ Waiting(t))
    /\ dpc[t] = "announce" => ops[t] # <<>> /\ Head(ops[t]).op = "artifact"

GivenUp(t) == method[t] = "send" /\ outcome[t] = "error"

OutputInv(t) ==
    /\ NothingYet(t)
    /\ dpc[t] \in {"settle", "finish", "over"} => ops[t] = <<>>
    /\ ~GivenUp(t) => RecordOK(t) /\ QueueOK(ops[t], Stored(t), emitted[t], texts[t])

ServerInv == \A t \in Task : OutputInv(t)

\* The types that the arguments need.
LEMMA OutputTypes ==
    ASSUME TypeOK, NEW t \in Task
    PROVE  /\ ops[t] \in Seq(Ops) /\ emitted[t] \in Nat /\ emitted[t] <= MaxEvents
           /\ tasks[t].history \in Seq(Nat) /\ tasks[t].artifacts \in Seq(Nat) /\ Stored(t) \in Nat
           /\ texts[t] \in SUBSET (1 .. MaxEvents) /\ tasks \in [Task -> TaskRecord]
<1>1. tasks[t].history \in Seq(Nat) /\ tasks[t].artifacts \in Seq(Nat)
  BY DEF TypeOK, TaskTypeOK, TaskRecord
<1>2. emitted[t] \in 0 .. MaxEvents
  BY DEF TypeOK, ServerTypeOK
<1> QED
  BY <1>1, <1>2, MaxEventsAssumption DEF Stored, TypeOK, ServerTypeOK, TaskTypeOK

LEMMA ServerInvGives == TypeOK /\ ServerInv => SettledHasAllOutput
<1> SUFFICES ASSUME TypeOK, ServerInv, NEW t \in Task, dpc[t] \in {"finish", "over"}, ~GivenUp(t)
             PROVE  /\ tasks[t].history = Numbers(emitted[t])
                    /\ tasks[t].artifacts = Selected(Numbers(emitted[t]), texts[t])
  BY DEF SettledHasAllOutput, GivenUp
<1>1. OutputInv(t) /\ ops[t] = <<>> /\ RecordOK(t) /\ QueueOK(<<>>, Stored(t), emitted[t], texts[t])
  BY DEF ServerInv, OutputInv
<1>2. Len(<<>>) = 0 /\ \A from \in {1, 2} : ChunksFrom(<<>>, from) = {}
  BY DEF ChunksFrom
<1>3. Stored(t) = emitted[t]
  <2>1. Stored(t) \in Nat /\ emitted[t] \in Nat /\ Stored(t) <= emitted[t]
    BY <1>1, OutputTypes DEF RecordOK
  <2>2. Stored(t) < emitted[t] => emitted[t] \in Stored(t) + 1 .. emitted[t]
    BY <2>1
  <2>3. ~ (Stored(t) < emitted[t])
    BY <1>1, <1>2, <2>2 DEF QueueOK
  <2> QED
    BY <2>1, <2>3
<1>4. texts[t] \ Waiting(t) = texts[t]
  BY <1>1, <1>2 DEF Waiting
<1> QED
  BY <1>1, <1>3, <1>4 DEF RecordOK

LEMMA EmptyQueue ==
    /\ QueueOK(<<>>, 0, 0, {}) /\ Len(<<>>) = 0
    /\ \A W : Numbers(0) = <<>> /\ Selected(Numbers(0), {} \ W) = <<>>
<1>1. Len(<<>>) = 0
  OBVIOUS
<1>2. ChunksFrom(<<>>, 1) = {}
  BY <1>1 DEF ChunksFrom
<1>3. Numbers(0) = <<>>
  BY NumbersFacts
<1> QED
  BY <1>1, <1>2, <1>3, SelectedOfNothing DEF QueueOK

\* What the drain has done stays when its queue is closed or given up.
LEMMA OutputFrame ==
    ASSUME NEW x \in Task, OutputInv(x), hpc'[x] \in Early => hpc[x] \in Early,
           UNCHANGED <<emitted[x], texts[x], ops[x], method[x], outcome[x],
                       tasks[x].history, tasks[x].artifacts>>,
           dpc'[x] = dpc[x] \/ (dpc[x] = "drain" /\ dpc'[x] \in {"apply", "killed"})
    PROVE  OutputInv(x)'
<1>1. CASE dpc'[x] = dpc[x]
  BY <1>1 DEF OutputInv, NothingYet, RecordOK, GivenUp, Stored, Waiting
<1>2. CASE dpc[x] = "drain" /\ dpc'[x] \in {"apply", "killed"}
  <2>1. NothingYet(x)'
    BY <1>2 DEF OutputInv, NothingYet
  <2>2. Waiting(x)' = Waiting(x)
    BY <1>2 DEF Waiting
  <2> QED
    BY <1>2, <2>1, <2>2 DEF OutputInv, RecordOK, GivenUp, Stored
<1> QED
  BY <1>1, <1>2

LEMMA ServerInvInit == Init => ServerInv
<1> SUFFICES ASSUME Init, NEW t \in Task PROVE OutputInv(t)
  BY DEF ServerInv
<1>1. /\ hpc[t] = "new" /\ dpc[t] = "idle" /\ emitted[t] = 0 /\ texts[t] = {} /\ ops[t] = <<>>
      /\ outcome[t] = "ok" /\ tasks[t].history = <<>> /\ tasks[t].artifacts = <<>>
  BY DEF Init, TaskInit, NoTask
<1> QED
  BY <1>1, EmptyQueue DEF OutputInv, NothingYet, RecordOK, GivenUp, Stored

\* The steps of a request's handler leave what the drain has done.
LEMMA HandlerOutput ==
    ASSUME TypeOK, ServerInv, NEW t \in Task, HandlerStep(t) \/ Disconnect(t)
    PROVE  ServerInv'
<1> SUFFICES ASSUME NEW x \in Task PROVE OutputInv(x)'
  BY DEF ServerInv
<1>0. OutputInv(x)
  BY DEF ServerInv
<1> USE DEF TypeOK, ServerTypeOK
<1>1. UNCHANGED <<emitted, texts, ops, method, outcome>>
  BY DEF HandlerStep, Create, SetWorking, AnnounceWorking, StartRun, RecordInvocation,
         SubscribeStream, SubscribeRefused, StreamUpdate, Join, Disconnect
<1>2. ASSUME x # t PROVE OutputInv(x)'
  <2>1. hpc'[x] = hpc[x]
    <3>1. hpc' = hpc \/ \E to : hpc' = [hpc EXCEPT ![t] = to]
      BY DEF HandlerStep, Create, SetWorking, AnnounceWorking, StartRun, RecordInvocation,
         SubscribeStream, SubscribeRefused, StreamUpdate, Join, Disconnect, Handler
    <3> QED
      BY <1>2, <3>1
  <2>2. dpc'[x] = dpc[x]
    <3>1. dpc' = dpc \/ \E to : dpc' = [dpc EXCEPT ![t] = to]
      BY DEF HandlerStep, Create, SetWorking, AnnounceWorking, StartRun, RecordInvocation,
         SubscribeStream, SubscribeRefused, StreamUpdate, Join, Disconnect
    <3> QED
      BY <1>2, <3>1
  <2>3. tasks'[x] = tasks[x]
    <3>1. \/ tasks' = tasks
          \/ SetStatus(t, "working") \/ CreateTask(t, NewTask)
          \/ CreateTask(t, [NewTask EXCEPT !.invocation = TRUE])
      BY DEF HandlerStep, Create, SetWorking, AnnounceWorking, StartRun, RecordInvocation,
         SubscribeStream, SubscribeRefused, StreamUpdate, Join, Disconnect, Broadcast,
         Subscribe, Receive, Unsubscribe, taskVars
    <3> QED
      BY <1>2, <3>1 DEF SetStatus, CreateTask, TaskTypeOK
  <2> QED
    BY <1>0, <1>1, <2>1, <2>2, <2>3, OutputFrame
<1>3. ASSUME x = t, dpc[t] = "idle", dpc'[t] \in {"idle", "drain"}, hpc'[t] \in Early => dpc'[t] = "idle",
             tasks'[t].history = <<>>, tasks'[t].artifacts = <<>>
      PROVE  OutputInv(x)'
  <2>1. emitted'[t] = 0 /\ texts'[t] = {} /\ ops'[t] = <<>> /\ outcome'[t] # "error"
    BY <1>0, <1>1, <1>3 DEF OutputInv, NothingYet
  <2> QED
    BY <1>3, <2>1, EmptyQueue DEF OutputInv, NothingYet, RecordOK, GivenUp, Stored
<1>4. ASSUME x = t, dpc'[t] = dpc[t] \/ (dpc[t] = "drain" /\ dpc'[t] = "killed"),
             hpc'[t] \in Early => hpc[t] \in Early,
             tasks'[t].history = tasks[t].history, tasks'[t].artifacts = tasks[t].artifacts
      PROVE  OutputInv(x)'
  BY <1>0, <1>1, <1>4, OutputFrame
<1>5. ASSUME x = t, hpc[t] \in Early PROVE dpc[t] = "idle" /\ tasks[t].history = <<>> /\ tasks[t].artifacts = <<>>
  BY <1>0, <1>5 DEF OutputInv, NothingYet
<1>6. NewTask.history = <<>> /\ NewTask.artifacts = <<>>
  BY DEF NewTask, NoTask
<1>7. ASSUME x = t PROVE OutputInv(x)'
  <2>1. CASE Create(t)
    <3>1. tasks'[t] = NewTask /\ dpc' = dpc /\ hpc[t] = "new"
      BY <2>1 DEF Create, CreateTask, Handler, TaskTypeOK
    <3> QED
      BY <1>3, <1>5, <1>6, <1>7, <3>1 DEF Early
  <2>2. CASE RecordInvocation(t)
    <3>1. tasks'[t].history = <<>> /\ tasks'[t].artifacts = <<>>
      BY <1>6, <2>2 DEF RecordInvocation, CreateTask, TaskTypeOK, NewTask, NoTask
    <3>2. hpc[t] = "started"
      BY <2>2 DEF RecordInvocation, Handler
    <3>3. dpc'[t] = dpc[t] \/ (dpc'[t] = "drain" /\ hpc'[t] = "joining")
      BY <2>2 DEF RecordInvocation, Handler
    <3> QED
      BY <1>3, <1>5, <1>7, <3>1, <3>2, <3>3 DEF Early
  <2>3. CASE SubscribeStream(t)
    <3>1. dpc'[t] = "drain" /\ hpc[t] = "subscribing" /\ hpc'[t] = "streaming" /\ tasks' = tasks
      BY <2>3 DEF SubscribeStream, Handler, Subscribe
    <3> QED
      BY <1>3, <1>5, <1>7, <3>1 DEF Early
  <2>4. CASE SetWorking(t)
    <3>1. tasks'[t].history = tasks[t].history /\ tasks'[t].artifacts = tasks[t].artifacts
      BY <2>4 DEF SetWorking, SetStatus, TaskTypeOK, TaskRecord
    <3>2. dpc' = dpc /\ hpc[t] = "created"
      BY <2>4 DEF SetWorking, Handler
    <3> QED
      BY <1>4, <1>7, <3>1, <3>2 DEF Early
  <2>5. CASE AnnounceWorking(t)
    BY <1>4, <1>7, <2>5 DEF AnnounceWorking, Broadcast, Handler, Early
  <2>6. CASE StartRun(t)
    <3>1. tasks' = tasks /\ dpc' = dpc /\ hpc[t] = "starting"
      BY <2>6 DEF StartRun, Handler, taskVars
    <3> QED
      BY <1>4, <1>7, <3>1 DEF Early
  <2>7. CASE SubscribeRefused(t)
    BY <1>4, <1>7, <2>7 DEF SubscribeRefused, Handler, Early, taskVars
  <2>8. CASE StreamUpdate(t)
    <3>1. tasks' = tasks /\ dpc' = dpc /\ hpc'[t] \in {"streaming", "joining"}
      BY <2>8 DEF StreamUpdate, Receive
    <3> QED
      BY <1>4, <1>7, <3>1 DEF Early
  <2>9. CASE Join(t)
    BY <1>4, <1>7, <2>9 DEF Join, Unsubscribe, Handler, Early
  <2>10. CASE Disconnect(t)
    <3>1. tasks' = tasks /\ hpc'[t] = "gone"
      BY <2>10 DEF Disconnect, Unsubscribe
    <3>2. dpc'[t] = dpc[t] \/ (dpc[t] = "drain" /\ dpc'[t] = "killed")
      BY <2>10 DEF Disconnect
    <3> QED
      BY <1>4, <1>7, <3>1, <3>2 DEF Early
  <2> QED
    BY <2>1, <2>2, <2>3, <2>4, <2>5, <2>6, <2>7, <2>8, <2>9, <2>10 DEF HandlerStep
<1> QED
  BY <1>2, <1>7

\* The other calls touch only the state of a record.
LEMMA CallOutput ==
    ASSUME TypeOK, ServerInv, (\E c \in Canceller : CancelStep(c)) \/ (\E w \in Watcher : WatchStep(w))
    PROVE  ServerInv'
<1> SUFFICES ASSUME NEW x \in Task PROVE OutputInv(x)'
  BY DEF ServerInv
<1>1. UNCHANGED <<hpc, dpc, emitted, texts, ops, method, outcome>>
  BY DEF CancelStep, CancelRoute, CancelCheck, CancelSet, CancelAnnounce, WatchStep, WatchLook,
         WatchSubscribe, WatchUpdate
<1>2. tasks' = tasks \/ \E c \in Canceller : SetStatus(target[c], "canceled")
  BY DEF CancelStep, CancelRoute, CancelCheck, CancelSet, CancelAnnounce, WatchStep, WatchLook,
         WatchSubscribe, WatchUpdate, Broadcast, Subscribe, Receive, taskVars
<1>3. tasks'[x].history = tasks[x].history /\ tasks'[x].artifacts = tasks[x].artifacts
  <2>1. \A c \in Canceller : target[c] \in Task
    BY DEF TypeOK, ServerTypeOK
  <2> QED
    BY <1>2, <2>1, SetStatusKeeps DEF TypeOK
<1> QED
  BY <1>1, <1>3, OutputFrame DEF ServerInv

\* The steps of the drain.
LEMMA AbsorbOutput == ASSUME TypeOK, NEW t \in Task, OutputInv(t), Absorb(t) PROVE OutputInv(t)'
<1> DEFINE m == emitted[t]
           k == Stored(t)
           q == ops[t]
<1>1. /\ q \in Seq(Ops) /\ m \in Nat /\ m < MaxEvents /\ k \in Nat
  BY OutputTypes DEF Absorb
<1>2. dpc[t] = "drain" /\ ~ GivenUp(t) /\ NothingYet(t)
  BY DEF Absorb, OutputInv, NothingYet, GivenUp
<1>3. /\ QueueOK(q, k, m, texts[t]) /\ k <= m /\ texts[t] \in SUBSET (1 .. m)
      /\ tasks[t].history = Numbers(k) /\ tasks[t].artifacts = Selected(Numbers(k), texts[t] \ ChunksFrom(q, 1))
  BY <1>2 DEF OutputInv, RecordOK, Waiting
<1>4. /\ dpc' = dpc /\ hpc' = hpc /\ method' = method /\ tasks' = tasks
      /\ emitted'[t] = m + 1 /\ (outcome'[t] = "paused" \/ outcome'[t] = outcome[t])
  BY DEF Absorb, TypeOK, ServerTypeOK, taskVars
<1>5. \/ ops'[t] = q \o <<Message(m + 1), Chunk(m + 1)>> /\ texts'[t] = texts[t] \cup {m + 1}
      \/ ops'[t] = Append(q, Message(m + 1)) /\ texts'[t] = texts[t]
  BY DEF Absorb, TypeOK, ServerTypeOK
<1>6. /\ Append(q, Message(m + 1)) \in Seq(Ops)
      /\ QueueOK(Append(q, Message(m + 1)), k, m + 1, texts[t])
      /\ ChunksFrom(Append(q, Message(m + 1)), 1) = ChunksFrom(q, 1)
  BY <1>1, <1>3, QueueMessage
<1>7. q \o <<Message(m + 1), Chunk(m + 1)>> = Append(Append(q, Message(m + 1)), Chunk(m + 1))
  <2>1. m + 1 \in 1 .. MaxEvents
    BY <1>1, MaxEventsAssumption
  <2>2. Message(m + 1) \in Ops /\ Chunk(m + 1) \in Ops
    BY <2>1, OpFacts
  <2> QED
    BY <1>1, <2>2, ConcatTwo
<1>8. /\ QueueOK(q \o <<Message(m + 1), Chunk(m + 1)>>, k, m + 1, texts[t] \cup {m + 1})
      /\ ChunksFrom(q \o <<Message(m + 1), Chunk(m + 1)>>, 1) = ChunksFrom(q, 1) \cup {m + 1}
  <2>1. m + 1 \in 1 .. MaxEvents /\ k < m + 1 /\ texts[t] \in SUBSET (1 .. (m + 1) - 1)
    BY <1>1, <1>3, MaxEventsAssumption
  <2> QED
    <3> DEFINE r == Append(q, Message(m + 1))
               j == m + 1
    <3>1. r \in Seq(Ops) /\ QueueOK(r, k, j, texts[t]) /\ k \in Nat /\ j \in 1 .. MaxEvents /\ k < j
          /\ texts[t] \in SUBSET (1 .. j - 1) /\ ChunksFrom(r, 1) = ChunksFrom(q, 1)
      BY <1>1, <1>6, <2>1
    <3> HIDE DEF r, j, k, q
    <3>2. QueueOK(Append(r, Chunk(j)), k, j, texts[t] \cup {j})
          /\ ChunksFrom(Append(r, Chunk(j)), 1) = ChunksFrom(r, 1) \cup {j}
      BY <3>1, QueueChunk
    <3> QED
      BY <1>7, <3>1, <3>2 DEF r, j
<1>9. texts'[t] \subseteq 1 .. m + 1
  BY <1>1, <1>3, <1>5
<1>10. /\ QueueOK(ops'[t], k, m + 1, texts'[t])
       /\ \A n \in 1 .. k : n \in texts'[t] \ ChunksFrom(ops'[t], 1) <=> n \in texts[t] \ ChunksFrom(q, 1)
  <2>1. \A n \in 1 .. k : n # m + 1
    BY <1>1, <1>3
  <2> QED
    BY <1>5, <1>6, <1>8, <2>1
<1> HIDE DEF m, k, q
<1>11. tasks[t].artifacts = Selected(Numbers(k), texts'[t] \ ChunksFrom(ops'[t], 1))
  BY <1>1, <1>3, <1>10, NumbersSelected
<1>12. Stored(t)' = k /\ Waiting(t)' = ChunksFrom(ops'[t], 1)
  BY <1>2, <1>4 DEF Stored, Waiting, k
<1>13. NothingYet(t)'
  BY <1>2, <1>4 DEF NothingYet
<1> QED
  BY <1>1, <1>2, <1>3, <1>4, <1>9, <1>10, <1>11, <1>12, <1>13 DEF OutputInv, RecordOK

LEMMA ApplyOutput == ASSUME TypeOK, NEW t \in Task, OutputInv(t), Apply(t) PROVE OutputInv(t)'
<1> DEFINE m == emitted[t]
           k == Stored(t)
           q == ops[t]
           T == texts[t]
<1>0. /\ UNCHANGED <<hpc, method, outcome, texts, emitted>> /\ dpc[t] = "apply" /\ q # <<>>
      /\ dpc'[t] \in {"apply", "announce"} /\ NothingYet(t)
  BY DEF Apply, Drain, OutputInv, TypeOK, ServerTypeOK
<1>1. NothingYet(t)'
  BY <1>0 DEF NothingYet, Early
<1>2. CASE GivenUp(t)
  BY <1>0, <1>1, <1>2 DEF OutputInv, GivenUp
<1> SUFFICES ASSUME ~ GivenUp(t) PROVE OutputInv(t)'
  BY <1>2
<1>3. /\ q \in Seq(Ops) /\ m \in Nat /\ k \in Nat /\ tasks[t].artifacts \in Seq(Nat)
      /\ QueueOK(q, k, m, T) /\ k <= m /\ T \in SUBSET (1 .. m)
      /\ tasks[t].history = Numbers(k) /\ tasks[t].artifacts = Selected(Numbers(k), T \ ChunksFrom(q, 1))
  BY <1>0, OutputTypes DEF OutputInv, RecordOK, Waiting
<1>4. CASE Head(q).op = "history"
  <2>1. /\ Head(q).event = k + 1 /\ k + 1 <= m /\ QueueOK(Tail(q), k + 1, m, T)
        /\ ChunksFrom(Tail(q), 1) = ChunksFrom(q, 1)
    BY <1>0, <1>3, <1>4, QueueWriteMessage
  <2>2. dpc'[t] = "apply" /\ ops'[t] = Tail(q) /\ AppendHistory(t, k + 1)
    BY <1>4, <2>1 DEF Apply, Drain, TypeOK, ServerTypeOK
  <2>3. tasks'[t].history = Append(tasks[t].history, k + 1) /\ tasks'[t].artifacts = tasks[t].artifacts
    BY <2>2 DEF AppendHistory, TypeOK, TaskTypeOK, TaskRecord
  <2>4. tasks'[t].history = Numbers(k + 1) /\ Stored(t)' = k + 1
    <3>1. k \in Nat /\ tasks'[t].history = Append(Numbers(k), k + 1)
      BY <1>3, <2>3
    <3> HIDE DEF k
    <3>2. tasks'[t].history = Numbers(k + 1) /\ Len(Numbers(k + 1)) = k + 1
      BY <3>1, NumbersFacts
    <3> QED
      BY <3>2 DEF Stored
  <2>5. k + 1 \in T => k + 1 \in ChunksFrom(q, 1)
    BY <1>3 DEF QueueOK
  <2>6. tasks'[t].artifacts = Selected(Numbers(k + 1), T \ ChunksFrom(q, 1))
    <3> DEFINE W == ChunksFrom(q, 1)
    <3>1. k \in Nat /\ (k + 1 \in T => k + 1 \in W) /\ tasks'[t].artifacts = Selected(Numbers(k), T \ W)
      BY <1>3, <2>3, <2>5
    <3> HIDE DEF k, T, W
    <3>2. tasks'[t].artifacts = Selected(Numbers(k + 1), T \ W)
      BY <3>1, ArtifactsWithout
    <3> QED
      BY <3>2 DEF W
  <2>7. Waiting(t)' = ChunksFrom(q, 1)
    BY <2>1, <2>2 DEF Waiting
  <2> QED
    BY <1>0, <1>1, <1>3, <2>1, <2>2, <2>4, <2>6, <2>7 DEF OutputInv, RecordOK
<1>5. CASE Head(q).op = "artifact"
  <2>1. Head(q).event = k /\ k \in T /\ k \in ChunksFrom(q, 1) /\ ChunksFrom(Tail(q), 1) = ChunksFrom(q, 1) \ {k}
    BY <1>0, <1>3, <1>5, QueueWriteChunk
  <2>2. dpc'[t] = "announce" /\ ops'[t] = q /\ AppendArtifact(t, k)
    BY <1>5, <2>1 DEF Apply, Drain, TypeOK, ServerTypeOK
  <2>3. tasks'[t].artifacts = Append(tasks[t].artifacts, k) /\ tasks'[t].history = tasks[t].history
    BY <2>2 DEF AppendArtifact, TypeOK, TaskTypeOK, TaskRecord
  <2>4. Waiting(t)' = ChunksFrom(q, 1) \ {k} /\ Stored(t)' = k
    BY <1>0, <1>3, <2>1, <2>2, <2>3, TailOf DEF Waiting, Stored
  <2>5. tasks'[t].artifacts = Selected(Numbers(k), T \ (ChunksFrom(q, 1) \ {k}))
    <3>1. k \in Nat \ {0} /\ ChunksFrom(q, 1) \cup {k} = ChunksFrom(q, 1)
      BY <1>3, <2>1
    <3> QED
      <4> DEFINE W == ChunksFrom(q, 1)
      <4>1. /\ k \in Nat \ {0} /\ k \in T /\ W \cup {k} = W
            /\ tasks'[t].artifacts = Append(Selected(Numbers(k), T \ W), k)
        BY <1>3, <2>1, <2>3, <3>1
      <4> HIDE DEF k, T, W
      <4>2. tasks'[t].artifacts = Selected(Numbers(k), T \ (W \ {k}))
        BY <4>1, ArtifactsWith
      <4> QED
        BY <4>2 DEF W
  <2> QED
    BY <1>0, <1>1, <1>3, <1>5, <2>2, <2>3, <2>4, <2>5 DEF OutputInv, RecordOK
<1> QED
  <2>1. Head(q) \in Ops
    BY <1>0, <1>3
  <2> QED
    BY <1>4, <1>5, <2>1, OpFacts

LEMMA AnnounceOutput == ASSUME TypeOK, NEW t \in Task, OutputInv(t), AnnounceArtifact(t) PROVE OutputInv(t)'
<1> DEFINE m == emitted[t]
           k == Stored(t)
           q == ops[t]
           T == texts[t]
<1>0. /\ UNCHANGED <<hpc, method, outcome, texts, emitted, tasks>> /\ dpc[t] = "announce"
      /\ dpc'[t] = "apply" /\ ops'[t] = Tail(q) /\ NothingYet(t)
  BY DEF AnnounceArtifact, Drain, Broadcast, OutputInv, TypeOK, ServerTypeOK
<1>1. NothingYet(t)'
  BY <1>0 DEF NothingYet, Early
<1>2. CASE GivenUp(t)
  BY <1>0, <1>1, <1>2 DEF OutputInv, GivenUp
<1>3. CASE ~ GivenUp(t)
  <2>1. /\ q \in Seq(Ops) /\ m \in Nat /\ k \in Nat /\ QueueOK(q, k, m, T) /\ k <= m /\ T \in SUBSET (1 .. m)
        /\ q # <<>> /\ Head(q).op = "artifact" /\ RecordOK(t) /\ Waiting(t) = ChunksFrom(q, 2)
    BY <1>0, <1>3, OutputTypes DEF OutputInv, RecordOK, Waiting
  <2>2. QueueOK(Tail(q), k, m, T) /\ ChunksFrom(Tail(q), 1) = ChunksFrom(q, 2)
    BY <2>1, QueueWriteChunk, TailOf
  <2>3. Stored(t)' = k /\ Waiting(t)' = Waiting(t)
    BY <1>0, <2>1, <2>2 DEF Stored, Waiting
  <2> QED
    BY <1>0, <1>1, <1>3, <2>1, <2>2, <2>3 DEF OutputInv, RecordOK
<1> QED
  BY <1>2, <1>3

\* The end of the drain, in its steps.
LEMMA EndOutput ==
    ASSUME TypeOK, NEW t \in Task, OutputInv(t),
           StreamEnded(t) \/ StreamFailed(t) \/ Applied(t) \/ SetFinal(t) \/ AnnounceFinal(t)
    PROVE  OutputInv(t)'
<1> USE DEF TypeOK, ServerTypeOK
<1>1. CASE StreamEnded(t)
  <2>1. /\ UNCHANGED <<hpc, method, outcome, texts, emitted, tasks, ops>>
        /\ dpc[t] = "drain" /\ dpc'[t] = "apply"
    BY <1>1 DEF StreamEnded, Drain, taskVars
  <2> QED
    BY <2>1, OutputFrame
<1>2. CASE StreamFailed(t)
  <2>1. /\ UNCHANGED <<hpc, method, texts, emitted, tasks>> /\ outcome'[t] = "error"
        /\ dpc[t] = "drain" /\ dpc'[t] \in {"settle", "apply"}
        /\ dpc'[t] = "settle" => method[t] = "send" /\ ops'[t] = <<>>
        /\ dpc'[t] = "apply" => method[t] # "send" /\ ops'[t] = ops[t]
    BY <1>2 DEF StreamFailed, Drain, taskVars
  <2>2. NothingYet(t) /\ ~ GivenUp(t)
    BY <2>1 DEF OutputInv, NothingYet, GivenUp
  <2>3. NothingYet(t)'
    BY <2>1, <2>2 DEF NothingYet, Early
  <2>4. CASE dpc'[t] = "settle"
    BY <2>1, <2>3, <2>4 DEF OutputInv, GivenUp
  <2>5. CASE dpc'[t] = "apply"
    <3>1. Waiting(t)' = Waiting(t) /\ Stored(t)' = Stored(t)
      BY <2>1, <2>5 DEF Waiting, Stored
    <3> QED
      BY <2>1, <2>2, <2>3, <2>5, <3>1 DEF OutputInv, RecordOK, GivenUp
  <2> QED
    BY <2>1, <2>4, <2>5
<1>3. CASE Applied(t) \/ SetFinal(t) \/ AnnounceFinal(t)
  <2>1. /\ UNCHANGED <<hpc, method, outcome, texts, emitted, ops>> /\ ops[t] = <<>>
        /\ dpc[t] \in {"apply", "settle", "finish"} /\ dpc'[t] \in {"settle", "finish", "over"}
    <3>1. CASE Applied(t)
      BY <3>1 DEF Applied, Drain, OutputInv
    <3>2. CASE SetFinal(t)
      BY <3>2 DEF SetFinal, Drain, OutputInv
    <3>3. CASE AnnounceFinal(t)
      BY <3>3 DEF AnnounceFinal, Drain, OutputInv
    <3> QED
      BY <1>3, <3>1, <3>2, <3>3
  <2>2. tasks'[t].history = tasks[t].history /\ tasks'[t].artifacts = tasks[t].artifacts
    BY <1>3, SetStatusKeeps DEF Applied, SetFinal, AnnounceFinal, Broadcast, taskVars
  <2>3. NothingYet(t)'
    BY <2>1 DEF OutputInv, NothingYet, Early
  <2>4. Waiting(t)' = Waiting(t) /\ Stored(t)' = Stored(t)
    BY <2>1, <2>2 DEF Waiting, Stored
  <2> QED
    BY <2>1, <2>2, <2>3, <2>4 DEF OutputInv, RecordOK, GivenUp
<1> QED
  BY <1>1, <1>2, <1>3

LEMMA DrainOutput == ASSUME TypeOK, ServerInv, NEW t \in Task, DrainStep(t) PROVE ServerInv'
<1> SUFFICES ASSUME NEW x \in Task PROVE OutputInv(x)'
  BY DEF ServerInv
<1>1. OutputInv(x)
  BY DEF ServerInv
<1>2. CASE x = t
  BY <1>1, <1>2, AbsorbOutput, ApplyOutput, AnnounceOutput, EndOutput DEF DrainStep
<1>3. CASE x # t
  <2> USE DEF TypeOK, ServerTypeOK
  <2>1. method' = method /\ hpc' = hpc
    BY DEF DrainStep, Absorb, StreamEnded, StreamFailed, Apply, AnnounceArtifact, Applied, SetFinal, AnnounceFinal
  <2>2. dpc' = dpc \/ \E to : dpc' = [dpc EXCEPT ![t] = to]
    BY DEF DrainStep, Absorb, StreamEnded, StreamFailed, Apply, AnnounceArtifact, Applied, SetFinal, AnnounceFinal,
           Drain
  <2>3. /\ emitted' = emitted \/ \E to : emitted' = [emitted EXCEPT ![t] = to]
        /\ texts' = texts \/ \E to : texts' = [texts EXCEPT ![t] = to]
        /\ outcome' = outcome \/ \E to : outcome' = [outcome EXCEPT ![t] = to]
    BY DEF DrainStep, Absorb, StreamEnded, StreamFailed, Apply, AnnounceArtifact, Applied, SetFinal, AnnounceFinal
  <2>4. ops' = ops \/ \E to : ops' = [ops EXCEPT ![t] = to]
    BY DEF DrainStep, Absorb, StreamEnded, StreamFailed, Apply, AnnounceArtifact, Applied, SetFinal, AnnounceFinal
  <2>5. tasks' = tasks \/ \E to : tasks' = [tasks EXCEPT ![t] = to]
    BY DEF DrainStep, Absorb, StreamEnded, StreamFailed, Apply, AnnounceArtifact, Applied, SetFinal, AnnounceFinal,
           AppendHistory, AppendArtifact, Broadcast, SetStatus, taskVars
  <2>6. /\ dpc'[x] = dpc[x] /\ emitted'[x] = emitted[x] /\ texts'[x] = texts[x]
        /\ outcome'[x] = outcome[x] /\ ops'[x] = ops[x] /\ tasks'[x] = tasks[x]
    BY <1>3, <2>2, <2>3, <2>4, <2>5 DEF TaskTypeOK
  <2> QED
    BY <1>1, <2>1, <2>6, OutputFrame
<1> QED
  BY <1>2, <1>3

LEMMA ServerInvNext == TypeOK /\ ServerInv /\ [Next]_vars => ServerInv'
<1>1. ASSUME ServerInv, UNCHANGED vars PROVE ServerInv'
  BY <1>1, OutputFrame DEF ServerInv, vars, serverVars, taskVars
<1> QED
  BY <1>1, HandlerOutput, DrainOutput, CallOutput DEF Next

\* Once a run has settled its task, the task holds everything the run emitted
\* (server.rs:381-406, server.rs:488-502).
THEOREM AllOutputSettled == Spec => []SettledHasAllOutput
<1>1. TypeOK /\ HasHead /\ ServerInv /\ [Next]_vars => (TypeOK /\ HasHead /\ ServerInv)'
  BY ServerNextTypes, ServerInvNext
<1> QED
  BY <1>1, ServerInitTypes, ServerInvInit, ServerInvGives, PTL DEF Spec

-----------------------------------------------------------------------------
(* The client.                                                             *)

\* What a call hears of a streamed run, one event or notice more at a time.
EventsOf(h) == {h[i].event : i \in {j \in DOMAIN h : h[j].what = "event"}}

LEMMA HeardMore ==
    ASSUME NEW h \in Seq(Said), NEW s \in Said
    PROVE  /\ h \o <<s>> \in Seq(Said) /\ h \o <<>> = h
           /\ Len(h \o <<s>>) = Len(h) + 1 /\ (h \o <<s>>)[Len(h) + 1] = s
           /\ EventsOf(h) \subseteq EventsOf(h \o <<s>>)
           /\ s.what = "event" => s.event \in EventsOf(h \o <<s>>)
           /\ Range(h \o <<s>>) = Range(h) \cup {s}
<1> DEFINE g == h \o <<s>>
<1>1. /\ g \in Seq(Said) /\ h \o <<>> = h /\ Len(g) = Len(h) + 1 /\ Len(h) \in Nat
      /\ g[Len(h) + 1] = s /\ \A i \in 1 .. Len(h) : g[i] = h[i]
  OBVIOUS
<1>2. DOMAIN g = 1 .. Len(h) + 1 /\ DOMAIN h = 1 .. Len(h)
  BY <1>1
<1> HIDE DEF g
<1>3. EventsOf(h) \subseteq EventsOf(g) /\ (s.what = "event" => s.event \in EventsOf(g))
  <2>1. ASSUME NEW e \in EventsOf(h) PROVE e \in EventsOf(g)
    <3>1. PICK i \in DOMAIN h : h[i].what = "event" /\ e = h[i].event
      BY DEF EventsOf
    <3>2. i \in DOMAIN g /\ g[i] = h[i]
      BY <1>1, <1>2
    <3> QED
      BY <3>1, <3>2 DEF EventsOf
  <2>2. ASSUME s.what = "event" PROVE s.event \in EventsOf(g)
    <3>1. Len(h) + 1 \in DOMAIN g
      BY <1>1, <1>2
    <3> QED
      BY <1>1, <2>2, <3>1 DEF EventsOf
  <2> QED
    BY <2>1, <2>2
<1>4. Range(g) = Range(h) \cup {s}
  <2>1. \A i \in DOMAIN g : i \in DOMAIN h \/ i = Len(h) + 1
    BY <1>1, <1>2
  <2>2. \A i \in DOMAIN h : i \in DOMAIN g
    BY <1>1, <1>2
  <2>3. Len(h) + 1 \in DOMAIN g
    BY <1>1, <1>2
  <2>4. Range(g) \subseteq Range(h) \cup {s}
    BY <1>1, <1>2, <2>1 DEF Range
  <2>5. Range(h) \subseteq Range(g)
    BY <1>1, <1>2, <2>2 DEF Range
  <2>6. s \in Range(g)
    BY <1>1, <2>3 DEF Range
  <2> QED
    BY <2>4, <2>5, <2>6
<1> QED
  BY <1>1, <1>3, <1>4 DEF g

\* What an update says.
LEMMA SaysTypes ==
    ASSUME NEW t, NEW u \in Update, u.kind = "artifact" => u.event \in 1 .. MaxEvents
    PROVE  \/ StreamResultToEvents(t, u) = <<>>
           \/ \E s \in Said : StreamResultToEvents(t, u) = <<s>>
<1>1. Notice \in Said
  BY DEF Notice, Said
<1>2. u.kind = "artifact" => Says(u.event, u.event \notin Turns) \in Said
  BY DEF Says, Said
<1> QED
  BY <1>1, <1>2 DEF StreamResultToEvents

\* A step with the client is a step of the server.
LEMMA ClientStepsServer == [ClientNext]_allVars => [Next]_vars
<1> SUFFICES ASSUME [ClientNext]_allVars PROVE [Next]_vars
  OBVIOUS
<1>1. CASE UNCHANGED allVars
  BY <1>1 DEF allVars
<1>2. ASSUME NEW t \in Task,
             Dispatch(t) \/ Refused(t) \/ ReadFrame(t) \/ ReadAnswer(t) \/ Break(t) \/ Unseen(t)
      PROVE  Next
  <2>1. HandlerStep(t) \/ DrainStep(t) \/ Disconnect(t)
    BY <1>2 DEF Dispatch, Refused, ReadFrame, ReadAnswer, Break, Unseen, HandlerStep
  <2> QED
    BY <2>1 DEF Next
<1>3. CASE Elsewhere
  BY <1>3 DEF Elsewhere, Next
<1> QED
  BY <1>1, <1>2, <1>3 DEF ClientNext

\* The agent of a remote client and its server implement the server: a client only
\* chooses among the server's steps (client.rs:255-285).
THEOREM ClientRefinesServer == ClientSpec => Spec
BY ClientStepsServer, PTL DEF ClientSpec, ClientInit, Spec

\* The updates that are on their way are about events of the run.
Fit == {u \in Update : u.kind = "artifact" => u.event \in 1 .. MaxEvents}

QueueFits == queue \in [Receiver -> Seq(Fit)]

\* What the server broadcasts.
LEMMA SentFits ==
    ASSUME NEW t \in Task, TypeOK
    PROVE  /\ FinalState(t) \in {"failed", "input_required", "completed"}
           /\ FinalState(t) \in {"failed", "input_required"} <=> outcome[t] # "ok"
           /\ \A state \in TaskState, final \in BOOLEAN : Status(state, final) \in Fit
           /\ ops[t] # <<>> => ArtifactUpdate(t, Head(ops[t]).event) \in Fit
<1>1. outcome[t] \in {"ok", "paused", "error"}
  BY DEF TypeOK, ServerTypeOK
<1>2. /\ FinalState(t) \in {"failed", "input_required", "completed"}
      /\ FinalState(t) \in {"failed", "input_required"} <=> outcome[t] # "ok"
  BY <1>1 DEF FinalState
<1>3. \A state \in TaskState, final \in BOOLEAN : Status(state, final) \in Fit
  BY DEF Status, Fit, Update
<1>4. ASSUME ops[t] # <<>> PROVE ArtifactUpdate(t, Head(ops[t]).event) \in Fit
  <2>1. Head(ops[t]) \in Ops
    BY <1>4 DEF TypeOK, ServerTypeOK
  <2>2. Head(ops[t]).event \in 1 .. MaxEvents /\ Head(ops[t]).event \in Nat
    BY <2>1, OpFacts
  <2> QED
    BY <2>2 DEF ArtifactUpdate, Artifact, Update, Fit
<1> QED
  BY <1>2, <1>3, <1>4

\* How a queue changes.
LEMMA QueueMoves ==
    ASSUME TypeOK, HasHead, Next
    PROVE  \/ queue' = queue
           \/ \E t \in Task, u \in Fit : Broadcast(t, u)
           \/ \E x \in Receiver : Receive(x) \/ Unsubscribe(x) \/ \E t \in Task : Subscribe(x, t)
<1>0. Task \subseteq Receiver /\ Watcher \subseteq Receiver
  BY ReceiverAssumption
<1>1. ASSUME NEW t \in Task, HandlerStep(t) \/ Disconnect(t)
      PROVE  queue' = queue \/ Broadcast(t, Status("working", FALSE)) \/ Receive(t) \/ Unsubscribe(t) \/ Subscribe(t, t)
  BY <1>1 DEF HandlerStep, Create, SetWorking, AnnounceWorking, StartRun, RecordInvocation,
         SubscribeStream, SubscribeRefused, StreamUpdate, Join, Disconnect, CreateTask, SetStatus, taskVars
<1>2. ASSUME NEW t \in Task, DrainStep(t)
      PROVE  queue' = queue \/ \E u \in Fit : Broadcast(t, u)
  <2>1. CASE AnnounceArtifact(t)
    <3>1. ops[t] # <<>>
      BY <2>1 DEF AnnounceArtifact, Drain, HasHead
    <3> QED
      BY <2>1, <3>1, SentFits DEF AnnounceArtifact
  <2>2. CASE AnnounceFinal(t)
    <3>1. FinalState(t) \in TaskState
      BY SentFits DEF TaskState
    <3> QED
      BY <2>2, <3>1, SentFits DEF AnnounceFinal
  <2>3. CASE ~ AnnounceArtifact(t) /\ ~ AnnounceFinal(t)
    BY <1>2, <2>3 DEF DrainStep, Absorb, StreamEnded, StreamFailed, Apply, Applied, SetFinal,
       AppendHistory, AppendArtifact, SetStatus, taskVars
  <2> QED
    BY <2>1, <2>2, <2>3
<1>3. ASSUME NEW c \in Canceller, CancelStep(c)
      PROVE  queue' = queue \/ \E t \in Task, u \in Fit : Broadcast(t, u)
  <2>1. Status("canceled", TRUE) \in Fit /\ target[c] \in Task
    BY DEF Status, Fit, Update, TaskState, TypeOK, ServerTypeOK
  <2>2. queue' = queue \/ Broadcast(target[c], Status("canceled", TRUE))
    BY <1>3 DEF CancelStep, CancelRoute, CancelCheck, CancelSet, CancelAnnounce, SetStatus, taskVars
  <2> QED
    BY <2>1, <2>2
<1>4. ASSUME NEW w \in Watcher, WatchStep(w)
      PROVE  queue' = queue \/ Receive(w) \/ \E t \in Task : Subscribe(w, t)
  <2>1. target[w] \in Task
    BY DEF TypeOK, ServerTypeOK
  <2> QED
    BY <1>4, <2>1 DEF WatchStep, WatchLook, WatchSubscribe, WatchUpdate, taskVars
<1>5. Status("working", FALSE) \in Fit
  BY DEF Status, Fit, Update, TaskState
<1> QED
  BY <1>0, <1>1, <1>2, <1>3, <1>4, <1>5 DEF Next

LEMMA QueueKeepsFit == TypeOK /\ HasHead /\ QueueFits /\ [Next]_vars => QueueFits'
<1> SUFFICES ASSUME TypeOK, HasHead, QueueFits, Next PROVE QueueFits'
  BY DEF QueueFits, vars, taskVars
<1>1. CASE queue' = queue
  BY <1>1 DEF QueueFits
<1>2. ASSUME NEW t \in Task, NEW u \in Fit, Broadcast(t, u) PROVE QueueFits'
  BY <1>2, PushedTypes DEF QueueFits, Broadcast
<1>3. ASSUME NEW x \in Receiver, Receive(x) \/ Unsubscribe(x) \/ \E t \in Task : Subscribe(x, t) PROVE QueueFits'
  <2>1. queue[x] # <<>> => Tail(queue[x]) \in Seq(Fit)
    BY DEF QueueFits
  <2>2. <<>> \in Seq(Fit)
    OBVIOUS
  <2> QED
    BY <1>3, <2>1, <2>2 DEF QueueFits, Receive, Unsubscribe, Subscribe
<1> QED
  BY <1>1, <1>2, <1>3, QueueMoves

LEMMA ClientInitTypes == ClientInit => ClientTypeOK /\ QueueFits
<1>1. <<>> \in Seq(Fit) /\ <<>> \in Seq(Said)
  OBVIOUS
<1> QED
  BY <1>1 DEF ClientInit, Init, TaskInit, ClientTypeOK, QueueFits

\* The history that message/send answers.
LEMMA AnswerTypes ==
    ASSUME TypeOK, ServerInv, NEW t \in Task, outcome[t] # "error"
    PROVE  TaskToEvents(t) \in Seq(Said)
<1>1. /\ tasks[t].history = Numbers(Stored(t)) /\ Stored(t) \in Nat /\ Stored(t) <= emitted[t]
      /\ emitted[t] \in Nat /\ emitted[t] <= MaxEvents
  BY OutputTypes DEF ServerInv, OutputInv, GivenUp, RecordOK
<1>2. \A i \in 1 .. Stored(t) : tasks[t].history[i] \in 1 .. MaxEvents
  <2>1. \A i \in 1 .. Stored(t) : Numbers(Stored(t))[i] = i
    BY <1>1, NumbersFacts
  <2> QED
    BY <1>1, <2>1, MaxEventsAssumption
<1>3. \A i \in 1 .. Len(tasks[t].history) : Says(tasks[t].history[i], FALSE) \in Said
  BY <1>2 DEF Says, Said, Stored
<1>4. Len(tasks[t].history) \in Nat
  BY <1>1 DEF Stored
<1> QED
  <2>1. TaskToEvents(t) \in [1 .. Len(tasks[t].history) -> Said]
    BY <1>3 DEF TaskToEvents
  <2> QED
    BY <1>4, <2>1

LEMMA FrameSays ==
    ASSUME QueueFits, TypeOK, NEW t \in Task, queue[t] # <<>>
    PROVE  /\ Head(queue[t]) = queue[t][1] /\ Head(queue[t]) \in Fit
           /\ \/ StreamResultToEvents(t, Head(queue[t])) = <<>>
              \/ \E s \in Said : StreamResultToEvents(t, Head(queue[t])) = <<s>>
<1>1. queue[t] \in Seq(Fit)
  BY ReceiverAssumption DEF QueueFits
<1>2. Head(queue[t]) \in Fit /\ Head(queue[t]) = queue[t][1]
  BY <1>1
<1>3. Head(queue[t]) \in Update /\ (Head(queue[t]).kind = "artifact" => Head(queue[t]).event \in 1 .. MaxEvents)
  BY <1>2 DEF Fit
<1> QED
  BY <1>2, <1>3, SaysTypes

LEMMA ClientNextTypes ==
    TypeOK /\ HasHead /\ ServerInv /\ QueueFits /\ ClientTypeOK /\ [ClientNext]_allVars => ClientTypeOK'
<1> SUFFICES ASSUME TypeOK, HasHead, ServerInv, QueueFits, ClientTypeOK, ClientNext PROVE ClientTypeOK'
  BY DEF ClientTypeOK, allVars, clientVars
<1>1. ASSUME UNCHANGED clientVars PROVE ClientTypeOK'
  BY <1>1 DEF ClientTypeOK, clientVars
<1>2. ASSUME NEW t \in Task, Dispatch(t) \/ Refused(t) \/ Break(t) PROVE ClientTypeOK'
  <2>1. heard' = heard /\ \E to \in {"waiting", "failed", call[t]} : call' = [call EXCEPT ![t] = to]
    BY <1>2 DEF Dispatch, Refused, Break, Becomes
  <2> QED
    BY <2>1 DEF ClientTypeOK
<1>3. ASSUME NEW t \in Task, ReadFrame(t) PROVE ClientTypeOK'
  <2>1. queue[t] # <<>>
    BY <1>3 DEF ReadFrame, StreamUpdate, Receive
  <2>2. heard[t] \o StreamResultToEvents(t, Head(queue[t])) \in Seq(Said)
    <3>1. heard[t] \in Seq(Said)
      BY DEF ClientTypeOK
    <3> QED
      <4>1. Notice \in Said
        BY DEF Notice, Said
      <4>2. CASE StreamResultToEvents(t, Head(queue[t])) = <<>>
        BY <3>1, <4>1, <4>2, HeardMore
      <4>3. ASSUME NEW s \in Said, StreamResultToEvents(t, Head(queue[t])) = <<s>>
            PROVE  heard[t] \o StreamResultToEvents(t, Head(queue[t])) \in Seq(Said)
        BY <3>1, <4>3, HeardMore
      <4> QED
        BY <2>1, <4>2, <4>3, FrameSays
  <2>3. heard' = [heard EXCEPT ![t] = heard[t] \o StreamResultToEvents(t, Head(queue[t]))]
    BY <1>3 DEF ReadFrame
  <2>4. \E to \in {"over", call[t]} : call' = [call EXCEPT ![t] = to]
    BY <1>3 DEF ReadFrame
  <2> QED
    BY <2>2, <2>3, <2>4 DEF ClientTypeOK
<1>4. ASSUME NEW t \in Task, ReadAnswer(t) PROVE ClientTypeOK'
  <2>1. CASE outcome[t] = "error" \/ method[t] = "stream"
    BY <1>1, <1>4, <2>1 DEF ReadAnswer, Becomes, ClientTypeOK
  <2>2. CASE outcome[t] # "error" /\ method[t] # "stream"
    <3>1. call' = [call EXCEPT ![t] = "over"] /\ heard' = [heard EXCEPT ![t] = TaskToEvents(t)]
      BY <1>4, <2>2 DEF ReadAnswer, Becomes
    <3> QED
      BY <2>2, <3>1, AnswerTypes DEF ClientTypeOK
  <2> QED
    BY <2>1, <2>2
<1> QED
  BY <1>1, <1>2, <1>3, <1>4 DEF ClientNext, Unseen, Elsewhere

\* What a state of the whole is, whatever the client has heard.
SystemInv == TypeOK /\ HasHead /\ ServerInv /\ QueueFits /\ ClientTypeOK

LEMMA SystemInvHolds == ClientSpec => []SystemInv
<1>1. ClientInit => SystemInv
  BY ClientInitTypes, ServerInitTypes, ServerInvInit DEF ClientInit, SystemInv
<1>2. SystemInv /\ [ClientNext]_allVars => SystemInv'
  BY ClientStepsServer, ServerNextTypes, ServerInvNext, QueueKeepsFit, ClientNextTypes DEF SystemInv
<1> QED
  BY <1>1, <1>2, PTL DEF ClientSpec

\* Every state of a client and its server is type correct (client.rs, server.rs).
THEOREM ClientTypeCorrect == ClientSpec => []AllTypeOK
<1>1. SystemInv => AllTypeOK
  BY DEF SystemInv, AllTypeOK
<1> QED
  BY <1>1, SystemInvHolds, PTL

-----------------------------------------------------------------------------
(* What a streamed run tells.                                              *)

\* Whom a streaming call listens to, and where its handler is.
CallInv(t) ==
    /\ subscribed[t] \in {t, Nobody}
    /\ hpc[t] = "streaming" => subscribed[t] = t
    /\ hpc[t] \in Early => heard[t] = <<>>
    /\ method[t] = "stream" /\ call[t] = "waiting" => hpc[t] \in Early \cup {"streaming"}

\* No status is on its way to it before the final one.
QueueTells(t) ==
    \A i \in 1 .. Len(queue[t]) : queue[t][i].kind = "status" =>
        i = Len(queue[t]) /\ dpc[t] = "over" /\ queue[t][i] = Status(FinalState(t), TRUE)

Announced(t) == texts[t] \ Queued(t)
First(t)     == {n \in texts[t] : \A m \in texts[t] : n <= m}

\* A queue that can hold all the updates of the run loses none of them: the first text
\* was heard or is on its way once it was announced.
NothingLost(t) ==
    Cardinality(texts[t]) < Capacity =>
        /\ Len(queue[t]) <= Cardinality(Announced(t)) + (IF dpc[t] = "over" THEN 1 ELSE 0)
        /\ \A n \in Announced(t) \cap First(t) :
              n \in EventsOf(heard[t]) \/ \E i \in 1 .. Len(queue[t]) : queue[t][i] = Artifact(n, TRUE)

\* What a call that is over has heard.
Told(t) ==
    /\ Notice \in Range(heard[t]) <=> outcome[t] # "ok"
    /\ outcome[t] # "ok" => heard[t][Len(heard[t])] = Notice
    /\ Cardinality(texts[t]) < Capacity => First(t) \subseteq EventsOf(heard[t])

StreamInv(t) ==
    /\ call[t] = "waiting" => Notice \notin Range(heard[t])
    /\ call[t] = "waiting" /\ hpc[t] = "streaming" => QueueTells(t) /\ NothingLost(t)
    /\ call[t] = "over" => dpc[t] = "over" /\ Told(t)

Tells(t) == CallInv(t) /\ (method[t] = "stream" /\ ~ Cancelled(t) => StreamInv(t))

TellsInv == \A t \in Task : Tells(t)

LEMMA TellsInvGives == TellsInv => StreamTellsTheEnd
<1> SUFFICES ASSUME TellsInv, NEW t \in Task, method[t] = "stream", call[t] = "over", ~ Cancelled(t)
             PROVE  /\ Notice \in Range(heard[t]) <=> outcome[t] # "ok"
                    /\ outcome[t] # "ok" => heard[t][Len(heard[t])] = Notice
                    /\ Cardinality(texts[t]) < Capacity =>
                          \A n \in texts[t] : (\A m \in texts[t] : n <= m) => n \in Heard(t)
  BY DEF StreamTellsTheEnd
<1>1. Told(t)
  BY DEF TellsInv, Tells, StreamInv
<1>2. Heard(t) = EventsOf(heard[t])
  BY DEF Heard, EventsOf
<1> QED
  BY <1>1, <1>2 DEF Told, First

LEMMA TellsInit == ClientInit => TellsInv
<1> SUFFICES ASSUME ClientInit, NEW t \in Task PROVE Tells(t)
  BY DEF TellsInv
<1>1. /\ hpc[t] = "new" /\ call[t] = "idle" /\ heard[t] = <<>> /\ subscribed[t] = Nobody
  BY ReceiverAssumption DEF ClientInit, Init, TaskInit
<1> QED
  BY <1>1 DEF Tells, CallInv, StreamInv, Early

\* A step that leaves a call and its queue alone.
LEMMA TellsFrame ==
    ASSUME NEW x \in Task, Tells(x), Cancelled(x) => Cancelled(x)',
           UNCHANGED <<call[x], heard[x], subscribed[x], method[x], hpc[x], dpc[x], ops[x], texts[x], outcome[x]>>,
           queue'[x] = queue[x] \/ Cancelled(x)
    PROVE  Tells(x)'
<1>1. CallInv(x)'
  BY DEF Tells, CallInv
<1>2. ASSUME method[x] = "stream", ~ Cancelled(x) PROVE StreamInv(x)'
  <2>1. UNCHANGED <<QueueTells(x), NothingLost(x), Told(x)>>
    BY <1>2 DEF QueueTells, NothingLost, Told, FinalState, Announced, First, Queued
  <2> QED
    BY <1>2, <2>1 DEF Tells, StreamInv
<1> QED
  BY <1>1, <1>2 DEF Tells

LEMMA CancelledStays ==
    ASSUME TypeOK, Next, NEW x \in Task, Cancelled(x)
    PROVE  Cancelled(x)'
<1>1. PICK c \in Canceller : target[c] = x /\ cpc[c] \in {"announce", "ok"}
  BY DEF Cancelled
<1>2. target' = target
  BY DEF Next, HandlerStep, Create, SetWorking, AnnounceWorking, StartRun, RecordInvocation,
     SubscribeStream, SubscribeRefused, StreamUpdate, Join, Disconnect, DrainStep, Absorb, StreamEnded, StreamFailed,
     Apply, AnnounceArtifact, Applied, SetFinal, AnnounceFinal, CancelStep, CancelRoute, CancelCheck, CancelSet,
     CancelAnnounce, WatchStep, WatchLook, WatchSubscribe, WatchUpdate
<1>3. cpc' = cpc \/ \E d \in Canceller : CancelStep(d)
  BY DEF Next, HandlerStep, Create, SetWorking, AnnounceWorking, StartRun, RecordInvocation,
     SubscribeStream, SubscribeRefused, StreamUpdate, Join, Disconnect, DrainStep, Absorb, StreamEnded, StreamFailed,
     Apply, AnnounceArtifact, Applied, SetFinal, AnnounceFinal, WatchStep, WatchLook, WatchSubscribe, WatchUpdate
<1>4. ASSUME NEW d \in Canceller, CancelStep(d) PROVE cpc'[c] \in {"announce", "ok"}
  <2>1. \E from, to : cpc[d] = from /\ cpc' = [cpc EXCEPT ![d] = to] /\ (from \in {"announce", "ok"} => to = "ok")
    BY <1>4 DEF CancelStep, CancelRoute, CancelCheck, CancelSet, CancelAnnounce, CancelCall
  <2>2. cpc \in [Canceller -> {"new", "routed", "checked", "announce", "ok", "error"}]
    BY DEF TypeOK, ServerTypeOK
  <2> QED
    BY <1>1, <2>1, <2>2
<1>5. cpc'[c] \in {"announce", "ok"}
  BY <1>1, <1>3, <1>4
<1> QED
  BY <1>1, <1>2, <1>5 DEF Cancelled

\* Another call's step.
LEMMA TellsOther ==
    ASSUME SystemInv, TellsInv, NEW x \in Task, NEW t \in Task, x # t,
           Dispatch(t) \/ Refused(t) \/ ReadFrame(t) \/ ReadAnswer(t) \/ Break(t) \/ Unseen(t)
    PROVE  Tells(x)'
<1>0. HandlerStep(t) \/ DrainStep(t) \/ Disconnect(t)
  BY DEF Dispatch, Refused, ReadFrame, ReadAnswer, Break, Unseen, HandlerStep
<1>1. x \in Receiver /\ t \in Receiver /\ subscribed[x] # t
  BY ReceiverAssumption, NobodyAssumption DEF TellsInv, Tells, CallInv
<1> USE DEF SystemInv, TypeOK, ServerTypeOK, ClientTypeOK
<1>2. /\ call' = call \/ \E to : call' = [call EXCEPT ![t] = to]
      /\ heard' = heard \/ \E to : heard' = [heard EXCEPT ![t] = to]
  BY DEF Dispatch, Refused, ReadFrame, ReadAnswer, Break, Unseen, Becomes, clientVars
<1>3. method' = method /\ cpc' = cpc /\ target' = target
  BY <1>0 DEF HandlerStep, Create, SetWorking, AnnounceWorking, StartRun, RecordInvocation,
     SubscribeStream, SubscribeRefused, StreamUpdate, Join, Disconnect, DrainStep, Absorb, StreamEnded, StreamFailed,
     Apply, AnnounceArtifact, Applied, SetFinal, AnnounceFinal
<1>4. hpc' = hpc \/ \E to : hpc' = [hpc EXCEPT ![t] = to]
  BY <1>0 DEF HandlerStep, Create, SetWorking, AnnounceWorking, StartRun, RecordInvocation,
     SubscribeStream, SubscribeRefused, StreamUpdate, Join, Disconnect, DrainStep, Absorb, StreamEnded, StreamFailed,
     Apply, AnnounceArtifact, Applied, SetFinal, AnnounceFinal, Handler
<1>5. dpc' = dpc \/ \E to : dpc' = [dpc EXCEPT ![t] = to]
  BY <1>0 DEF HandlerStep, Create, SetWorking, AnnounceWorking, StartRun, RecordInvocation,
     SubscribeStream, SubscribeRefused, StreamUpdate, Join, Disconnect, DrainStep, Absorb, StreamEnded, StreamFailed,
     Apply, AnnounceArtifact, Applied, SetFinal, AnnounceFinal, Drain
<1>6. /\ ops' = ops \/ \E to : ops' = [ops EXCEPT ![t] = to]
      /\ texts' = texts \/ \E to : texts' = [texts EXCEPT ![t] = to]
      /\ outcome' = outcome \/ \E to : outcome' = [outcome EXCEPT ![t] = to]
  BY <1>0 DEF HandlerStep, Create, SetWorking, AnnounceWorking, StartRun, RecordInvocation,
     SubscribeStream, SubscribeRefused, StreamUpdate, Join, Disconnect, DrainStep, Absorb, StreamEnded, StreamFailed,
     Apply, AnnounceArtifact, Applied, SetFinal, AnnounceFinal
<1>7. \/ UNCHANGED <<queue, subscribed>>
      \/ \E u : Broadcast(t, u)
      \/ Receive(t) \/ Unsubscribe(t) \/ Subscribe(t, t)
  BY <1>0 DEF HandlerStep, Create, SetWorking, AnnounceWorking, StartRun, RecordInvocation,
     SubscribeStream, SubscribeRefused, StreamUpdate, Join, Disconnect, DrainStep, Absorb, StreamEnded, StreamFailed,
     Apply, AnnounceArtifact, Applied, SetFinal, AnnounceFinal, CreateTask, SetStatus, AppendHistory, AppendArtifact,
     taskVars
<1>8. queue'[x] = queue[x] /\ subscribed'[x] = subscribed[x]
  BY <1>1, <1>7 DEF Broadcast, Receive, Unsubscribe, Subscribe, TaskTypeOK
<1>9. Cancelled(x)' = Cancelled(x)
  BY <1>3 DEF Cancelled
<1>10. /\ call'[x] = call[x] /\ heard'[x] = heard[x] /\ hpc'[x] = hpc[x] /\ dpc'[x] = dpc[x]
       /\ ops'[x] = ops[x] /\ texts'[x] = texts[x] /\ outcome'[x] = outcome[x]
  BY <1>2, <1>4, <1>5, <1>6
<1> QED
  BY <1>3, <1>8, <1>9, <1>10, TellsFrame DEF TellsInv

\* A cancel or a resubscribe: a cancel that announces is one.
LEMMA TellsElsewhere ==
    ASSUME SystemInv, TellsInv, NEW x \in Task, Elsewhere
    PROVE  Tells(x)'
<1> USE DEF SystemInv, TypeOK, ServerTypeOK
<1>1. UNCHANGED <<call, heard, method, hpc, dpc, ops, texts, outcome>>
  BY DEF Elsewhere, clientVars, CancelStep, CancelRoute, CancelCheck, CancelSet, CancelAnnounce, WatchStep, WatchLook,
     WatchSubscribe, WatchUpdate
<1>2. Cancelled(x) => Cancelled(x)'
  BY CancelledStays DEF Elsewhere, Next
<1>3. (queue'[x] = queue[x] \/ Cancelled(x)) /\ subscribed'[x] = subscribed[x]
  <2>1. ASSUME NEW c \in Canceller, CancelStep(c)
        PROVE  (queue'[x] = queue[x] \/ Cancelled(x)) /\ subscribed' = subscribed
    <3>1. CASE CancelAnnounce(c)
      <4>1. target[c] # x => queue'[x] = queue[x]
        <5>1. target[c] \in Task /\ x \in Receiver /\ subscribed[x] \in {x, Nobody}
          BY ReceiverAssumption DEF TellsInv, Tells, CallInv
        <5>2. target[c] # x => subscribed[x] # target[c]
          BY <5>1, NobodyAssumption
        <5> QED
          BY <3>1, <5>1, <5>2 DEF CancelAnnounce, Broadcast
      <4>2. target[c] = x => Cancelled(x)
        BY <3>1 DEF CancelAnnounce, CancelCall, Cancelled
      <4> QED
        BY <3>1, <4>1, <4>2 DEF CancelAnnounce, Broadcast
    <3>2. CASE ~ CancelAnnounce(c)
      BY <2>1, <3>2 DEF CancelStep, CancelRoute, CancelCheck, CancelSet, SetStatus, taskVars
    <3> QED
      BY <3>1, <3>2
  <2>2. ASSUME NEW w \in Watcher, WatchStep(w)
        PROVE  queue'[x] = queue[x] /\ subscribed'[x] = subscribed[x]
    <3>1. w # x /\ w \in Receiver /\ x \in Receiver
      BY ReceiverAssumption
    <3>2. UNCHANGED taskVars \/ Receive(w) \/ Subscribe(w, target[w])
      BY <2>2 DEF WatchStep, WatchLook, WatchSubscribe, WatchUpdate
    <3> QED
      BY <3>1, <3>2 DEF taskVars, Receive, Subscribe, TaskTypeOK
  <2> QED
    BY <2>1, <2>2 DEF Elsewhere
<1> QED
  BY <1>1, <1>2, <1>3, TellsFrame DEF TellsInv

\* The call's own steps, in their order.
LEMMA TellsEarly ==
    ASSUME SystemInv, NEW t \in Task, Tells(t),
           \/ Dispatch(t) \/ Refused(t)
           \/ Unseen(t) /\ (SetWorking(t) \/ AnnounceWorking(t) \/ RecordInvocation(t))
    PROVE  Tells(t)'
<1> USE DEF SystemInv, TypeOK, ServerTypeOK, ClientTypeOK
<1>1. hpc[t] \in Early
  BY DEF Dispatch, Refused, Create, SetWorking, AnnounceWorking, StartRun, SubscribeRefused, RecordInvocation,
         Handler, Early
<1>2. /\ hpc'[t] \in Early \cup {"error", "joining"}
      /\ hpc'[t] = "joining" => method[t] = "send"
      /\ hpc'[t] = "error" => call'[t] = "failed"
      /\ call'[t] \in {call[t], "waiting", "failed"}
  <2>1. CASE Dispatch(t)
    BY <2>1 DEF Dispatch, Create, Handler, Early, Becomes
  <2>2. CASE Refused(t)
    BY <2>2 DEF Refused, StartRun, SubscribeRefused, Handler, Early
  <2>3. CASE Unseen(t) /\ SetWorking(t)
    BY <2>3 DEF Unseen, SetWorking, Handler, Early, clientVars
  <2>4. CASE Unseen(t) /\ RecordInvocation(t)
    BY <2>4 DEF Unseen, RecordInvocation, Handler, Early, clientVars
  <2>5. CASE Unseen(t) /\ AnnounceWorking(t)
    BY <2>5 DEF Unseen, AnnounceWorking, Handler, Early, clientVars
  <2> QED
    BY <2>1, <2>2, <2>3, <2>4, <2>5
<1>3. heard' = heard /\ subscribed' = subscribed /\ method' = method
  BY DEF Unseen, clientVars, Dispatch, Refused, Create, CreateTask, SetWorking, SetStatus, AnnounceWorking, Broadcast,
     StartRun, SubscribeRefused, RecordInvocation, taskVars
<1>4. heard[t] = <<>> /\ Notice \notin Range(heard[t])
  BY <1>1 DEF Tells, CallInv, Range
<1>5. dpc[t] = "idle"
  BY <1>1 DEF ServerInv, OutputInv, NothingYet
<1>6. ASSUME method[t] = "stream", ~ Cancelled(t)' PROVE StreamInv(t)'
  <2>1. Cancelled(t)' = Cancelled(t)
    <3>1. UNCHANGED <<cpc, target>>
      BY DEF Dispatch, Refused, Create, SetWorking, AnnounceWorking, StartRun, SubscribeRefused, RecordInvocation
    <3> QED
      BY <3>1 DEF Cancelled
  <2>2. call[t] # "over"
    BY <1>5, <1>6, <2>1 DEF Tells, StreamInv
  <2> QED
    BY <1>2, <1>3, <1>4, <1>6, <2>2 DEF StreamInv, Early
<1>7. CallInv(t)'
  BY <1>2, <1>3, <1>4 DEF Tells, CallInv, Early
<1> QED
  BY <1>3, <1>6, <1>7 DEF Tells

LEMMA TellsSubscribe ==
    ASSUME SystemInv, NEW t \in Task, Tells(t), Unseen(t), SubscribeStream(t)
    PROVE  Tells(t)'
<1> USE DEF SystemInv, TypeOK, ServerTypeOK, ClientTypeOK, TaskTypeOK
<1>1. t \in Receiver
  BY ReceiverAssumption
<1>2. /\ hpc[t] = "subscribing" /\ hpc'[t] = "streaming" /\ dpc'[t] = "drain"
      /\ UNCHANGED <<method, texts, ops, outcome, cpc, target>>
      /\ queue'[t] = <<>> /\ subscribed'[t] = t
  BY <1>1 DEF SubscribeStream, Subscribe, Handler
<1>3. call' = call /\ heard' = heard
  BY DEF Unseen, clientVars
<1>4. heard[t] = <<>> /\ Notice \notin Range(heard[t])
  BY <1>2 DEF Tells, CallInv, Early, Range
<1>5. dpc[t] = "idle" /\ texts[t] = {}
  BY <1>2 DEF ServerInv, OutputInv, NothingYet, Early
<1>6. ASSUME method[t] = "stream", ~ Cancelled(t)' PROVE StreamInv(t)'
  <2>1. call[t] # "over"
    BY <1>2, <1>5, <1>6 DEF Tells, StreamInv, Cancelled
  <2>2. Len(queue'[t]) = 0 /\ texts'[t] = {} /\ Announced(t)' = {} /\ Cardinality({}) = 0
    BY <1>2, <1>5, FS_EmptySet DEF Announced
  <2>3. QueueTells(t)' /\ NothingLost(t)'
    BY <1>2, <2>2 DEF QueueTells, NothingLost
  <2> QED
    BY <1>2, <1>3, <1>4, <2>1, <2>3 DEF StreamInv
<1>7. CallInv(t)'
  BY <1>2, <1>3 DEF Tells, CallInv, Early
<1> QED
  BY <1>2, <1>6, <1>7 DEF Tells

LEMMA TellsEnd ==
    ASSUME SystemInv, NEW t \in Task, Tells(t), ReadAnswer(t) \/ Break(t)
    PROVE  Tells(t)'
<1> USE DEF SystemInv, TypeOK, ServerTypeOK, ClientTypeOK, TaskTypeOK
<1>1. t \in Receiver
  BY ReceiverAssumption
<1>2. /\ hpc'[t] \in {"done", "gone"} /\ subscribed'[t] = Nobody
      /\ UNCHANGED <<method, texts, outcome, cpc, target>>
  BY <1>1 DEF ReadAnswer, Break, Join, Disconnect, Unsubscribe, Handler
<1>3. ASSUME method[t] = "stream"
      PROVE  heard' = heard /\ dpc'[t] = dpc[t] /\ call'[t] \in {call[t], "failed"} /\ call'[t] # "waiting"
  <2>1. CASE ReadAnswer(t)
    <3>1. hpc[t] = "joining" /\ dpc' = dpc /\ UNCHANGED clientVars
      BY <1>3, <2>1 DEF ReadAnswer, Join, Handler
    <3> QED
      BY <1>3, <3>1 DEF Tells, CallInv, Early, clientVars
  <2>2. CASE Break(t)
    BY <1>3, <2>2 DEF Break, Disconnect
  <2> QED
    BY <2>1, <2>2
<1>4. ASSUME method[t] = "stream", ~ Cancelled(t)' PROVE StreamInv(t)'
  <2>1. Told(t)' = Told(t)
    BY <1>2, <1>3, <1>4 DEF Told, First
  <2> QED
    BY <1>2, <1>3, <1>4, <2>1 DEF Tells, StreamInv, Cancelled
<1>5. CallInv(t)'
  BY <1>2, <1>3 DEF Tells, CallInv, Early
<1> QED
  BY <1>2, <1>4, <1>5 DEF Tells

\* The texts of a run are finitely many, and so are the announced ones.
LEMMA TextsFinite ==
    ASSUME TypeOK, NEW t \in Task
    PROVE  /\ IsFiniteSet(texts[t]) /\ IsFiniteSet(Announced(t))
           /\ Cardinality(texts[t]) \in Nat /\ Cardinality(Announced(t)) \in Nat
           /\ Cardinality(Announced(t)) <= Cardinality(texts[t])
<1>1. IsFiniteSet(1 .. MaxEvents)
  BY FS_Interval, MaxEventsAssumption
<1>2. texts[t] \subseteq 1 .. MaxEvents
  BY DEF TypeOK, ServerTypeOK
<1>3. IsFiniteSet(texts[t])
  BY <1>1, <1>2, FS_Subset
<1>4. Announced(t) \subseteq texts[t]
  BY DEF Announced
<1> QED
  BY <1>3, <1>4, FS_Subset, FS_CardinalityType

LEMMA ChunksAppend ==
    ASSUME NEW q \in Seq(Ops), NEW o \in Ops
    PROVE  ChunksFrom(Append(q, o), 1) = ChunksFrom(q, 1) \cup {n \in 1 .. MaxEvents : o = Chunk(n)}
<1> DEFINE r == Append(q, o)
<1>1. Len(r) = Len(q) + 1 /\ Len(q) \in Nat /\ r[Len(q) + 1] = o /\ \A i \in 1 .. Len(q) : r[i] = q[i]
  OBVIOUS
<1> HIDE DEF r
<1>2. ChunksFrom(r, 1) = ChunksFrom(q, 1) \cup {n \in 1 .. MaxEvents : o = Chunk(n)}
  BY <1>1 DEF ChunksFrom
<1> QED
  BY <1>2 DEF r

\* Neither absorbing an event nor a step without an announcement changes which texts were
\* announced.
LEMMA AnnouncedKept ==
    ASSUME TypeOK, NEW t \in Task, OutputInv(t), method[t] = "stream",
           Absorb(t) \/ StreamEnded(t) \/ StreamFailed(t) \/ Apply(t) \/ Applied(t) \/ SetFinal(t)
    PROVE  Announced(t)' = Announced(t) /\ texts[t] \subseteq texts'[t]
<1> USE DEF TypeOK, ServerTypeOK
<1>1. ASSUME UNCHANGED <<texts, ops>> PROVE Announced(t)' = Announced(t) /\ texts[t] \subseteq texts'[t]
  BY <1>1 DEF Announced, Queued
<1>2. CASE StreamEnded(t) \/ StreamFailed(t) \/ Applied(t) \/ SetFinal(t)
  <2>1. texts' = texts /\ ops'[t] = ops[t]
    BY <1>2 DEF StreamEnded, StreamFailed, Applied, SetFinal
  <2> QED
    BY <2>1 DEF Announced, Queued
<1>3. ~ GivenUp(t) /\ ops[t] \in Seq(Ops) /\ emitted[t] \in Nat /\ emitted[t] <= MaxEvents /\ Stored(t) \in Nat
  BY OutputTypes DEF GivenUp
<1>4. texts[t] \subseteq 1 .. emitted[t] /\ Stored(t) <= emitted[t] /\ QueueOK(ops[t], Stored(t), emitted[t], texts[t])
  BY <1>3 DEF OutputInv, RecordOK
<1>5. CASE Absorb(t)
  <2> DEFINE n == emitted[t] + 1
             q == ops[t]
  <2>1. n \in 1 .. MaxEvents /\ n \notin texts[t] /\ n \in Nat
    BY <1>3, <1>4, <1>5, MaxEventsAssumption DEF Absorb
  <2>2. \/ ops'[t] = q \o <<Message(n), Chunk(n)>> /\ texts'[t] = texts[t] \cup {n}
        \/ ops'[t] = Append(q, Message(n)) /\ texts'[t] = texts[t]
    BY <1>5 DEF Absorb
  <2> HIDE DEF n, q
  <2>3. /\ q \in Seq(Ops) /\ Message(n) \in Ops /\ Chunk(n) \in Ops
        /\ \A m : Message(n) # Chunk(m) /\ (Chunk(n) = Chunk(m) <=> n = m)
    <3>1. q \in Seq(Ops)
      BY <1>3 DEF q
    <3>2. \A m : Message(n).op # Chunk(m).op /\ Chunk(m).event = m
      BY OpFacts
    <3>3. Message(n) \in Ops /\ Chunk(n) \in Ops
      BY <2>1, OpFacts
    <3>4. \A m : Message(n) # Chunk(m)
      BY <3>2
    <3>5. \A m : Chunk(n) = Chunk(m) <=> n = m
      BY DEF Chunk
    <3> QED
      BY <3>1, <3>3, <3>4, <3>5
  <2>4. ChunksFrom(Append(q, Message(n)), 1) = ChunksFrom(q, 1)
    <3>1. {m \in 1 .. MaxEvents : Message(n) = Chunk(m)} = {}
      BY <2>3
    <3>2. ChunksFrom(Append(q, Message(n)), 1) = ChunksFrom(q, 1) \cup {m \in 1 .. MaxEvents : Message(n) = Chunk(m)}
      BY <2>3, ChunksAppend
    <3> QED
      BY <3>1, <3>2
  <2>5. ChunksFrom(q \o <<Message(n), Chunk(n)>>, 1) = ChunksFrom(q, 1) \cup {n}
    <3>1. q \o <<Message(n), Chunk(n)>> = Append(Append(q, Message(n)), Chunk(n))
      BY <2>3, ConcatTwo
    <3>2. Append(q, Message(n)) \in Seq(Ops)
      BY <2>3
    <3> QED
      <4>1. {m \in 1 .. MaxEvents : Chunk(n) = Chunk(m)} = {n}
        BY <2>1, <2>3
      <4> DEFINE r == Append(q, Message(n))
      <4>2. r \in Seq(Ops)
        BY <3>2
      <4> HIDE DEF r
      <4>3. ChunksFrom(Append(r, Chunk(n)), 1) = ChunksFrom(r, 1) \cup {m \in 1 .. MaxEvents : Chunk(n) = Chunk(m)}
        BY <2>3, <4>2, ChunksAppend
      <4> QED
        BY <2>4, <3>1, <4>1, <4>3 DEF r
  <2> QED
    BY <2>1, <2>2, <2>4, <2>5 DEF Announced, Queued, q
<1>6. CASE Apply(t)
  <2>1. texts' = texts /\ ops[t] # <<>>
    BY <1>6 DEF Apply
  <2>2. CASE Head(ops[t]).op = "history"
    <3>1. ops'[t] = Tail(ops[t])
      BY <1>6, <2>2 DEF Apply
    <3>2. texts[t] \in SUBSET (1 .. emitted[t])
      BY <1>4
    <3>3. ChunksFrom(Tail(ops[t]), 1) = ChunksFrom(ops[t], 1)
      BY <1>3, <1>4, <2>1, <2>2, <3>2, QueueWriteMessage
    <3> QED
      BY <2>1, <3>1, <3>3 DEF Announced, Queued
  <2>3. CASE Head(ops[t]).op # "history"
    BY <1>1, <1>6, <2>1, <2>3 DEF Apply
  <2> QED
    BY <2>2, <2>3
<1> QED
  BY <1>2, <1>5, <1>6

LEMMA TextsPrimed == ASSUME ServerTypeOK', NEW t \in Task PROVE IsFiniteSet(texts'[t])
<1>1. IsFiniteSet(1 .. MaxEvents) /\ texts'[t] \subseteq 1 .. MaxEvents
  BY FS_Interval, MaxEventsAssumption DEF ServerTypeOK
<1> QED
  BY <1>1, FS_Subset

\* The drain, while it announces nothing.
LEMMA TellsQuiet ==
    ASSUME SystemInv, NEW t \in Task, Tells(t), UNCHANGED clientVars,
           Absorb(t) \/ StreamEnded(t) \/ StreamFailed(t) \/ Apply(t) \/ Applied(t) \/ SetFinal(t)
    PROVE  Tells(t)'
<1> USE DEF SystemInv
<1>1. /\ UNCHANGED <<method, hpc, queue, subscribed, cpc, target, call, heard>>
      /\ dpc[t] # "over" /\ dpc'[t] # "over"
  <2>1. UNCHANGED <<method, hpc, queue, subscribed, cpc, target, call, heard>>
    BY DEF Absorb, StreamEnded, StreamFailed, Apply, Applied, SetFinal, clientVars, taskVars,
           AppendHistory, AppendArtifact, SetStatus
  <2>2. \/ dpc[t] = "drain" /\ dpc' = dpc
        \/ \E to \in DrainPlaces \ {"over"} : dpc' = [dpc EXCEPT ![t] = to] /\ dpc[t] # "over"
    BY DEF Absorb, StreamEnded, StreamFailed, Apply, Applied, SetFinal, Drain, DrainPlaces
  <2>3. dpc[t] # "over" /\ dpc'[t] # "over"
    BY <2>2 DEF TypeOK, ServerTypeOK
  <2> QED
    BY <2>1, <2>3
<1>2. ASSUME method[t] = "stream", ~ Cancelled(t)' PROVE StreamInv(t)'
  <2>1. StreamInv(t)
    BY <1>1, <1>2 DEF Tells, Cancelled
  <2>2. Announced(t)' = Announced(t) /\ texts[t] \subseteq texts'[t]
    BY <1>2, AnnouncedKept DEF ServerInv
  <2>3. ASSUME QueueTells(t), NothingLost(t) PROVE QueueTells(t)' /\ NothingLost(t)'
    <3>1. QueueTells(t)'
      BY <1>1, <2>3 DEF QueueTells
    <3>2. ASSUME Cardinality(texts'[t]) < Capacity PROVE Cardinality(texts[t]) < Capacity
      <4>1. IsFiniteSet(texts'[t])
        <5>1. Next
          BY DEF Next, DrainStep
        <5>2. TypeOK'
          BY <5>1, ServerNextTypes
        <5> QED
          BY <5>2, TextsPrimed DEF TypeOK
      <4>2. Cardinality(texts[t]) <= Cardinality(texts'[t]) /\ Cardinality(texts[t]) \in Nat
            /\ Cardinality(texts'[t]) \in Nat
        BY <2>2, <4>1, FS_Subset, FS_CardinalityType
      <4> QED
        BY <3>2, <4>2, CapacityAssumption
    <3>3. (Announced(t) \cap First(t))' \subseteq Announced(t) \cap First(t)
      BY <2>2 DEF First, Announced
    <3>4. NothingLost(t)'
      BY <1>1, <2>2, <2>3, <3>2, <3>3 DEF NothingLost
    <3> QED
      BY <3>1, <3>4
  <2> QED
    BY <1>1, <2>1, <2>3 DEF StreamInv
<1>3. CallInv(t)'
  BY <1>1 DEF Tells, CallInv
<1> QED
  BY <1>1, <1>2, <1>3 DEF Tells

\* What is pushed is last, and the others were there before.
LEMMA PushedFit ==
    \A q \in Seq(Fit) : \A u \in Fit :
        /\ Len(q) < Capacity => Pushed(q, u) = Append(q, u)
        /\ Pushed(q, u)[Len(Pushed(q, u))] = u
        /\ \A i \in 1 .. Len(Pushed(q, u)) :
             i # Len(Pushed(q, u)) => \E j \in 1 .. Len(q) : Pushed(q, u)[i] = q[j]
<1> TAKE q \in Seq(Fit)
<1> TAKE u \in Fit
<1>1. CASE Len(q) < Capacity
  BY <1>1 DEF Pushed
<1>2. CASE ~ (Len(q) < Capacity)
  <2>1. q # <<>> /\ Pushed(q, u) = Append(Tail(q), u)
    BY <1>2, CapacityAssumption DEF Pushed
  <2>2. Tail(q) \in Seq(Fit) /\ \A i \in 1 .. Len(Tail(q)) : i + 1 \in 1 .. Len(q) /\ Tail(q)[i] = q[i + 1]
    BY <2>1
  <2> QED
    BY <1>2, <2>1, <2>2
<1> QED
  BY <1>1, <1>2

\* The drain announces a text.
LEMMA TellsArtifact ==
    ASSUME SystemInv, NEW t \in Task, Tells(t), UNCHANGED clientVars, AnnounceArtifact(t)
    PROVE  Tells(t)'
<1> USE DEF SystemInv
<1> DEFINE k == Stored(t)
           q == ops[t]
           u == ArtifactUpdate(t, Head(ops[t]).event)
<1>1. /\ UNCHANGED <<method, hpc, subscribed, cpc, target, call, heard, texts, outcome, tasks>>
      /\ dpc[t] = "announce" /\ dpc'[t] = "apply" /\ ops'[t] = Tail(q) /\ q # <<>>
  BY DEF AnnounceArtifact, Drain, Broadcast, clientVars, HasHead, TypeOK, ServerTypeOK
<1>2. CallInv(t)'
  BY <1>1 DEF Tells, CallInv
<1>3. ASSUME method[t] = "stream", ~ Cancelled(t)' PROVE StreamInv(t)'
  <2>1. StreamInv(t)
    BY <1>1, <1>3 DEF Tells, Cancelled
  <2>2. /\ q \in Seq(Ops) /\ emitted[t] \in Nat /\ k \in Nat /\ QueueOK(q, k, emitted[t], texts[t])
        /\ k <= emitted[t] /\ texts[t] \in SUBSET (1 .. emitted[t]) /\ Head(q).op = "artifact"
        /\ tasks[t].artifacts = Selected(Numbers(k), texts[t] \ ChunksFrom(q, 2))
    BY <1>1, <1>3, OutputTypes DEF ServerInv, OutputInv, GivenUp, RecordOK, Waiting
  <2>3. /\ Head(q).event = k /\ k \in texts[t] /\ k \in ChunksFrom(q, 1)
        /\ ChunksFrom(Tail(q), 1) = ChunksFrom(q, 1) \ {k} /\ ChunksFrom(q, 2) = ChunksFrom(q, 1) \ {k}
    BY <1>1, <2>2, QueueWriteChunk, TailOf
  <2>4. Announced(t)' = Announced(t) \cup {k} /\ k \notin Announced(t)
    BY <1>1, <2>3 DEF Announced, Queued
  <2>5. /\ Cardinality(Announced(t)') = Cardinality(Announced(t)) + 1
        /\ Cardinality(Announced(t)') <= Cardinality(texts[t])
        /\ Cardinality(Announced(t)) \in Nat /\ Cardinality(texts[t]) \in Nat
    <3>1. Announced(t)' \subseteq texts[t]
      BY <1>1 DEF Announced
    <3>2. Cardinality(Announced(t) \cup {k}) = Cardinality(Announced(t)) + 1
      BY <2>4, TextsFinite, FS_AddElement
    <3>3. Cardinality(Announced(t)') <= Cardinality(texts[t])
      BY <3>1, TextsFinite, FS_Subset
    <3> QED
      BY <2>4, <3>2, <3>3, TextsFinite
  <2>6. k \in First(t) => u = Artifact(k, TRUE)
    <3>1. ASSUME k \in First(t) PROVE tasks[t].artifacts = <<k>>
      <4> DEFINE A == texts[t] \ ChunksFrom(q, 2)
      <4>1. PICK j \in Nat : k = j + 1
        <5>1. k \in Nat \ {0}
          BY <2>2, <2>3
        <5>2. k - 1 \in Nat /\ k = (k - 1) + 1
          BY <5>1
        <5> QED
          BY <5>2
      <4>2. j + 1 \in A
        BY <2>3, <4>1
      <4>3. \A n \in 1 .. j : n \notin A
        BY <2>2, <3>1, <4>1 DEF First
      <4>4. tasks[t].artifacts = Selected(Numbers(j + 1), A)
        BY <2>2, <4>1
      <4> HIDE DEF A
      <4>5. Selected(Numbers(j + 1), A) = Append(Selected(Numbers(j), A), j + 1) /\ Selected(Numbers(j), A) = <<>>
        BY <4>2, <4>3, NumbersSelected
      <4>6. Append(<<>>, j + 1) = <<j + 1>>
        OBVIOUS
      <4> QED
        BY <4>1, <4>4, <4>5, <4>6
    <3> QED
      BY <2>3, <3>1 DEF ArtifactUpdate
  <2>7. ASSUME hpc[t] = "streaming", QueueTells(t), NothingLost(t) PROVE QueueTells(t)' /\ NothingLost(t)'
    <3>1. queue[t] \in Seq(Fit) /\ u \in Fit /\ u.kind = "artifact"
      <4>1. t \in Receiver
        BY ReceiverAssumption
      <4>2. u.kind = "artifact"
        BY DEF ArtifactUpdate, Artifact
      <4> QED
        BY <1>1, <4>1, <4>2, SentFits DEF QueueFits
    <3>2. queue'[t] = Pushed(queue[t], u)
      BY <2>7, ReceiverAssumption DEF AnnounceArtifact, Broadcast, Tells, CallInv
    <3> HIDE DEF u, k, q
    <3>3. \A i \in 1 .. Len(queue[t]) : queue[t][i].kind # "status"
      BY <1>1, <2>7 DEF QueueTells
    <3>4. \A i \in 1 .. Len(queue'[t]) : queue'[t][i].kind # "status"
      <4>1. ASSUME NEW i \in 1 .. Len(queue'[t]) PROVE queue'[t][i] = u \/ \E j \in 1 .. Len(queue[t]) : queue'[t][i] = queue[t][j]
        <5>1. \A j \in 1 .. Len(Pushed(queue[t], u)) :
                 /\ j = Len(Pushed(queue[t], u)) => Pushed(queue[t], u)[j] = u
                 /\ j # Len(Pushed(queue[t], u)) => \E l \in 1 .. Len(queue[t]) : Pushed(queue[t], u)[j] = queue[t][l]
          BY <3>1, PushedFit
        <5> QED
          BY <3>2, <4>1, <5>1
      <4> QED
        BY <3>1, <3>3, <4>1
    <3>5. QueueTells(t)'
      BY <3>4 DEF QueueTells
    <3>6. ASSUME Cardinality(texts[t]) < Capacity
          PROVE  /\ queue'[t] = Append(queue[t], u) /\ Len(queue[t]) \in Nat
                 /\ Len(queue'[t]) = Len(queue[t]) + 1
                 /\ Len(queue[t]) <= Cardinality(Announced(t))
                 /\ queue'[t][Len(queue[t]) + 1] = u
                 /\ \A i \in 1 .. Len(queue[t]) : queue'[t][i] = queue[t][i]
      <4>1. Len(queue[t]) \in Nat /\ Len(queue[t]) <= Cardinality(Announced(t))
        BY <1>1, <2>5, <2>7, <3>1, <3>6 DEF NothingLost
      <4>2. Len(queue[t]) < Capacity
        BY <2>5, <3>6, <4>1, CapacityAssumption
      <4>3. queue'[t] = Append(queue[t], u)
        <5>1. Pushed(queue[t], u) = Append(queue[t], u)
          BY <3>1, <4>2, PushedFit
        <5> QED
          BY <3>2, <5>1
      <4> QED
        BY <3>1, <4>1, <4>3
    <3>7. NothingLost(t)'
      <4> SUFFICES ASSUME Cardinality(texts[t]) < Capacity
                   PROVE  /\ Len(queue'[t]) <= Cardinality(Announced(t)') + 0
                          /\ \A n \in Announced(t)' \cap First(t) :
                                n \in EventsOf(heard[t]) \/ \E i \in 1 .. Len(queue'[t]) : queue'[t][i] = Artifact(n, TRUE)
        BY <1>1 DEF NothingLost, First
      <4>1. Len(queue'[t]) <= Cardinality(Announced(t)') + 0
        BY <2>5, <3>6
      <4>2. ASSUME NEW n \in Announced(t) \cap First(t), n \notin EventsOf(heard[t])
            PROVE  \E i \in 1 .. Len(queue'[t]) : queue'[t][i] = Artifact(n, TRUE)
        <5>1. PICK i \in 1 .. Len(queue[t]) : queue[t][i] = Artifact(n, TRUE)
          BY <2>7, <4>2 DEF NothingLost
        <5>2. i \in 1 .. Len(queue'[t]) /\ queue'[t][i] = Artifact(n, TRUE)
          <6>1. i \in 1 .. Len(queue[t]) + 1 /\ queue'[t][i] = queue[t][i]
            BY <3>6
          <6> QED
            BY <3>6, <5>1, <6>1
        <5> QED
          BY <5>2
      <4>3. ASSUME k \in First(t) PROVE \E i \in 1 .. Len(queue'[t]) : queue'[t][i] = Artifact(k, TRUE)
        <5>1. Len(queue[t]) + 1 \in 1 .. Len(queue'[t])
          BY <3>6
        <5> QED
          BY <2>6, <3>6, <4>3, <5>1
      <4> QED
        BY <2>4, <4>1, <4>2, <4>3
    <3> QED
      BY <3>5, <3>7
  <2> QED
    BY <1>1, <2>1, <2>7 DEF StreamInv
<1> QED
  BY <1>1, <1>2, <1>3 DEF Tells

\* The drain announces the final status.
LEMMA TellsFinal ==
    ASSUME SystemInv, NEW t \in Task, Tells(t), UNCHANGED clientVars, AnnounceFinal(t)
    PROVE  Tells(t)'
<1> USE DEF SystemInv
<1> DEFINE u == Status(FinalState(t), TRUE)
<1>1. /\ UNCHANGED <<method, hpc, subscribed, cpc, target, call, heard, texts, outcome, ops>>
      /\ dpc[t] = "finish" /\ dpc'[t] = "over" /\ FinalState(t)' = FinalState(t)
  BY DEF AnnounceFinal, Drain, Broadcast, clientVars, TypeOK, ServerTypeOK, FinalState
<1>2. CallInv(t)'
  BY <1>1 DEF Tells, CallInv
<1>3. ASSUME method[t] = "stream", ~ Cancelled(t)' PROVE StreamInv(t)'
  <2>1. StreamInv(t)
    BY <1>1, <1>3 DEF Tells, Cancelled
  <2>2. Announced(t)' = Announced(t) /\ First(t)' = First(t)
    BY <1>1 DEF Announced, Queued, First
  <2>3. ASSUME hpc[t] = "streaming", QueueTells(t), NothingLost(t) PROVE QueueTells(t)' /\ NothingLost(t)'
    <3>1. queue[t] \in Seq(Fit) /\ u \in Fit
      <4>1. t \in Receiver /\ FinalState(t) \in TaskState
        BY ReceiverAssumption, SentFits DEF TaskState
      <4> QED
        BY <4>1, SentFits DEF QueueFits
    <3>2. queue'[t] = Pushed(queue[t], u)
      BY <2>3, ReceiverAssumption DEF AnnounceFinal, Broadcast, Tells, CallInv
    <3> HIDE DEF u
    <3>3. \A i \in 1 .. Len(queue[t]) : queue[t][i].kind # "status"
      BY <1>1, <2>3 DEF QueueTells
    <3>4. \A i \in 1 .. Len(queue'[t]) : queue'[t][i].kind = "status" => i = Len(queue'[t]) /\ queue'[t][i] = u
      <4>1. /\ queue'[t][Len(queue'[t])] = u
            /\ \A i \in 1 .. Len(queue'[t]) : i # Len(queue'[t]) => \E j \in 1 .. Len(queue[t]) : queue'[t][i] = queue[t][j]
        <5>1. /\ Pushed(queue[t], u)[Len(Pushed(queue[t], u))] = u
              /\ \A j \in 1 .. Len(Pushed(queue[t], u)) :
                    j # Len(Pushed(queue[t], u)) => \E l \in 1 .. Len(queue[t]) : Pushed(queue[t], u)[j] = queue[t][l]
          BY <3>1, PushedFit
        <5> QED
          BY <3>2, <5>1
      <4> QED
        BY <3>3, <4>1
    <3>5. QueueTells(t)'
      BY <1>1, <3>4 DEF QueueTells, u
    <3>6. ASSUME Cardinality(texts[t]) < Capacity
          PROVE  /\ Len(queue[t]) \in Nat /\ Len(queue'[t]) = Len(queue[t]) + 1
                 /\ Len(queue[t]) <= Cardinality(Announced(t)) /\ Cardinality(Announced(t)) \in Nat
                 /\ \A i \in 1 .. Len(queue[t]) : queue'[t][i] = queue[t][i]
      <4>1. Len(queue[t]) \in Nat /\ Len(queue[t]) <= Cardinality(Announced(t)) /\ Cardinality(Announced(t)) \in Nat
        BY <1>1, <2>3, <3>1, <3>6, TextsFinite DEF NothingLost
      <4>2. Len(queue[t]) < Capacity
        BY <3>6, <4>1, TextsFinite, CapacityAssumption
      <4>3. queue'[t] = Append(queue[t], u)
        <5>1. Pushed(queue[t], u) = Append(queue[t], u)
          BY <3>1, <4>2, PushedFit
        <5> QED
          BY <3>2, <5>1
      <4> QED
        BY <3>1, <4>1, <4>3
    <3>7. NothingLost(t)'
      <4> SUFFICES ASSUME Cardinality(texts[t]) < Capacity
                   PROVE  /\ Len(queue'[t]) <= Cardinality(Announced(t)) + 1
                          /\ \A n \in Announced(t) \cap First(t) :
                                n \in EventsOf(heard[t]) \/ \E i \in 1 .. Len(queue'[t]) : queue'[t][i] = Artifact(n, TRUE)
        BY <1>1, <2>2 DEF NothingLost
      <4>1. Len(queue'[t]) <= Cardinality(Announced(t)) + 1
        BY <3>6
      <4>2. ASSUME NEW n \in Announced(t) \cap First(t), n \notin EventsOf(heard[t])
            PROVE  \E i \in 1 .. Len(queue'[t]) : queue'[t][i] = Artifact(n, TRUE)
        <5>1. PICK i \in 1 .. Len(queue[t]) : queue[t][i] = Artifact(n, TRUE)
          BY <2>3, <4>2 DEF NothingLost
        <5>2. i \in 1 .. Len(queue'[t]) /\ queue'[t][i] = Artifact(n, TRUE)
          <6>1. i \in 1 .. Len(queue[t]) + 1 /\ queue'[t][i] = queue[t][i]
            BY <3>6
          <6> QED
            BY <3>6, <5>1, <6>1
        <5> QED
          BY <5>2
      <4> QED
        BY <4>1, <4>2
    <3> QED
      BY <3>5, <3>7
  <2>4. call[t] # "over"
    BY <1>1, <2>1 DEF StreamInv
  <2> QED
    BY <1>1, <2>1, <2>3, <2>4 DEF StreamInv
<1> QED
  BY <1>1, <1>2, <1>3 DEF Tells

\* The client reads a frame: after the final status there is nothing left to read.
LEMMA TellsRead ==
    ASSUME SystemInv, NEW t \in Task, Tells(t), ReadFrame(t)
    PROVE  Tells(t)'
<1> USE DEF SystemInv
<1> DEFINE u == Head(queue[t])
           says == StreamResultToEvents(t, u)
<1>0. t \in Receiver
  BY ReceiverAssumption
<1>1. /\ UNCHANGED <<method, subscribed, cpc, target, texts, outcome, ops, dpc>>
      /\ hpc[t] = "streaming" /\ call[t] = "waiting" /\ queue[t] # <<>>
      /\ queue'[t] = Tail(queue[t]) /\ heard'[t] = heard[t] \o says
      /\ hpc'[t] = (IF IsFinal(u) THEN "joining" ELSE "streaming")
      /\ call'[t] = (IF IsFinal(u) THEN "over" ELSE "waiting")
  BY <1>0 DEF ReadFrame, StreamUpdate, Receive, TypeOK, TaskTypeOK, ServerTypeOK, ClientTypeOK
<1>2. CallInv(t)'
  BY <1>1 DEF Tells, CallInv, Early
<1>3. ASSUME method[t] = "stream", ~ Cancelled(t)' PROVE StreamInv(t)'
  <2>1. Notice \notin Range(heard[t]) /\ QueueTells(t) /\ NothingLost(t)
    BY <1>1, <1>3 DEF Tells, Cancelled, StreamInv
  <2>2. /\ queue[t] \in Seq(Fit) /\ u \in Fit /\ u = queue[t][1] /\ Len(queue[t]) \in Nat \ {0}
        /\ Len(Tail(queue[t])) = Len(queue[t]) - 1
        /\ \A i \in 1 .. Len(queue[t]) - 1 : Tail(queue[t])[i] = queue[t][i + 1]
    <3>1. queue[t] \in Seq(Fit)
      BY <1>0 DEF QueueFits
    <3> QED
      BY <1>1, <3>1
  <2>3. heard[t] \in Seq(Said) /\ Notice \in Said
    BY DEF ClientTypeOK, Notice, Said
  <2>4. Announced(t)' = Announced(t) /\ First(t)' = First(t) /\ FinalState(t)' = FinalState(t)
    BY <1>1 DEF Announced, Queued, First, FinalState
  <2>5. u.kind \in {"status", "artifact"}
    BY <2>2 DEF Fit, Update
  <2>6. CASE u.kind = "artifact"
    <3>1. ~ IsFinal(u)
      BY <2>6 DEF IsFinal
    <3>2. says = (IF u.parts THEN <<Says(u.event, u.event \notin Turns)>> ELSE <<>>)
      BY <2>6 DEF StreamResultToEvents
    <3> DEFINE s == Says(u.event, u.event \notin Turns)
    <3>3. s \in Said /\ s.what = "event" /\ s.event = u.event /\ s # Notice
      BY <2>2, <2>6 DEF Says, Said, Notice, Fit
    <3>4. /\ EventsOf(heard[t]) \subseteq EventsOf(heard'[t]) /\ Notice \notin Range(heard'[t])
          /\ u.parts => u.event \in EventsOf(heard'[t])
      <4> HIDE DEF s, u, says
      <4>1. CASE u.parts
        <5>1. heard'[t] = heard[t] \o <<s>>
          BY <1>1, <3>2, <4>1 DEF s
        <5>2. /\ EventsOf(heard[t]) \subseteq EventsOf(heard[t] \o <<s>>)
              /\ s.event \in EventsOf(heard[t] \o <<s>>)
              /\ Range(heard[t] \o <<s>>) = Range(heard[t]) \cup {s}
          BY <2>3, <3>3, HeardMore
        <5> QED
          BY <2>1, <3>3, <5>1, <5>2
      <4>2. CASE ~ u.parts
        <5>1. heard'[t] = heard[t]
          BY <1>1, <2>3, <3>2, <4>2, HeardMore
        <5> QED
          BY <2>1, <4>2, <5>1
      <4> QED
        BY <4>1, <4>2
    <3>5. QueueTells(t)'
      <4> SUFFICES ASSUME NEW i \in 1 .. Len(queue'[t]), queue'[t][i].kind = "status"
                   PROVE  i = Len(queue'[t]) /\ dpc[t] = "over" /\ queue'[t][i] = Status(FinalState(t), TRUE)
        BY <1>1, <2>4 DEF QueueTells
      <4>1. i + 1 \in 1 .. Len(queue[t]) /\ queue'[t][i] = queue[t][i + 1] /\ Len(queue'[t]) = Len(queue[t]) - 1
        BY <1>1, <2>2
      <4>2. i + 1 = Len(queue[t]) /\ dpc[t] = "over" /\ queue'[t][i] = Status(FinalState(t), TRUE)
        BY <2>1, <4>1 DEF QueueTells
      <4> QED
        BY <2>2, <4>1, <4>2
    <3>6. NothingLost(t)'
      <4> SUFFICES ASSUME Cardinality(texts[t]) < Capacity
                   PROVE  /\ Len(queue'[t]) <= Cardinality(Announced(t)) + (IF dpc[t] = "over" THEN 1 ELSE 0)
                          /\ \A n \in Announced(t) \cap First(t) :
                                \/ n \in EventsOf(heard'[t])
                                \/ \E i \in 1 .. Len(queue'[t]) : queue'[t][i] = Artifact(n, TRUE)
        BY <1>1, <2>4 DEF NothingLost
      <4>1. Len(queue'[t]) = Len(queue[t]) - 1
        BY <1>1, <2>2
      <4>2. Len(queue'[t]) <= Cardinality(Announced(t)) + (IF dpc[t] = "over" THEN 1 ELSE 0)
        BY <2>1, <2>2, <4>1, TextsFinite DEF NothingLost
      <4>3. ASSUME NEW n \in Announced(t) \cap First(t), n \notin EventsOf(heard'[t])
            PROVE  \E i \in 1 .. Len(queue'[t]) : queue'[t][i] = Artifact(n, TRUE)
        <5>1. PICK i \in 1 .. Len(queue[t]) : queue[t][i] = Artifact(n, TRUE)
          BY <2>1, <3>4, <4>3 DEF NothingLost
        <5>2. i # 1
          BY <2>2, <3>4, <4>3, <5>1 DEF Artifact
        <5>3. i - 1 \in 1 .. Len(queue[t]) - 1 /\ (i - 1) + 1 = i
          BY <2>2, <5>2
        <5>4. i - 1 \in 1 .. Len(queue'[t]) /\ queue'[t][i - 1] = queue[t][i]
          BY <1>1, <2>2, <4>1, <5>3
        <5> QED
          BY <5>1, <5>4
      <4> QED
        BY <4>2, <4>3
    <3> QED
      BY <1>1, <3>1, <3>4, <3>5, <3>6 DEF StreamInv
  <2>7. CASE u.kind = "status"
    <3>1. Len(queue[t]) = 1 /\ dpc[t] = "over" /\ u = Status(FinalState(t), TRUE)
      <4>1. 1 \in 1 .. Len(queue[t])
        BY <2>2
      <4> QED
        BY <2>1, <2>2, <2>7, <4>1 DEF QueueTells
    <3>2. IsFinal(u) /\ u.state = FinalState(t)
      BY <3>1 DEF IsFinal, Status
    <3>3. says = IF outcome[t] # "ok" THEN <<Notice>> ELSE <<>>
      BY <2>7, <3>2, SentFits DEF StreamResultToEvents
    <3>4. Announced(t) = texts[t]
      <4>1. ops[t] = <<>>
        BY <3>1 DEF ServerInv, OutputInv
      <4>2. ChunksFrom(<<>>, 1) = {}
        BY DEF ChunksFrom
      <4> QED
        BY <4>1, <4>2 DEF Announced, Queued
    <3>5. Cardinality(texts[t]) < Capacity => First(t) \subseteq EventsOf(heard[t])
      <4> SUFFICES ASSUME Cardinality(texts[t]) < Capacity, NEW n \in First(t), n \notin EventsOf(heard[t]) PROVE FALSE
        OBVIOUS
      <4>1. n \in Announced(t) \cap First(t)
        BY <3>4 DEF First
      <4>2. PICK i \in 1 .. Len(queue[t]) : queue[t][i] = Artifact(n, TRUE)
        BY <2>1, <4>1 DEF NothingLost
      <4>3. i = 1
        BY <3>1
      <4> QED
        BY <2>2, <2>7, <4>2, <4>3 DEF Artifact
    <3>6. Told(t)'
      <4> HIDE DEF u, says
      <4>1. CASE outcome[t] = "ok"
        <5>1. heard'[t] = heard[t]
          BY <1>1, <2>3, <3>3, <4>1, HeardMore
        <5> QED
          BY <1>1, <2>1, <2>4, <3>5, <4>1, <5>1 DEF Told
      <4>2. CASE outcome[t] # "ok"
        <5>1. heard'[t] = heard[t] \o <<Notice>>
          BY <1>1, <3>3, <4>2
        <5>2. /\ Range(heard[t] \o <<Notice>>) = Range(heard[t]) \cup {Notice}
              /\ EventsOf(heard[t]) \subseteq EventsOf(heard[t] \o <<Notice>>)
              /\ Len(heard[t] \o <<Notice>>) = Len(heard[t]) + 1
              /\ (heard[t] \o <<Notice>>)[Len(heard[t]) + 1] = Notice
          BY <2>3, HeardMore
        <5>3. Notice \in Range(heard'[t]) /\ heard'[t][Len(heard'[t])] = Notice /\ EventsOf(heard[t]) \subseteq EventsOf(heard'[t])
          BY <5>1, <5>2
        <5> QED
          BY <1>1, <2>4, <3>5, <4>2, <5>3 DEF Told
      <4> QED
        BY <4>1, <4>2
    <3> QED
      BY <1>1, <3>1, <3>2, <3>6 DEF StreamInv
  <2> QED
    BY <2>5, <2>6, <2>7
<1> QED
  BY <1>1, <1>2, <1>3 DEF Tells

LEMMA TellsNext == SystemInv /\ TellsInv /\ [ClientNext]_allVars => TellsInv'
<1> SUFFICES ASSUME SystemInv, TellsInv, [ClientNext]_allVars, NEW x \in Task PROVE Tells(x)'
  BY DEF TellsInv
<1>0. Tells(x)
  BY DEF TellsInv
<1>1. CASE UNCHANGED allVars
  <2>1. Cancelled(x)' = Cancelled(x)
    BY <1>1 DEF allVars, vars, serverVars, Cancelled
  <2> QED
    BY <1>0, <1>1, <2>1, TellsFrame DEF allVars, vars, taskVars, serverVars, clientVars
<1>2. CASE Elsewhere
  BY <1>2, TellsElsewhere
<1>3. ASSUME NEW t \in Task,
             Dispatch(t) \/ Refused(t) \/ ReadFrame(t) \/ ReadAnswer(t) \/ Break(t) \/ Unseen(t)
      PROVE  Tells(x)'
  <2>1. CASE x # t
    BY <1>3, <2>1, TellsOther
  <2>2. CASE x = t /\ Unseen(t)
    <3>1. UNCHANGED clientVars
      BY <2>2 DEF Unseen
    <3>2. CASE SetWorking(t) \/ AnnounceWorking(t) \/ RecordInvocation(t)
      BY <1>0, <2>2, <3>2, TellsEarly
    <3>3. CASE SubscribeStream(t)
      BY <1>0, <2>2, <3>3, TellsSubscribe
    <3>4. CASE DrainStep(t)
      BY <1>0, <2>2, <3>1, <3>4, TellsQuiet, TellsArtifact, TellsFinal DEF DrainStep
    <3> QED
      BY <2>2, <3>2, <3>3, <3>4 DEF Unseen
  <2>3. CASE x = t /\ ~ Unseen(t)
    BY <1>0, <1>3, <2>3, TellsEarly, TellsRead, TellsEnd
  <2> QED
    BY <2>1, <2>2, <2>3
<1> QED
  BY <1>1, <1>2, <1>3 DEF ClientNext

\* A message/stream that ends without a cancel tells how the run ended, and the run's
\* first text if the queue could hold all updates (client.rs:255-285, client.rs:470-523).
THEOREM EndIsTold == ClientSpec => []StreamTellsTheEnd
<1>1. ClientInit => TellsInv
  BY TellsInit
<1>2. SystemInv /\ TellsInv /\ [ClientNext]_allVars => TellsInv'
  BY TellsNext
<1>3. TellsInv => StreamTellsTheEnd
  BY TellsInvGives
<1> QED
  BY <1>1, <1>2, <1>3, SystemInvHolds, PTL DEF ClientSpec

-----------------------------------------------------------------------------
(* The push notifier: type correctness.                                    *)

Places    == {"new", "stored", "removed", "spawned", "ok", "error"}
SubPlaces == {"none", "receive", "deliver", "ending", "ended", "stopped"}
RunPlaces == {"new", "run", "settled", "over", "dropped"}
Cancels   == {"no", "checked", "set", "done"}

\* A task exists from the first step of its run on, and the run has a status from the
\* moment it is written.
TaskOfRun ==
    \A t \in Task : /\ agent[t] # "new" => Exists(t)
                    /\ agent[t] \in {"settled", "over"} => settledAs[t] \in Outcome

\* The types in three parts: the tasks, their runs, and everything about webhooks.
RunOK ==
    /\ agent \in [Task -> RunPlaces] /\ updates \in [Task -> 0 .. MaxUpdates]
    /\ settledAs \in [Task -> Outcome \cup {"none"}] /\ cancels \in [Task -> Cancels]
    /\ TaskOfRun

WebhookOK ==
    /\ owner \in [Call -> Task] /\ key \in Asks
    /\ configs \in [Keys -> Setter \cup {None}] /\ active \in [Keys -> Setter \cup {None}]
    /\ spc \in [Setter -> Places] /\ delpc \in [Deleter -> {"new", "deleted", "ok"}]
    /\ sub \in [Setter -> SubPlaces] /\ aborted \subseteq Setter
    /\ sending \in [Setter -> Update \cup {None}] /\ tries \in [Setter -> 0 .. Attempts]
    /\ up \in BOOLEAN /\ muddled \subseteq Keys

Types == TaskTypeOK /\ RunOK /\ WebhookOK

LEMMA TypesGiveTypeOK == Types => NotifierTypeOK
BY DEF Types, RunOK, WebhookOK, NotifierTypeOK, Places, SubPlaces, RunPlaces, Cancels

\* What a call is about.
LEMMA KeyTypes ==
    ASSUME WebhookOK
    PROVE  /\ \A s \in Setter : KeyOf(s) \in Keys
           /\ \A d \in Deleter : KeysOf(d) \subseteq Keys
           /\ \A keys \in SUBSET Keys : Handles(keys) \subseteq Setter
BY AsksAssumption DEF WebhookOK, KeyOf, KeysOf, Keys, Handles, Call

LEMMA InitTypes == NotifierInit => Types
<1> SUFFICES ASSUME NotifierInit PROVE Types
  OBVIOUS
<1>1. TaskTypeOK
  <2>1. <<>> \in Seq(Nat) /\ <<>> \in Seq(Update)
    OBVIOUS
  <2>2. NoTask \in TaskRecord
    BY <2>1 DEF NoTask, TaskRecord
  <2> QED
    BY <2>1, <2>2 DEF NotifierInit, TaskInit, TaskTypeOK
<1>2. RunOK
  BY UpdatesAssumption DEF NotifierInit, RunOK, RunPlaces, Cancels, TaskOfRun
<1>3. WebhookOK
  BY AttemptsAssumption DEF NotifierInit, WebhookOK, Places, SubPlaces
<1> QED
  BY <1>1, <1>2, <1>3 DEF Types

\* The calls.
LEMMA CallTypes ==
    ASSUME Types,
           \/ \E s \in Setter : SetStep(s) \/ SetRefused(s)
           \/ \E d \in Deleter : DeleteStep(d)
           \/ DropNotifier
    PROVE  Types'
<1> USE DEF Types
<1>1. ASSUME UNCHANGED <<taskVars, runVars>>, WebhookOK' PROVE Types'
  BY <1>1 DEF TaskTypeOK, RunOK, TaskOfRun, Exists, taskVars, runVars
<1>2. ASSUME NEW s \in Setter, SetRefused(s) PROVE Types'
  BY <1>1, <1>2 DEF SetRefused, subVars, fixed, WebhookOK, Places
<1>3. ASSUME NEW s \in Setter, SetConfig(s) PROVE Types'
  BY <1>1, <1>3, KeyTypes DEF SetConfig, subVars, fixed, WebhookOK, Places
<1>4. ASSUME NEW s \in Setter, RegisterRemoves(s) PROVE Types'
  <2>1. Handles({KeyOf(s)}) \subseteq Setter
    BY KeyTypes
  <2> QED
    BY <1>1, <1>4, <2>1, KeyTypes DEF RegisterRemoves, subVars, fixed, WebhookOK, Places
<1>5. ASSUME NEW s \in Setter, RegisterSpawns(s) PROVE Types'
  <2>1. WebhookOK'
    BY <1>5 DEF RegisterSpawns, subVars, fixed, WebhookOK, Places, SubPlaces
  <2>2. TaskTypeOK' /\ tasks' = tasks
    <3>1. owner[s] \in Task
      BY DEF WebhookOK, Call
    <3>2. Subscribe(s, owner[s]) \/ UNCHANGED taskVars
      BY <1>5 DEF RegisterSpawns
    <3> QED
      BY <3>1, <3>2, ReceiverTypes, SetterAssumption DEF TaskTypeOK, taskVars
  <2> QED
    BY <1>5, <2>1, <2>2 DEF RegisterSpawns, RunOK, TaskOfRun, Exists, runVars
<1>6. ASSUME NEW s \in Setter, RegisterInserts(s) PROVE Types'
  BY <1>1, <1>6, KeyTypes DEF RegisterInserts, subVars, fixed, WebhookOK, Places
<1>7. ASSUME NEW d \in Deleter, DeleteConfig(d) PROVE Types'
  BY <1>1, <1>7, KeyTypes DEF DeleteConfig, subVars, fixed, WebhookOK
<1>8. ASSUME NEW d \in Deleter, Unregister(d) PROVE Types'
  BY <1>1, <1>8, KeyTypes DEF Unregister, subVars, fixed, WebhookOK
<1>9. ASSUME DropNotifier PROVE Types'
  BY <1>1, <1>9, KeyTypes DEF DropNotifier, subVars, fixed, WebhookOK
<1> QED
  BY <1>2, <1>3, <1>4, <1>5, <1>6, <1>7, <1>8, <1>9 DEF SetStep, DeleteStep

\* The subscribers.
LEMMA SubTypes == ASSUME Types, NEW s \in Setter, SubStep(s) PROVE Types'
<1> USE DEF Types
<1>1. ASSUME WebhookOK', TaskTypeOK', UNCHANGED <<tasks, runVars>> PROVE Types'
  BY <1>1 DEF RunOK, TaskOfRun, Exists, runVars
<1>2. CASE ReceiveUpdate(s)
  <2>1. Head(queue[s]) \in Update
    BY <1>2, SetterAssumption DEF ReceiveUpdate, Receive, TaskTypeOK
  <2>2. WebhookOK'
    BY <1>2, <2>1, AttemptsAssumption DEF ReceiveUpdate, Sub, pushVars, fixed, WebhookOK, SubPlaces
  <2> QED
    BY <1>1, <1>2, <2>2, ReceiverTypes, SetterAssumption DEF ReceiveUpdate
<1>3. CASE Post(s)
  <2>1. sub' \in [Setter -> SubPlaces]
    BY <1>3 DEF Post, Sub, AfterDelivery, WebhookOK, SubPlaces
  <2>2. sending' \in [Setter -> Update \cup {None}]
    BY <1>3 DEF Post, Delivered, WebhookOK
  <2>3. tries' \in [Setter -> 0 .. Attempts]
    BY <1>3, AttemptsAssumption DEF Post, Delivered, WebhookOK
  <2>4. WebhookOK'
    BY <1>3, <2>1, <2>2, <2>3 DEF Post, pushVars, fixed, WebhookOK
  <2> QED
    BY <1>1, <1>3, <2>4 DEF Post, taskVars, TaskTypeOK
<1>4. CASE Cleanup(s)
  <2>1. WebhookOK'
    BY <1>4, KeyTypes DEF Cleanup, Sub, fixed, WebhookOK, SubPlaces
  <2> QED
    BY <1>1, <1>4, <2>1, ReceiverTypes, SetterAssumption DEF Cleanup
<1>5. CASE Stopped(s)
  <2>1. WebhookOK'
    BY <1>5, AttemptsAssumption DEF Stopped, pushVars, fixed, WebhookOK, SubPlaces
  <2> QED
    BY <1>1, <1>5, <2>1, ReceiverTypes, SetterAssumption DEF Stopped
<1> QED
  BY <1>2, <1>3, <1>4, <1>5 DEF SubStep

\* The run of a task, and the calls that cancel it.
LEMMA RunTypes ==
    ASSUME Types, NEW t \in Task,
           TaskCreated(t) \/ RunDropped(t) \/ RunStep(t) \/ CancelChecked(t) \/ CancelTaskStep(t)
    PROVE  Types'
<1> USE DEF Types
<1>1. WebhookOK'
  BY DEF TaskCreated, RunDropped, RunStep, ArtifactAppended, TaskSettled, FinalAnnounced, CancelChecked,
         CancelTaskStep, TaskCanceled, CancelAnnounced, pushVars, subVars, fixed, WebhookOK
<1>2. ASSUME NEW to \in Cancels, NEW from \in Cancels, Cancel(t, from, to), TaskTypeOK',
             UNCHANGED <<agent, settledAs, updates>>, \A x \in Task : Exists(x) => Exists(x)'
      PROVE  Types'
  BY <1>1, <1>2 DEF Cancel, RunOK, TaskOfRun
<1>3. CASE TaskCreated(t)
  <2>1. NewTask \in TaskRecord /\ NewTask.state # "absent"
    <3>1. <<>> \in Seq(Nat)
      OBVIOUS
    <3> QED
      BY <3>1 DEF NewTask, NoTask, TaskRecord, TaskState
  <2>2. TaskTypeOK' /\ \A x \in Task : tasks'[x] = IF x = t THEN NewTask ELSE tasks[x]
    BY <1>3, <2>1 DEF TaskCreated, CreateTask, TaskTypeOK
  <2> QED
    BY <1>1, <1>3, <2>1, <2>2 DEF TaskCreated, Agent, RunOK, TaskOfRun, Exists, RunPlaces
<1>4. CASE ArtifactAppended(t)
  <2>1. updates[t] + 1 \in Nat /\ updates' \in [Task -> 0 .. MaxUpdates]
    BY <1>4, UpdatesAssumption DEF ArtifactAppended, RunOK
  <2>2. Artifact(updates[t] + 1, updates[t] = 0) \in Update
    BY <2>1 DEF Artifact, Update
  <2>3. TaskTypeOK' /\ tasks' = tasks
    BY <1>4, <2>2, BroadcastTypes DEF ArtifactAppended
  <2> QED
    BY <1>1, <1>4, <2>1, <2>3 DEF ArtifactAppended, Agent, RunOK, TaskOfRun, Exists, RunPlaces
<1>5. CASE TaskSettled(t)
  <2> PICK state \in Outcome : settledAs' = [settledAs EXCEPT ![t] = state] /\ SetStatus(t, state)
    BY <1>5 DEF TaskSettled
  <2>1. TaskTypeOK' /\ \A x \in Task : Exists(x) => Exists(x)'
    BY SetStatusTypes DEF Outcome, TaskState
  <2>2. UNCHANGED <<updates, cancels>> /\ agent[t] = "run" /\ agent' = [agent EXCEPT ![t] = "settled"]
    BY <1>5 DEF TaskSettled, Agent
  <2>3. TaskOfRun'
    BY <2>1, <2>2 DEF RunOK, TaskOfRun
  <2>4. RunOK'
    BY <2>2, <2>3 DEF RunOK, RunPlaces
  <2> QED
    BY <1>1, <2>1, <2>4
<1>6. CASE FinalAnnounced(t)
  <2>1. agent[t] = "settled" /\ settledAs[t] \in Outcome
    BY <1>6 DEF FinalAnnounced, Agent, RunOK, TaskOfRun
  <2>2. Status(settledAs[t], TRUE) \in Update
    BY <2>1 DEF Status, Update, Outcome, TaskState
  <2>3. TaskTypeOK' /\ tasks' = tasks
    BY <1>6, <2>2, BroadcastTypes DEF FinalAnnounced
  <2> QED
    BY <1>1, <1>6, <2>1, <2>3 DEF FinalAnnounced, Agent, RunOK, TaskOfRun, Exists, RunPlaces
<1>7. CASE RunDropped(t)
  <2>1. TaskTypeOK' /\ tasks' = tasks
    BY <1>7 DEF RunDropped, taskVars, TaskTypeOK
  <2> QED
    BY <1>1, <1>7, <2>1 DEF RunDropped, Agent, RunOK, TaskOfRun, Exists, RunPlaces
<1>8. CASE CancelChecked(t)
  <2>1. TaskTypeOK' /\ tasks' = tasks
    BY <1>8 DEF CancelChecked, taskVars, TaskTypeOK
  <2> QED
    BY <1>2, <1>8, <2>1 DEF CancelChecked, Cancels, Exists
<1>9. CASE TaskCanceled(t)
  <2>1. TaskTypeOK' /\ \A x \in Task : Exists(x) => Exists(x)'
    BY <1>9, SetStatusTypes DEF TaskCanceled, TaskState
  <2> QED
    BY <1>2, <1>9, <2>1 DEF TaskCanceled, Cancels
<1>10. CASE CancelAnnounced(t)
  <2>1. Status("canceled", TRUE) \in Update
    BY DEF Status, Update, TaskState
  <2>2. TaskTypeOK' /\ tasks' = tasks
    BY <1>10, <2>1, BroadcastTypes DEF CancelAnnounced
  <2> QED
    BY <1>2, <1>10, <2>2 DEF CancelAnnounced, Cancels, Exists
<1> QED
  BY <1>3, <1>4, <1>5, <1>6, <1>7, <1>8, <1>9, <1>10 DEF RunStep, CancelTaskStep

LEMMA NextTypes == Types /\ [NotifierNext]_notifierVars => Types'
<1> SUFFICES ASSUME Types, [NotifierNext]_notifierVars PROVE Types'
  OBVIOUS
<1>1. CASE UNCHANGED notifierVars
  BY <1>1 DEF notifierVars, taskVars, pushVars, subVars, runVars, fixed, Types, TaskTypeOK, RunOK, TaskOfRun,
              Exists, WebhookOK
<1> QED
  BY <1>1, CallTypes, SubTypes, RunTypes DEF NotifierNext

LEMMA TypesHold == NotifierSpec => []Types
BY InitTypes, NextTypes, PTL DEF NotifierSpec

\* Every state is type correct (push_notifier.rs, task_service.rs); it needs that a
\* task exists once its run has begun (TaskOfRun).
THEOREM TypeCorrect == NotifierSpec => []NotifierTypeOK
BY TypesHold, TypesGiveTypeOK, PTL

-----------------------------------------------------------------------------
(* Subscribers and handles.                                                *)

\* The subscriber of a call runs from the call's spawn on, and its handle is in the
\* map, or was taken out and aborted, after the call only.
HandleInv ==
    /\ \A s \in Setter : spc[s] \notin {"spawned", "ok"} => sub[s] = "none"
    /\ \A k \in Keys : active[k] # None => KeyOf(active[k]) = k /\ spc[active[k]] = "ok"
    /\ \A s \in aborted : spc[s] = "ok"

\* The calls about one configuration, as long as they do not overlap: at most one
\* set call is under way, and then no delete call is.
Apart(k) ==
    /\ \A r, s \in SettingNow(k) : r = s
    /\ SettingNow(k) # {} => DeletingNow(k) = {}

\* What they have done so far.
Progress(k) ==
    /\ \A s \in SettingNow(k) : configs[k] = s /\ (spc[s] # "stored" => active[k] = None)
    /\ DeletingNow(k) # {} => configs[k] = None

\* A subscriber whose call is over runs under its handle and, between the calls, for
\* the stored configuration; one that ends has no successor in the map yet.
Subscribers(k) ==
    /\ \A s \in Setter :
          KeyOf(s) = k /\ Running(s) /\ spc[s] = "ok" =>
              active[k] = s /\ (SettingNow(k) \cup DeletingNow(k) = {} => configs[k] = s)
    /\ \A s \in EndingNow(k) : active[k] \in {None, s}

ConfigInv == \A k \in Keys \ muddled : Apart(k) /\ Progress(k) /\ Subscribers(k)

LEMMA InvGivesOne == WebhookOK /\ HandleInv /\ ConfigInv => OneSubscriberPerConfig
<1> SUFFICES ASSUME WebhookOK, HandleInv, ConfigInv,
                    NEW k \in Keys \ muddled, SettingNow(k) \cup DeletingNow(k) = {},
                    NEW s \in Setter, KeyOf(s) = k, Running(s)
             PROVE  active[k] = s /\ configs[k] = s
  BY DEF OneSubscriberPerConfig
<1>1. spc[s] = "ok"
  BY DEF HandleInv, SettingNow, Running
<1> QED
  BY <1>1 DEF ConfigInv, Subscribers

\* The steps that are about neither calls nor handles.
LEMMA QuietHandles ==
    ASSUME WebhookOK, HandleInv, ConfigInv, StoppedOnlyIfReplaced,
           UNCHANGED <<fixed, pushVars, aborted, up>>,
           \A s \in Setter : \/ sub'[s] = sub[s]
                             \/ /\ sub[s] # "none" /\ sub'[s] \in {"ended", "stopped"}
                             \/ sub[s] \in {"receive", "deliver"} /\ sub'[s] \in {"receive", "deliver"}
                             \/ Running(s) /\ sub'[s] = "ending"
    PROVE  HandleInv' /\ ConfigInv' /\ StoppedOnlyIfReplaced'
<1>1. \A s \in Setter : KeyOf(s)' = KeyOf(s)
  BY DEF fixed, KeyOf
<1>2. \A k \in Keys : SettingNow(k)' = SettingNow(k) /\ DeletingNow(k)' = DeletingNow(k)
  BY <1>1 DEF pushVars, fixed, SettingNow, DeletingNow, KeysOf
<1>3. HandleInv'
  BY <1>1 DEF HandleInv, pushVars, Running, WebhookOK
<1>4. StoppedOnlyIfReplaced'
  BY <1>1 DEF StoppedOnlyIfReplaced, pushVars, WebhookOK
<1>5. ASSUME NEW k \in Keys \ muddled PROVE Apart(k)' /\ Progress(k)' /\ Subscribers(k)'
  <2>1. Apart(k)' /\ Progress(k)'
    BY <1>2 DEF ConfigInv, Apart, Progress, pushVars, SettingNow
  <2>2. \A s \in Setter : Running(s)' => Running(s)
    BY DEF Running
  <2>3. ASSUME NEW s \in EndingNow(k)' PROVE active'[k] \in {None, s}
    <3>1. s \in Setter /\ KeyOf(s) = k /\ (s \in EndingNow(k) \/ Running(s))
      BY <1>1, <2>3 DEF EndingNow
    <3>2. CASE s \in EndingNow(k)
      BY <3>2 DEF ConfigInv, Subscribers, pushVars
    <3>3. CASE Running(s) /\ spc[s] = "ok"
      BY <3>1, <3>3 DEF ConfigInv, Subscribers, pushVars
    <3>4. CASE Running(s) /\ spc[s] # "ok"
      <4>1. s \in SettingNow(k) /\ spc[s] = "spawned"
        BY <3>1, <3>4 DEF HandleInv, Running, SettingNow
      <4> QED
        BY <4>1 DEF ConfigInv, Progress, pushVars
    <3> QED
      BY <3>1, <3>2, <3>3, <3>4
  <2>4. \A s \in Setter : KeyOf(s) = k /\ Running(s)' /\ spc[s] = "ok" =>
            active[k] = s /\ (SettingNow(k) \cup DeletingNow(k) = {} => configs[k] = s)
    BY <2>2 DEF ConfigInv, Subscribers
  <2>5. Subscribers(k)'
    BY <1>1, <1>2, <2>3, <2>4 DEF Subscribers, pushVars
  <2> QED
    BY <2>1, <2>5
<1> QED
  BY <1>3, <1>4, <1>5 DEF ConfigInv, pushVars

\* SetConfig and DeleteConfig: the calls about a configuration stay apart, or it is
\* muddled from then on.
LEMMA SetConfigHandles ==
    ASSUME WebhookOK, HandleInv, ConfigInv, StoppedOnlyIfReplaced, NEW s \in Setter, SetConfig(s)
    PROVE  HandleInv' /\ ConfigInv' /\ StoppedOnlyIfReplaced'
<1> DEFINE c == KeyOf(s)
<1>1. /\ spc[s] = "new" /\ s # None /\ c \in Keys
      /\ UNCHANGED <<active, delpc, sub, aborted, up, fixed>>
  BY KeyTypes, NoneAssumption DEF SetConfig, subVars
<1>2. \A r \in Setter : KeyOf(r)' = KeyOf(r) /\ spc'[r] = IF r = s THEN "stored" ELSE spc[r]
  BY <1>1 DEF SetConfig, fixed, KeyOf, WebhookOK
<1>3. \A k \in Keys : configs'[k] = IF k = c THEN s ELSE configs[k]
  BY <1>1 DEF SetConfig, WebhookOK
<1>4. \A k \in Keys : /\ DeletingNow(k)' = DeletingNow(k) /\ EndingNow(k)' = EndingNow(k)
                      /\ SettingNow(k)' = IF k = c THEN SettingNow(k) \cup {s} ELSE SettingNow(k)
  BY <1>1, <1>2 DEF DeletingNow, EndingNow, SettingNow, KeysOf, fixed
<1>5. HandleInv'
  BY <1>1, <1>2 DEF HandleInv, WebhookOK
<1>6. StoppedOnlyIfReplaced'
  <2>1. \A r \in aborted : r # s
    BY <1>1 DEF HandleInv
  <2> QED
    BY <1>1, <1>2, <1>3, <2>1, KeyTypes DEF StoppedOnlyIfReplaced, SetConfig, WebhookOK
<1>7. ASSUME NEW k \in Keys \ muddled' PROVE Apart(k)' /\ Progress(k)' /\ Subscribers(k)'
  <2>1. k \in Keys \ muddled /\ (k = c => SettingNow(k) = {} /\ DeletingNow(k) = {})
    BY <1>7 DEF SetConfig
  <2>2. Apart(k) /\ Progress(k) /\ Subscribers(k)
    BY <2>1 DEF ConfigInv
  <2>3. \A r \in Setter : Running(r)' = Running(r)
    BY <1>1 DEF Running
  <2>4. Apart(k)'
    BY <1>4, <2>1, <2>2 DEF Apart
  <2>5. Progress(k)'
    <3>1. k = c => SettingNow(k)' = {s} /\ DeletingNow(k)' = {}
      BY <1>4, <2>1
    <3>2. \A r \in SettingNow(k) : r \in Setter /\ r # s
      BY <1>1 DEF SettingNow
    <3>3. CASE k = c
      BY <1>2, <1>3, <3>1, <3>3 DEF Progress
    <3>4. CASE k # c
      BY <1>1, <1>2, <1>3, <1>4, <2>2, <3>2, <3>4 DEF Progress
    <3> QED
      BY <3>3, <3>4
  <2>6. Subscribers(k)'
    BY <1>1, <1>2, <1>3, <1>4, <2>1, <2>2, <2>3 DEF Subscribers
  <2> QED
    BY <2>4, <2>5, <2>6
<1> QED
  BY <1>5, <1>6, <1>7 DEF ConfigInv

LEMMA DeleteConfigHandles ==
    ASSUME WebhookOK, HandleInv, ConfigInv, StoppedOnlyIfReplaced, NEW d \in Deleter, DeleteConfig(d)
    PROVE  HandleInv' /\ ConfigInv' /\ StoppedOnlyIfReplaced'
<1>1. UNCHANGED <<active, spc, sub, aborted, up, fixed>>
  BY DEF DeleteConfig, subVars
<1>2. \A r \in Setter : KeyOf(r)' = KeyOf(r) /\ Running(r)' = Running(r)
  BY <1>1 DEF fixed, KeyOf, Running
<1>3. \A k \in Keys : configs'[k] = IF k \in KeysOf(d) THEN None ELSE configs[k]
  BY DEF DeleteConfig
<1>4. \A k \in Keys :
          /\ SettingNow(k)' = SettingNow(k) /\ EndingNow(k)' = EndingNow(k)
          /\ DeletingNow(k)' = IF k \in KeysOf(d) THEN DeletingNow(k) \cup {d} ELSE DeletingNow(k)
  <2>1. \A e \in Deleter : delpc'[e] = IF e = d THEN "deleted" ELSE delpc[e]
    BY DEF DeleteConfig, WebhookOK
  <2>2. \A e \in Deleter : KeysOf(e)' = KeysOf(e)
    BY <1>1 DEF KeysOf, fixed
  <2>3. delpc[d] = "new"
    BY DEF DeleteConfig
  <2> QED
    BY <1>1, <1>2, <2>1, <2>2, <2>3 DEF DeletingNow, EndingNow, SettingNow
<1>5. HandleInv'
  BY <1>1, <1>2 DEF HandleInv, WebhookOK
<1>6. StoppedOnlyIfReplaced'
  BY <1>1, <1>2, <1>3, KeyTypes, NoneAssumption DEF StoppedOnlyIfReplaced, DeleteConfig, WebhookOK
<1>7. ASSUME NEW k \in Keys \ muddled' PROVE Apart(k)' /\ Progress(k)' /\ Subscribers(k)'
  <2>1. k \in Keys \ muddled /\ (k \in KeysOf(d) => SettingNow(k) = {})
    BY <1>7 DEF DeleteConfig
  <2>2. Apart(k) /\ Progress(k) /\ Subscribers(k)
    BY <2>1 DEF ConfigInv
  <2>3. Apart(k)' /\ Progress(k)'
    BY <1>1, <1>3, <1>4, <2>1, <2>2 DEF Apart, Progress
  <2>4. Subscribers(k)'
    BY <1>1, <1>2, <1>3, <1>4, <2>1, <2>2 DEF Subscribers
  <2> QED
    BY <2>3, <2>4
<1> QED
  BY <1>5, <1>6, <1>7 DEF ConfigInv

\* The handles that are taken out of the map are aborted, and none of them is of a
\* stored configuration that is not muddled.
LEMMA RemovesHandles ==
    ASSUME WebhookOK, HandleInv, ConfigInv, StoppedOnlyIfReplaced, NEW keys \in SUBSET Keys,
           UNCHANGED <<configs, sub, fixed, muddled>>,
           active' = [k \in Keys |-> IF k \in keys THEN None ELSE active[k]],
           aborted' = aborted \cup Handles(keys),
           \A s \in Setter : spc'[s] = spc[s] \/ (spc[s] = "stored" /\ spc'[s] = "removed"),
           \A s \in Setter : spc[s] = "stored" /\ spc'[s] = "removed" => KeyOf(s) \in keys,
           \A k \in Keys : DeletingNow(k)' \subseteq DeletingNow(k)
                           /\ (DeletingNow(k)' # DeletingNow(k) => k \in keys),
           \/ ~ up' \/ (up' = up /\ \A k \in keys \ muddled : configs[k] # active[k] \/ active[k] = None)
    PROVE  HandleInv' /\ ConfigInv' /\ StoppedOnlyIfReplaced'
<1>1. \A r \in Setter : KeyOf(r)' = KeyOf(r)
  BY DEF fixed, KeyOf
<1>2. \A k \in Keys : SettingNow(k)' = SettingNow(k) /\ EndingNow(k)' = EndingNow(k)
  BY <1>1 DEF SettingNow, EndingNow
<1>3. \A r \in aborted' : r \in aborted \/ \E k \in keys : r = active[k] /\ r # None /\ r \in Setter
  BY DEF Handles, WebhookOK
<1>4. HandleInv'
  <2>1. \A s \in aborted' : spc[s] = "ok" /\ s \in Setter
    BY <1>3 DEF HandleInv, WebhookOK
  <2> QED
    BY <1>1, <2>1 DEF HandleInv, WebhookOK
<1>5. StoppedOnlyIfReplaced'
  <2>1. ASSUME NEW r \in aborted', up' PROVE configs[KeyOf(r)] # r \/ KeyOf(r) \in muddled
    <3>1. CASE r \in aborted
      BY <2>1, <3>1 DEF StoppedOnlyIfReplaced
    <3>2. ASSUME NEW k \in keys, r = active[k], r # None PROVE configs[KeyOf(r)] # r \/ KeyOf(r) \in muddled
      BY <2>1, <3>2 DEF HandleInv
    <3> QED
      BY <1>3, <3>1, <3>2
  <2> QED
    BY <1>1, <1>3, <2>1 DEF StoppedOnlyIfReplaced, WebhookOK
<1>6. ASSUME NEW k \in Keys \ muddled PROVE Apart(k)' /\ Progress(k)' /\ Subscribers(k)'
  <2>1. Apart(k) /\ Progress(k) /\ Subscribers(k)
    BY DEF ConfigInv
  <2>2. active'[k] = IF k \in keys THEN None ELSE active[k]
    OBVIOUS
  <2>3. Apart(k)'
    BY <1>2, <2>1 DEF Apart
  <2>4. Progress(k)'
    BY <1>2, <2>1, <2>2 DEF Progress, SettingNow
  <2>5. ASSUME NEW s \in Setter, KeyOf(s) = k, Running(s)', spc'[s] = "ok"
        PROVE  /\ active[k] = s /\ k \notin keys
               /\ SettingNow(k) \cup DeletingNow(k)' = {} => configs[k] = s
    <3>1. Running(s) /\ spc[s] = "ok" /\ active[k] = s
      BY <2>1, <2>5 DEF Running, Subscribers
    <3>2. k \notin keys
      BY <2>5, <3>1, NoneAssumption DEF Running, Handles
    <3> QED
      BY <2>1, <2>5, <3>1, <3>2 DEF Subscribers
  <2>6. Subscribers(k)'
    BY <1>1, <1>2, <2>1, <2>2, <2>5 DEF Subscribers
  <2> QED
    BY <2>3, <2>4, <2>6
<1> QED
  BY <1>4, <1>5, <1>6 DEF ConfigInv

LEMMA RegisterRemovesHandles ==
    ASSUME WebhookOK, HandleInv, ConfigInv, StoppedOnlyIfReplaced, NEW s \in Setter, RegisterRemoves(s)
    PROVE  HandleInv' /\ ConfigInv' /\ StoppedOnlyIfReplaced'
<1>1. UNCHANGED <<configs, sub, fixed, muddled, up, delpc>> /\ spc[s] = "stored" /\ KeyOf(s) \in Keys
  BY KeyTypes DEF RegisterRemoves, subVars
<1>2. \A r \in Setter : spc'[r] = IF r = s THEN "removed" ELSE spc[r]
  BY DEF RegisterRemoves, WebhookOK
<1>3. active' = [k \in Keys |-> IF k \in {KeyOf(s)} THEN None ELSE active[k]]
  BY DEF RegisterRemoves, WebhookOK
<1>4. aborted' = aborted \cup Handles({KeyOf(s)})
  BY DEF RegisterRemoves
<1>5. \A k \in Keys : DeletingNow(k)' = DeletingNow(k)
  BY <1>1 DEF DeletingNow, KeysOf, fixed
<1>6. KeyOf(s) \notin muddled => configs[KeyOf(s)] # active[KeyOf(s)] \/ active[KeyOf(s)] = None
  <2>1. KeyOf(s) \notin muddled => configs[KeyOf(s)] = s
    BY <1>1 DEF ConfigInv, Progress, SettingNow
  <2>2. active[KeyOf(s)] # s \/ s = None
    BY <1>1 DEF HandleInv
  <2> QED
    BY <2>1, <2>2
<1> QED
  BY <1>1, <1>2, <1>3, <1>4, <1>5, <1>6, RemovesHandles

LEMMA UnregisterHandles ==
    ASSUME WebhookOK, HandleInv, ConfigInv, StoppedOnlyIfReplaced, NEW d \in Deleter, Unregister(d)
    PROVE  HandleInv' /\ ConfigInv' /\ StoppedOnlyIfReplaced'
<1>1. UNCHANGED <<configs, sub, fixed, muddled, up, spc>> /\ delpc[d] = "deleted" /\ KeysOf(d) \in SUBSET Keys
  BY KeyTypes DEF Unregister, subVars
<1>2. \A e \in Deleter : delpc'[e] = IF e = d THEN "ok" ELSE delpc[e]
  BY DEF Unregister, WebhookOK
<1>3. /\ active' = [k \in Keys |-> IF k \in KeysOf(d) THEN None ELSE active[k]]
      /\ aborted' = aborted \cup Handles(KeysOf(d))
  BY DEF Unregister
<1>4. \A k \in Keys : DeletingNow(k)' \subseteq DeletingNow(k)
                      /\ (DeletingNow(k)' # DeletingNow(k) => k \in KeysOf(d))
  <2>1. \A e \in Deleter : KeysOf(e)' = KeysOf(e)
    BY <1>1 DEF KeysOf, fixed
  <2> QED
    BY <1>2, <2>1 DEF DeletingNow
<1>5. \A k \in KeysOf(d) \ muddled : configs[k] = None
  BY <1>1 DEF ConfigInv, Progress, DeletingNow
<1>6. \A k \in KeysOf(d) \ muddled : configs[k] # active[k] \/ active[k] = None
  BY <1>5
<1> QED
  BY <1>1, <1>3, <1>4, <1>6, RemovesHandles

\* RegisterSpawns and RegisterInserts.
LEMMA SpawnsHandles ==
    ASSUME WebhookOK, HandleInv, ConfigInv, StoppedOnlyIfReplaced, NEW s \in Setter, RegisterSpawns(s)
    PROVE  HandleInv' /\ ConfigInv' /\ StoppedOnlyIfReplaced'
<1>1. UNCHANGED <<configs, active, delpc, fixed, muddled, up, aborted>> /\ spc[s] = "removed"
  BY DEF RegisterSpawns
<1>2. \/ /\ \A r \in Setter : spc'[r] = IF r = s THEN "spawned" ELSE spc[r]
         /\ \A r \in Setter : sub'[r] = IF r = s THEN "receive" ELSE sub[r]
      \/ /\ \A r \in Setter : spc'[r] = IF r = s THEN "ok" ELSE spc[r]
         /\ sub' = sub
  BY DEF RegisterSpawns, WebhookOK
<1>3. \A r \in Setter : KeyOf(r)' = KeyOf(r)
  BY <1>1 DEF fixed, KeyOf
<1>4. \A k \in Keys : /\ DeletingNow(k)' = DeletingNow(k) /\ SettingNow(k) \ {s} \subseteq SettingNow(k)'
                      /\ SettingNow(k)' \subseteq SettingNow(k) /\ EndingNow(k)' \subseteq EndingNow(k)
  BY <1>1, <1>2, <1>3 DEF DeletingNow, SettingNow, EndingNow, KeysOf, fixed
<1>5. sub[s] = "none"
  BY <1>1 DEF HandleInv
<1>6. HandleInv'
  BY <1>1, <1>2, <1>3 DEF HandleInv, WebhookOK
<1>7. StoppedOnlyIfReplaced'
  BY <1>1, <1>3 DEF StoppedOnlyIfReplaced, WebhookOK
<1>8. ASSUME NEW k \in Keys \ muddled PROVE Apart(k)' /\ Progress(k)' /\ Subscribers(k)'
  <2>1. Apart(k) /\ Progress(k) /\ Subscribers(k)
    BY DEF ConfigInv
  <2>2. Apart(k)'
    BY <1>4, <2>1 DEF Apart
  <2>3. Progress(k)'
    <3>1. \A r \in SettingNow(k)' : spc'[r] # "stored" => spc[r] # "stored"
      BY <1>1, <1>2, <1>4 DEF SettingNow
    <3> QED
      BY <1>1, <1>4, <2>1, <3>1 DEF Progress
  <2>4. ASSUME NEW r \in Setter, KeyOf(r) = k, Running(r)', spc'[r] = "ok"
        PROVE  active[k] = r /\ (SettingNow(k)' \cup DeletingNow(k) = {} => configs[k] = r)
    <3>1. r # s /\ Running(r) /\ spc[r] = "ok"
      BY <1>1, <1>2, <1>5, <2>4 DEF Running
    <3>2. active[k] = r /\ r # None
      BY <2>1, <2>4, <3>1, NoneAssumption DEF Subscribers
    <3>3. s \notin SettingNow(k)
      BY <1>1, <2>1, <3>2 DEF Progress
    <3> QED
      BY <1>4, <2>1, <2>4, <3>1, <3>2, <3>3 DEF Subscribers
  <2>5. Subscribers(k)'
    BY <1>1, <1>3, <1>4, <2>1, <2>4 DEF Subscribers
  <2> QED
    BY <2>2, <2>3, <2>5
<1> QED
  BY <1>1, <1>6, <1>7, <1>8 DEF ConfigInv

LEMMA InsertsHandles ==
    ASSUME WebhookOK, HandleInv, ConfigInv, StoppedOnlyIfReplaced, NEW s \in Setter, RegisterInserts(s)
    PROVE  HandleInv' /\ ConfigInv' /\ StoppedOnlyIfReplaced'
<1> DEFINE c == KeyOf(s)
<1>1. UNCHANGED <<configs, delpc, sub, fixed, up, aborted>> /\ spc[s] = "spawned" /\ c \in Keys
  BY KeyTypes DEF RegisterInserts, subVars
<1>2. \A r \in Setter : spc'[r] = IF r = s THEN "ok" ELSE spc[r]
  BY DEF RegisterInserts, WebhookOK
<1>3. \A k \in Keys : active'[k] = IF k = c THEN s ELSE active[k]
  BY <1>1 DEF RegisterInserts, WebhookOK
<1>4. \A r \in Setter : KeyOf(r)' = KeyOf(r) /\ Running(r)' = Running(r)
  BY <1>1 DEF fixed, KeyOf, Running
<1>5. \A k \in Keys : /\ DeletingNow(k)' = DeletingNow(k) /\ EndingNow(k)' = EndingNow(k)
                      /\ SettingNow(k)' = SettingNow(k) \ {s}
  BY <1>1, <1>2, <1>4 DEF DeletingNow, SettingNow, EndingNow, KeysOf, fixed
<1>6. muddled \subseteq muddled' /\ (c \notin muddled' => EndingNow(c) \subseteq {s})
  BY DEF RegisterInserts
<1>7. HandleInv'
  BY <1>1, <1>2, <1>3, <1>4 DEF HandleInv, WebhookOK
<1>8. StoppedOnlyIfReplaced'
  BY <1>1, <1>4, <1>6 DEF StoppedOnlyIfReplaced, WebhookOK
<1>9. ASSUME NEW k \in Keys \ muddled' PROVE Apart(k)' /\ Progress(k)' /\ Subscribers(k)'
  <2>1. Apart(k) /\ Progress(k) /\ Subscribers(k)
    BY <1>6, <1>9 DEF ConfigInv
  <2>2. k = c => SettingNow(k)' = {} /\ configs[k] = s /\ active[k] = None
    <3>1. k = c => s \in SettingNow(k)
      BY <1>1 DEF SettingNow
    <3> QED
      BY <1>1, <1>5, <2>1, <3>1 DEF Apart, Progress
  <2>3. Apart(k)'
    BY <1>5, <2>1 DEF Apart
  <2>4. Progress(k)'
    BY <1>1, <1>2, <1>3, <1>5, <2>1, <2>2 DEF Progress
  <2>5. ASSUME k = c PROVE Subscribers(k)'
    <3>1. \A r \in Setter : KeyOf(r) = k /\ Running(r) /\ spc'[r] = "ok" => r = s
      BY <1>2, <2>1, <2>2, <2>5, NoneAssumption DEF Subscribers
    <3>2. active'[k] = s /\ configs'[k] = s
      BY <1>1, <1>3, <2>2, <2>5
    <3>3. EndingNow(k)' \subseteq {s}
      BY <1>5, <1>6, <1>9, <2>5
    <3> QED
      BY <1>4, <3>1, <3>2, <3>3 DEF Subscribers
  <2>6. ASSUME k # c PROVE Subscribers(k)'
    <3>1. s \notin SettingNow(k)
      BY <2>6 DEF SettingNow
    <3>2. SettingNow(k)' = SettingNow(k)
      BY <1>5, <3>1
    <3>3. active'[k] = active[k] /\ configs'[k] = configs[k]
      BY <1>1, <1>3, <2>6
    <3>4. \A r \in Setter : KeyOf(r) = k => spc'[r] = spc[r]
      BY <1>2, <2>6
    <3> QED
      BY <1>4, <1>5, <2>1, <3>2, <3>3, <3>4 DEF Subscribers
  <2> QED
    BY <2>3, <2>4, <2>5, <2>6
<1> QED
  BY <1>7, <1>8, <1>9 DEF ConfigInv

\* A subscriber that ends takes an entry out that is its own.
LEMMA CleanupHandles ==
    ASSUME WebhookOK, HandleInv, ConfigInv, StoppedOnlyIfReplaced, NEW s \in Setter, Cleanup(s)
    PROVE  HandleInv' /\ ConfigInv' /\ StoppedOnlyIfReplaced'
<1> DEFINE c == KeyOf(s)
<1>1. UNCHANGED <<configs, spc, delpc, fixed, up, aborted, muddled>> /\ sub[s] = "ending" /\ c \in Keys
  BY KeyTypes DEF Cleanup, Sub
<1>2. \A r \in Setter : sub'[r] = IF r = s THEN "ended" ELSE sub[r]
  BY DEF Cleanup, Sub, WebhookOK
<1>3. \A k \in Keys : active'[k] = IF k = c THEN None ELSE active[k]
  BY <1>1 DEF Cleanup, WebhookOK
<1>4. \A r \in Setter : KeyOf(r)' = KeyOf(r) /\ Running(r)' = Running(r)
  BY <1>1, <1>2 DEF fixed, KeyOf, Running
<1>5. \A k \in Keys : /\ DeletingNow(k)' = DeletingNow(k) /\ EndingNow(k)' \subseteq EndingNow(k)
                      /\ SettingNow(k)' = SettingNow(k)
  BY <1>1, <1>2, <1>4 DEF DeletingNow, SettingNow, EndingNow, KeysOf, fixed
<1>6. HandleInv'
  BY <1>1, <1>2, <1>3, <1>4 DEF HandleInv, WebhookOK
<1>7. StoppedOnlyIfReplaced'
  BY <1>1, <1>4 DEF StoppedOnlyIfReplaced, WebhookOK
<1>8. ASSUME NEW k \in Keys \ muddled PROVE Apart(k)' /\ Progress(k)' /\ Subscribers(k)'
  <2>1. Apart(k) /\ Progress(k) /\ Subscribers(k)
    BY DEF ConfigInv
  <2>2. Apart(k)' /\ Progress(k)'
    BY <1>1, <1>3, <1>5, <2>1 DEF Apart, Progress
  <2>3. \A r \in Setter : KeyOf(r) = c /\ Running(r) => r # s
    BY <1>1 DEF Running
  <2>4. k = c => active[k] \in {None, s}
    BY <1>1, <2>1 DEF Subscribers, EndingNow
  <2>5. k = c => \A r \in Setter : ~ (KeyOf(r) = k /\ Running(r) /\ spc[r] = "ok")
    BY <2>1, <2>3, <2>4, NoneAssumption DEF Subscribers
  <2>6. Subscribers(k)'
    BY <1>1, <1>3, <1>4, <1>5, <2>1, <2>5 DEF Subscribers
  <2> QED
    BY <2>2, <2>6
<1> QED
  BY <1>1, <1>6, <1>7, <1>8 DEF ConfigInv

HandlesInv == HandleInv /\ ConfigInv /\ StoppedOnlyIfReplaced

LEMMA NextHandles == Types /\ HandlesInv /\ [NotifierNext]_notifierVars => HandlesInv'
<1> SUFFICES ASSUME Types, HandleInv, ConfigInv, StoppedOnlyIfReplaced, [NotifierNext]_notifierVars
             PROVE  HandlesInv'
  BY DEF HandlesInv
<1> USE DEF HandlesInv
<1>1. WebhookOK
  BY DEF Types
<1>2. ASSUME NEW s \in Setter, SetStep(s) PROVE HandlesInv'
  BY <1>1, <1>2, SetConfigHandles, RegisterRemovesHandles, SpawnsHandles, InsertsHandles DEF SetStep
<1>3. ASSUME NEW s \in Setter, SetRefused(s) PROVE HandlesInv'
  <2>1. UNCHANGED <<configs, active, delpc, sub, aborted, fixed, up, muddled>>
    BY <1>3 DEF SetRefused, subVars
  <2>2. \A r \in Setter : /\ KeyOf(r)' = KeyOf(r) /\ Running(r)' = Running(r)
                          /\ spc'[r] = IF r = s THEN "error" ELSE spc[r]
    BY <1>1, <1>3, <2>1 DEF SetRefused, fixed, KeyOf, Running, WebhookOK
  <2>3. spc[s] = "new"
    BY <1>3 DEF SetRefused
  <2>4. \A k \in Keys : /\ SettingNow(k)' = SettingNow(k) /\ EndingNow(k)' = EndingNow(k)
                        /\ DeletingNow(k)' = DeletingNow(k)
    BY <2>1, <2>2, <2>3 DEF SettingNow, EndingNow, DeletingNow, KeysOf, fixed
  <2>5. HandleInv'
    BY <1>1, <2>1, <2>2, <2>3 DEF HandleInv, WebhookOK
  <2>6. StoppedOnlyIfReplaced'
    BY <1>1, <2>1, <2>2 DEF StoppedOnlyIfReplaced, WebhookOK
  <2>7. ASSUME NEW k \in Keys \ muddled PROVE Apart(k)' /\ Progress(k)' /\ Subscribers(k)'
    <3>1. Apart(k) /\ Progress(k) /\ Subscribers(k)
      BY DEF ConfigInv
    <3>2. Apart(k)' /\ Progress(k)'
      BY <2>1, <2>2, <2>4, <3>1 DEF Apart, Progress, SettingNow
    <3>3. Subscribers(k)'
      BY <2>1, <2>2, <2>4, <3>1 DEF Subscribers
    <3> QED
      BY <3>2, <3>3
  <2> QED
    BY <2>1, <2>5, <2>6, <2>7 DEF ConfigInv
<1>4. ASSUME NEW s \in Setter, SubStep(s) PROVE HandlesInv'
  <2>1. CASE Cleanup(s)
    BY <1>1, <2>1, CleanupHandles
  <2>2. CASE ReceiveUpdate(s)
    BY <1>1, <2>2, QuietHandles DEF ReceiveUpdate, Sub, WebhookOK
  <2>3. CASE Post(s)
    <3>1. /\ sub[s] = "deliver" /\ Running(s) /\ sub' \in {sub, [sub EXCEPT ![s] = AfterDelivery(s)]}
          /\ UNCHANGED <<fixed, pushVars, aborted, up>> /\ AfterDelivery(s) \in {"ending", "receive"}
      BY <2>3 DEF Post, Sub, Running, AfterDelivery
    <3> QED
      BY <1>1, <3>1, QuietHandles DEF WebhookOK
  <2>4. CASE Stopped(s)
    BY <1>1, <2>4, QuietHandles DEF Stopped, WebhookOK
  <2> QED
    BY <1>4, <2>1, <2>2, <2>3, <2>4 DEF SubStep
<1>5. ASSUME NEW d \in Deleter, DeleteStep(d) PROVE HandlesInv'
  BY <1>1, <1>5, DeleteConfigHandles, UnregisterHandles DEF DeleteStep
<1>6. ASSUME NEW t \in Task,
             TaskCreated(t) \/ RunDropped(t) \/ RunStep(t) \/ CancelChecked(t) \/ CancelTaskStep(t)
      PROVE  HandlesInv'
  <2>1. UNCHANGED <<fixed, pushVars, aborted, up, sub>>
    BY <1>6 DEF TaskCreated, RunDropped, RunStep, ArtifactAppended, TaskSettled, FinalAnnounced,
                CancelChecked, CancelTaskStep, TaskCanceled, CancelAnnounced, subVars
  <2> QED
    BY <1>1, <2>1, QuietHandles
<1>7. CASE DropNotifier
  <2>1. /\ UNCHANGED <<configs, sub, fixed, muddled, spc, delpc>> /\ ~ up'
        /\ active' = [k \in Keys |-> IF k \in Keys THEN None ELSE active[k]]
        /\ aborted' = aborted \cup Handles(Keys)
    BY <1>7 DEF DropNotifier, subVars
  <2>2. \A k \in Keys : DeletingNow(k)' = DeletingNow(k)
    BY <2>1 DEF DeletingNow, KeysOf, fixed
  <2> QED
    BY <1>1, <2>1, <2>2, RemovesHandles
<1>8. CASE UNCHANGED notifierVars
  BY <1>1, <1>8, QuietHandles DEF notifierVars, subVars
<1> QED
  BY <1>2, <1>3, <1>4, <1>5, <1>6, <1>7, <1>8 DEF NotifierNext

LEMMA HandlesHold == NotifierSpec => [](Types /\ HandlesInv)
<1>1. NotifierInit => HandlesInv
  <2> SUFFICES ASSUME NotifierInit PROVE HandlesInv
    OBVIOUS
  <2>1. HandleInv /\ StoppedOnlyIfReplaced
    BY DEF NotifierInit, HandleInv, StoppedOnlyIfReplaced
  <2>2. \A k \in Keys : SettingNow(k) = {} /\ DeletingNow(k) = {} /\ EndingNow(k) = {}
    BY DEF NotifierInit, SettingNow, DeletingNow, EndingNow
  <2>3. \A s \in Setter : ~ Running(s)
    BY DEF NotifierInit, Running
  <2>4. ConfigInv
    BY <2>2, <2>3 DEF ConfigInv, Apart, Progress, Subscribers
  <2> QED
    BY <2>1, <2>4 DEF HandlesInv
<1> QED
  BY <1>1, NextHandles, TypesHold, PTL DEF NotifierSpec

\* What runs for a configuration is the subscriber of the stored one, under a handle
\* a delete or a new set finds, as long as the calls about it do not overlap
\* (push_notifier.rs:94-118).  While a set call is under way nothing is in the map for
\* its configuration, and a subscriber that ends has no successor there: without
\* these (Progress, Subscribers) an insert or a cleanup could hide a running one.
THEOREM OneSubscriberRuns == NotifierSpec => []OneSubscriberPerConfig
<1>1. Types /\ HandlesInv => OneSubscriberPerConfig
  BY InvGivesOne DEF Types, HandlesInv
<1> QED
  BY <1>1, HandlesHold, PTL

\* A webhook is stopped early only because its configuration was replaced or
\* deleted or the server went away (push_notifier.rs:124-141): a handle is taken out
\* of the map by calls of its own configuration, which have changed it by then.
THEOREM WebhooksAreStoppedForAReason == NotifierSpec => []StoppedOnlyIfReplaced
<1>1. HandlesInv => StoppedOnlyIfReplaced
  BY DEF HandlesInv
<1> QED
  BY <1>1, HandlesHold, PTL

==============================================================================
