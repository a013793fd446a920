---------------------------- MODULE TaskService ----------------------------
(***************************************************************************)
(* InMemoryTaskService (a2a/task_service.rs): A2A tasks behind one mutex,  *)
(* and a tokio broadcast channel per task, one queue per receiver.  A      *)
(* status or artifact is written under the mutex and broadcast after it is *)
(* released, so the write and the broadcast are two actions.               *)
(*                                                                         *)
(* An event of the agent is its number; history and artifacts hold the     *)
(* events that reached them.                                               *)
(***************************************************************************)
EXTENDS Naturals, Sequences

CONSTANTS
    Task,      \* task ids
    Receiver,  \* everything that can subscribe to a task
    Nobody,    \* "no task subscribed to"
    Capacity   \* bound: updates a receiver can be behind (32 in the code)

ASSUME NobodyAssumption == Nobody \notin Task
ASSUME CapacityAssumption == Capacity \in Nat \ {0}

VARIABLES
    tasks,       \* the task records
    subscribed,  \* the task each receiver listens to
    queue        \* what it has not received yet

taskVars == <<tasks, subscribed, queue>>

TaskState == {"submitted", "working", "input_required", "completed", "canceled", "failed"}
Terminal  == {"completed", "canceled", "failed"}
Settled   == Terminal \cup {"input_required"}

TaskRecord ==
    [state: TaskState \cup {"absent"},
     invocation: BOOLEAN,       \* metadata holds adk:invocationId
     history: Seq(Nat),
     artifacts: Seq(Nat)]

Update ==
    [kind: {"status"}, state: TaskState, final: BOOLEAN]
        \cup [kind: {"artifact"}, event: Nat, parts: BOOLEAN]

Status(state, final) == [kind |-> "status", state |-> state, final |-> final]
Artifact(n, parts) == [kind |-> "artifact", event |-> n, parts |-> parts]
IsFinal(u) == u.kind = "status" /\ u.final

NoTask  == [state |-> "absent", invocation |-> FALSE, history |-> <<>>, artifacts |-> <<>>]
NewTask == [NoTask EXCEPT !.state = "submitted"]

TaskTypeOK ==
    /\ tasks \in [Task -> TaskRecord]
    /\ subscribed \in [Receiver -> Task \cup {Nobody}]
    /\ queue \in [Receiver -> Seq(Update)]

TaskInit ==
    /\ tasks = [t \in Task |-> NoTask]
    /\ subscribed = [x \in Receiver |-> Nobody]
    /\ queue = [x \in Receiver |-> <<>>]

Exists(t)     == tasks[t].state # "absent"
IsTerminal(t) == tasks[t].state \in Terminal

\* create_task inserts, whatever the id holds.
CreateTask(t, record) ==
    /\ tasks' = [tasks EXCEPT ![t] = record]
    /\ UNCHANGED <<subscribed, queue>>

\* update_status, the write under the mutex.
SetStatus(t, state) ==
    /\ tasks' = [tasks EXCEPT ![t].state = IF Exists(t) THEN state ELSE @]
    /\ UNCHANGED <<subscribed, queue>>

\* append_history.
AppendHistory(t, n) ==
    /\ tasks' = [tasks EXCEPT ![t].history = Append(@, n)]
    /\ UNCHANGED <<subscribed, queue>>

\* append_artifact, the write under the mutex.
AppendArtifact(t, n) ==
    /\ tasks' = [tasks EXCEPT ![t].artifacts = Append(@, n)]
    /\ UNCHANGED <<subscribed, queue>>

\* append_artifact, the update.  The parts of a chunk that is appended to a
\* stored artifact were moved there (Vec::append), so it is announced empty.
ArtifactUpdate(t, n) == Artifact(n, tasks[t].artifacts = <<n>>)

\* Mutant: the newest update is dropped when a receiver lags.
PushedDropsNewest(q, u) == IF Len(q) < Capacity THEN Append(q, u) ELSE q

\* A receiver that lags loses its oldest update; all of them skip the
\* Lagged error and go on.
Pushed(q, u) == IF Len(q) < Capacity THEN Append(q, u) ELSE Append(Tail(q), u)

\* The broadcast, after the mutex is released.
Broadcast(t, u) ==
    /\ queue' = [x \in Receiver |-> IF subscribed[x] = t THEN Pushed(queue[x], u) ELSE queue[x]]
    /\ UNCHANGED <<tasks, subscribed>>

\* subscribe answers None, and cancel_task fails, for an unknown or a
\* terminal task.
Open(t) == Exists(t) /\ ~IsTerminal(t)

Subscribe(x, t) ==
    /\ Open(t)
    /\ subscribed' = [subscribed EXCEPT ![x] = t]
    /\ queue' = [queue EXCEPT ![x] = <<>>]
    /\ UNCHANGED tasks

\* recv, when there is something to receive.
Receive(x) ==
    /\ queue[x] # <<>>
    /\ queue' = [queue EXCEPT ![x] = Tail(@)]
    /\ UNCHANGED <<tasks, subscribed>>

\* The receiver is dropped.
Unsubscribe(x) ==
    /\ subscribed' = [subscribed EXCEPT ![x] = Nobody]
    /\ queue' = [queue EXCEPT ![x] = <<>>]
    /\ UNCHANGED tasks
=============================================================================
