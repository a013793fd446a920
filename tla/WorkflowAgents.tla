--------------------------- MODULE WorkflowAgents ---------------------------
(***************************************************************************)
(* Trees of sequential, loop and parallel agents (agents/) under a runner  *)
(* that polls the root, with pauses, escalation, cancellation and resume   *)
(* of the same invocation from its checkpoints.                            *)
(*                                                                         *)
(* An agent is its path from the root: <<>>, <<2>>, <<2, 1>>.  A task is   *)
(* what one thread of control polls: the agents under the root, or under a *)
(* child of a parallel agent, down to the next parallel agent.  An item    *)
(* that an agent yields goes up to the top of its task in one poll, and    *)
(* everything below is suspended until it is taken from there.             *)
(***************************************************************************)
EXTENDS Integers, Sequences, FiniteSets, SequencesExt

CONSTANTS
    Kind,            \* agent -> "leaf", "sequential", "loop" or "parallel"
    MaxIterations,   \* LoopAgent::max_iterations
    ChannelCapacity, \* of the channel of a parallel agent (64)
    MaxEvents,       \* bound: events of each leaf in an invocation
    MaxResumes       \* bound: resumes of the invocation

Agent == DOMAIN Kind
Root  == <<>>

SubAgents(n) == {m \in Agent : m # Root /\ Front(m) = n}
Count        == [n \in Agent |-> Cardinality(SubAgents(n))]
Sub(n, i)    == n \o <<i>>

\* The sub_agents of an agent are numbered from 1; all but leaves have one.
ASSUME TreeAssumption ==
    /\ Agent \subseteq Seq(Nat) /\ IsFiniteSet(Agent) /\ Root \in Agent
    /\ Kind \in [Agent -> {"leaf", "sequential", "loop", "parallel"}]
    /\ \A n \in Agent \ {Root} : Front(n) \in Agent
    /\ \A n \in Agent : SubAgents(n) = {Sub(n, i) : i \in 1 .. Count[n]}
    /\ \A n \in Agent : Kind[n] = "leaf" <=> SubAgents(n) = {}

Kinds(k) == {n \in Agent : Kind[n] = k}
Leaf     == Kinds("leaf")

ASSUME BoundAssumption ==
    /\ MaxIterations \in Nat \ {0} /\ ChannelCapacity \in Nat \ {0}
    /\ MaxEvents \in [Leaf -> Nat] /\ MaxResumes \in Nat

Pipeline == Kinds("sequential") \cup Kinds("loop")

\* The tops of the tasks: the root, and what a parallel agent spawns.
Branch == {n \in Agent \ {Root} : Kind[Front(n)] = "parallel"}
Top    == {Root} \cup Branch

\* The task an agent is polled by, and the agents between it and the top.
TopOf ==
    [n \in Agent |->
        CHOOSE t \in Top : IsPrefix(t, n) /\ \A u \in Top : IsPrefix(u, n) => IsPrefix(u, t)]
TaskOf(t) == {n \in Agent : TopOf[n] = t}
Above     == [n \in Agent |-> {m \in TaskOf(TopOf[n]) : IsStrictPrefix(m, n)}]

VARIABLES
    st,        \* where the stream of each agent is
    pos,       \* the sub-agent a pipeline is at
    iter,      \* the iteration a loop is at
    hand,      \* the item each task has yielded and that is not taken yet
    chan,      \* the channel of each parallel agent
    cancelled, \* InvocationContext::is_cancelled
    paused,    \* attributes["invocation.paused"]
    ckpt,      \* completed_sub_agents of the latest persisted checkpoint
    resumable, \* RunConfig::resumability, set by the application
    resumes,   \* resumes so far
    made,      \* history: events each leaf has emitted
    got,       \* history: events the runner received from each leaf
    finished,  \* history: leaves that have run to their end
    stopped,   \* history: leaves that paused or escalated in this run
    cuts       \* history: what else than a pause has stopped the invocation, see Cut

control == <<st, pos, iter>>
transit == <<hand, chan>>
signals == <<cancelled, paused>>
history == <<made, got, finished, stopped, cuts>>
vars == <<control, transit, signals, ckpt, resumable, resumes, history>>

\* "start": to be polled for the first time; "checkpoint": a sequential agent
\* that has yielded a checkpoint.
Status == {"idle", "start", "running", "checkpoint", "ended"}

\* "stop" is an error, an escalation or a dropped stream; "end" that a run ended
\* without a pause and the invocation has been resumed.
Cut == {"cancel", "stop", "end"}

NoItem == [kind |-> "none"]
EventOf(l, k)    == [kind |-> "event", from |-> l, n |-> k]
Escalation(l)    == [kind |-> "escalate", from |-> l]
Failure          == [kind |-> "error"]
Checkpoint(s, k) == [kind |-> "checkpoint", from |-> s, n |-> k]
Item ==
    (UNION {{EventOf(l, k) : k \in 1 .. MaxEvents[l]} : l \in Leaf})
        \cup {Escalation(l) : l \in Leaf} \cup {Failure}
        \cup (UNION {{Checkpoint(s, k) : k \in 1 .. Count[s] - 1} : s \in Kinds("sequential")})

\* Every variable has its type.
TypeOK ==
    /\ st \in [Agent -> Status]
    /\ \A n \in Pipeline : pos[n] \in 1 .. Count[n] /\ iter[n] \in 1 .. MaxIterations
    /\ hand \in [Top -> Item \cup {NoItem}]
    /\ \A p \in Kinds("parallel") : chan[p] \in Seq(Item) /\ Len(chan[p]) <= ChannelCapacity
    /\ cancelled \in BOOLEAN /\ paused \in BOOLEAN /\ cuts \subseteq Cut
    /\ \A s \in Kinds("sequential") : ckpt[s] \in 0 .. Count[s] - 1
    /\ resumable \in BOOLEAN /\ resumes \in 0 .. MaxResumes
    /\ \A l \in Leaf : made[l] \in 0 .. MaxEvents[l] /\ got[l] \in Seq(1 .. MaxEvents[l])
    /\ finished \subseteq Leaf /\ stopped \subseteq Leaf

\* A fresh context, and the root about to be polled.
Fresh == [n \in Agent |-> IF n = Root THEN "start" ELSE "idle"]

Init ==
    /\ st = Fresh
    /\ pos = [n \in Pipeline |-> 1]
    /\ iter = [n \in Pipeline |-> 1]
    /\ hand = [t \in Top |-> NoItem]
    /\ chan = [p \in Kinds("parallel") |-> <<>>]
    /\ cancelled = FALSE /\ paused = FALSE
    /\ ckpt = [s \in Kinds("sequential") |-> 0]
    /\ resumable \in BOOLEAN
    /\ resumes = 0
    /\ made = [l \in Leaf |-> 0] /\ got = [l \in Leaf |-> <<>>]
    /\ finished = {} /\ stopped = {} /\ cuts = {}

-----------------------------------------------------------------------------
(* Streams.                                                                *)

\* An agent runs when it is polled: nothing above it waits to be taken.
At(n, status) == st[n] = status /\ hand[TopOf[n]] = NoItem

Set(n, status) == st' = [st EXCEPT ![n] = status]

\* The streams of agents ns end, or are dropped; a parallel agent drops its
\* receiver with what is in it.
End(ns) ==
    /\ st' = [n \in Agent |-> IF n \in ns /\ st[n] # "idle" THEN "ended" ELSE st[n]]
    /\ chan' = [p \in Kinds("parallel") |-> IF p \in ns THEN <<>> ELSE chan[p]]

Yield(n, item) == hand' = [hand EXCEPT ![TopOf[n]] = item]

\* n yields an error: `?` ends every stream it goes through.
YieldError(n) == Yield(n, Failure) /\ End(Above[n] \cup {n})

\* A pipeline goes to its sub-agent i.
Enter(n, i) ==
    /\ pos' = [pos EXCEPT ![n] = i]
    /\ st' = [st EXCEPT ![n] = "running", ![Sub(n, i)] = "start"]

-----------------------------------------------------------------------------
(* LoopAgent and SequentialAgent.                                          *)

\* Mutant: the checkpoint is not read.
StartIndexFirst(n) == 1

\* Where a sequential agent starts, from its latest checkpoint.
StartIndex(n) == IF resumable THEN ckpt[n] + 1 ELSE 1

BeginPipeline(n) ==
    /\ At(n, "start")
    /\ iter' = [iter EXCEPT ![n] = 1]
    /\ IF cancelled
       THEN Set(n, "ended") /\ UNCHANGED pos
       ELSE Enter(n, IF Kind[n] = "sequential" THEN StartIndex(n) ELSE 1)
    /\ UNCHANGED <<transit, signals, ckpt, resumable, resumes, history>>

\* Mutant: the checkpoint is written whether or not the sub-agent paused.
NextInSequenceNoPause(n) ==
    /\ At(n, "running") /\ st[Sub(n, pos[n])] = "ended"
    /\ IF pos[n] = Count[n]
       THEN Set(n, "ended") /\ UNCHANGED <<pos, hand>>
       ELSE IF resumable
       THEN Set(n, "checkpoint") /\ Yield(n, Checkpoint(n, pos[n])) /\ UNCHANGED pos
       ELSE Enter(n, pos[n] + 1) /\ UNCHANGED hand
    /\ UNCHANGED <<iter, chan, signals, ckpt, resumable, resumes, history>>

\* The sub-agent's stream has ended: return if the invocation is paused or
\* there are no more, else yield a checkpoint or go on.
NextInSequence(n) ==
    /\ At(n, "running") /\ st[Sub(n, pos[n])] = "ended"
    /\ \/ /\ paused \/ pos[n] = Count[n] \/ (cancelled /\ ~resumable)
          /\ Set(n, "ended")
          /\ UNCHANGED <<pos, hand>>
       \/ /\ ~paused /\ pos[n] < Count[n] /\ resumable
          /\ Set(n, "checkpoint")
          /\ Yield(n, Checkpoint(n, pos[n]))
          /\ UNCHANGED pos
       \/ /\ ~paused /\ pos[n] < Count[n] /\ ~resumable /\ ~cancelled
          /\ Enter(n, pos[n] + 1)
          /\ UNCHANGED hand
    /\ UNCHANGED <<iter, chan, signals, ckpt, resumable, resumes, history>>

\* Polled again after its checkpoint.
AfterCheckpoint(n) ==
    /\ At(n, "checkpoint")
    /\ IF cancelled THEN Set(n, "ended") /\ UNCHANGED pos ELSE Enter(n, pos[n] + 1)
    /\ UNCHANGED <<iter, transit, signals, ckpt, resumable, resumes, history>>

\* Mutant: the loop does not look whether the invocation is paused.
NextInLoopNoPause(n) ==
    /\ At(n, "running") /\ st[Sub(n, pos[n])] = "ended"
    /\ LET last == pos[n] = Count[n] IN
       IF cancelled \/ (last /\ iter[n] = MaxIterations)
       THEN Set(n, "ended") /\ UNCHANGED <<pos, iter>>
       ELSE /\ Enter(n, IF last THEN 1 ELSE pos[n] + 1)
            /\ iter' = [iter EXCEPT ![n] = IF last THEN @ + 1 ELSE @]
    /\ UNCHANGED <<transit, signals, ckpt, resumable, resumes, history>>

\* The loop breaks when paused or cancelled, or after its last iteration.
NextInLoop(n) ==
    /\ At(n, "running") /\ st[Sub(n, pos[n])] = "ended"
    /\ LET last == pos[n] = Count[n] IN
       IF paused \/ cancelled \/ (last /\ iter[n] = MaxIterations)
       THEN Set(n, "ended") /\ UNCHANGED <<pos, iter>>
       ELSE /\ Enter(n, IF last THEN 1 ELSE pos[n] + 1)
            /\ iter' = [iter EXCEPT ![n] = IF last THEN @ + 1 ELSE @]
    /\ UNCHANGED <<transit, signals, ckpt, resumable, resumes, history>>

-----------------------------------------------------------------------------
(* ParallelAgent.                                                          *)

\* One task per sub-agent is spawned, and the parent's sender dropped.
BeginParallel(p) ==
    /\ At(p, "start")
    /\ st' = [n \in Agent |->
                IF n = p THEN "running" ELSE IF n \in SubAgents(p) THEN "start" ELSE st[n]]
    /\ chan' = [chan EXCEPT ![p] = <<>>]
    /\ UNCHANGED <<pos, iter, hand, signals, ckpt, resumable, resumes, history>>

\* A branch sends what its agent yielded, waiting while the channel is full.
Send(b) ==
    /\ hand[b] # NoItem /\ st[Front(b)] = "running"
    /\ Len(chan[Front(b)]) < ChannelCapacity
    /\ hand' = [hand EXCEPT ![b] = NoItem]
    /\ chan' = [chan EXCEPT ![Front(b)] = Append(@, hand[b])]
    /\ UNCHANGED <<control, signals, ckpt, resumable, resumes, history>>

\* The receiver is gone: the branch drops its agent.
SendFails(b) ==
    /\ hand[b] # NoItem /\ st[Front(b)] = "ended"
    /\ hand' = [hand EXCEPT ![b] = NoItem]
    /\ End(TaskOf(b))
    /\ UNCHANGED <<pos, iter, signals, ckpt, resumable, resumes, history>>

\* rx.next() returns an item: dropped with the receiver if cancelled,
\* forwarded otherwise; an error ends the merged stream, an escalation the
\* pipelines above, which drop it.
Receive(p) ==
    /\ At(p, "running") /\ chan[p] # <<>>
    /\ LET item == Head(chan[p]) IN
       \/ /\ cancelled
          /\ End({p})
          /\ UNCHANGED hand
       \/ /\ ~cancelled /\ item.kind = "error"
          /\ YieldError(p)
       \/ /\ ~cancelled /\ item.kind = "escalate" /\ Above[p] # {}
          /\ Yield(p, item)
          /\ End(Above[p] \cup {p})
       \/ /\ ~cancelled
          /\ item.kind \in {"event", "checkpoint"} \/ (item.kind = "escalate" /\ Above[p] = {})
          /\ Yield(p, item)
          /\ chan' = [chan EXCEPT ![p] = Tail(@)]
          /\ UNCHANGED st
    /\ UNCHANGED <<pos, iter, signals, ckpt, resumable, resumes, history>>

\* A branch is over, and its sender dropped.
BranchDone(b) == st[b] = "ended" /\ hand[b] = NoItem

\* Mutant: the parent keeps a sender, so that the channel never closes.
ChannelStaysOpen(p) == FALSE /\ UNCHANGED vars

\* rx.next() returns None: all senders are gone and the channel is empty.
ParallelEnd(p) ==
    /\ At(p, "running") /\ chan[p] = <<>>
    /\ \A b \in SubAgents(p) : BranchDone(b)
    /\ Set(p, "ended")
    /\ UNCHANGED <<pos, iter, transit, signals, ckpt, resumable, resumes, history>>

-----------------------------------------------------------------------------
(* Leaves: LLM agents, seen from the workflow.                             *)

BeginLeaf(l) ==
    /\ At(l, "start")
    /\ Set(l, "running")
    /\ UNCHANGED <<pos, iter, transit, signals, ckpt, resumable, resumes, history>>

LeafEvent(l) ==
    /\ At(l, "running") /\ made[l] < MaxEvents[l]
    /\ made' = [made EXCEPT ![l] = @ + 1]
    /\ Yield(l, EventOf(l, made[l] + 1))
    /\ UNCHANGED <<control, chan, signals, ckpt, resumable, resumes, got, finished, stopped, cuts>>

\* Its final response, or its iteration budget, is reached.
LeafFinish(l) ==
    /\ At(l, "running")
    /\ Set(l, "ended")
    /\ finished' = finished \cup {l}
    /\ UNCHANGED <<pos, iter, transit, signals, ckpt, resumable, resumes, made, got, stopped, cuts>>

\* A confirmation, a consent or a long-running tool is pending.
LeafPause(l) ==
    /\ At(l, "running")
    /\ Set(l, "ended")
    /\ paused' = TRUE
    /\ stopped' = stopped \cup {l}
    /\ UNCHANGED <<pos, iter, transit, cancelled, ckpt, resumable, resumes, made, got, finished, cuts>>

\* A tool escalates: the marker event ends every pipeline it goes through.
LeafEscalate(l) ==
    /\ At(l, "running")
    /\ Yield(l, Escalation(l))
    /\ End(Above[l] \cup {l})
    /\ stopped' = stopped \cup {l}
    /\ cuts' = cuts \cup {"stop"}
    /\ UNCHANGED <<pos, iter, signals, ckpt, resumable, resumes, made, got, finished>>

\* The model, a callback or a tool lookup fails.
LeafError(l) ==
    /\ At(l, "running")
    /\ YieldError(l)
    /\ cuts' = cuts \cup {"stop"}
    /\ UNCHANGED <<pos, iter, signals, ckpt, resumable, resumes, made, got, finished, stopped>>

\* The flag is seen at the top of the leaf's loop (its CANCELLED event is one
\* more event, left out).
LeafCancelled(l) ==
    /\ At(l, "running") /\ cancelled
    /\ Set(l, "ended")
    /\ UNCHANGED <<pos, iter, transit, signals, ckpt, resumable, resumes, history>>

-----------------------------------------------------------------------------
(* The runner and its callers.                                             *)

Over == st[Root] = "ended" /\ hand[Root] = NoItem

\* The runner persists what the root yields, and polls again.
Take ==
    /\ hand[Root] # NoItem
    /\ LET item == hand[Root] IN
       /\ ckpt' = IF item.kind = "checkpoint" THEN [ckpt EXCEPT ![item.from] = item.n] ELSE ckpt
       /\ got' = IF item.kind = "event" THEN [got EXCEPT ![item.from] = Append(@, item.n)] ELSE got
    /\ hand' = [hand EXCEPT ![Root] = NoItem]
    /\ UNCHANGED <<control, chan, signals, resumable, resumes, made, finished, stopped, cuts>>

\* The caller drops the stream, or the runner ends it over an error of its own.
DropStream ==
    /\ ~Over
    /\ End(TaskOf(Root))
    /\ hand' = [hand EXCEPT ![Root] = NoItem]
    /\ cuts' = cuts \cup {"stop"}
    /\ UNCHANGED <<pos, iter, signals, ckpt, resumable, resumes, made, got, finished, stopped>>

Cancel ==
    /\ ~Over /\ ~cancelled
    /\ cancelled' = TRUE
    /\ cuts' = cuts \cup {"cancel"}
    /\ UNCHANGED <<control, transit, paused, ckpt, resumable, resumes, made, got, finished, stopped>>

\* Runner::resume of the same invocation: a new context over the stored log.
\* Branches left behind by the last run keep theirs, and are left out.
Resume ==
    /\ Over /\ resumes < MaxResumes
    /\ resumes' = resumes + 1
    /\ st' = Fresh
    /\ hand' = [t \in Top |-> NoItem]
    /\ chan' = [p \in Kinds("parallel") |-> <<>>]
    /\ cancelled' = FALSE /\ paused' = FALSE
    /\ stopped' = {}
    /\ cuts' = IF paused THEN cuts ELSE cuts \cup {"end"}
    /\ UNCHANGED <<pos, iter, ckpt, resumable, made, got, finished>>

PipelineStep(n) ==
    \/ BeginPipeline(n)
    \/ Kind[n] = "sequential" /\ (NextInSequence(n) \/ AfterCheckpoint(n))
    \/ Kind[n] = "loop" /\ NextInLoop(n)
ParallelStep(p) == BeginParallel(p) \/ Receive(p) \/ ParallelEnd(p)
BranchStep(b) == Send(b) \/ SendFails(b)
LeafStep(l) ==
    \/ BeginLeaf(l) \/ LeafEvent(l) \/ LeafFinish(l) \/ LeafPause(l)
    \/ LeafEscalate(l) \/ LeafError(l) \/ LeafCancelled(l)

Next ==
    \/ \E n \in Pipeline : PipelineStep(n)
    \/ \E p \in Kinds("parallel") : ParallelStep(p)
    \/ \E b \in Branch : BranchStep(b)
    \/ \E l \in Leaf : LeafStep(l)
    \/ Take \/ DropStream \/ Cancel \/ Resume

\* The runtime polls what is ready, the runner polls the root to its end, and
\* a leaf gets its answers and ends.
Fairness ==
    /\ \A n \in Pipeline : WF_vars(PipelineStep(n))
    /\ \A p \in Kinds("parallel") : WF_vars(ParallelStep(p))
    /\ \A b \in Branch : WF_vars(BranchStep(b))
    /\ \A l \in Leaf : WF_vars(LeafStep(l))
    /\ WF_vars(Take)

Spec == Init /\ [][Next]_vars /\ Fairness

-----------------------------------------------------------------------------
(* Properties.                                                             *)

\* The agents both q and l are under.
Common(q, l) == {n \in Agent : IsStrictPrefix(n, q) /\ IsStrictPrefix(n, l)}

\* l must wait once q has paused or escalated: it is q itself, or comes later in
\* a sequence, or in the same loop and not beside q in a parallel agent.
Suspends(q, l) ==
    \/ q = l
    \/ \E n \in Common(q, l) :
        \/ Kind[n] = "sequential" /\ q[Len(n) + 1] < l[Len(n) + 1]
        \/ Kind[n] = "loop" /\ Common(q, l) \cap Kinds("parallel") = {}

Begins(n) == st[n] = "start" /\ st'[n] = "running"

\* After a leaf has paused the invocation or escalated, no agent that a
\* pipeline above it would run next begins, through any nesting of parallel
\* agents, until the invocation is resumed (sequential_agent.rs:113-128,
\* loop_agent.rs:69-82).
NothingAfterStop ==
    [][\A q \in stopped, l \in Leaf : Suspends(q, l) => ~Begins(l)]_vars

\* A sub-agent counted by a persisted checkpoint has run to its end, all of it,
\* so that a resume skips nothing: not even when its last run was dropped or
\* failed.  A cancelled sub-agent's stream ends like a finished one's, and is
\* counted too (sequential_agent.rs:123-131).
CheckpointMeansFinished ==
    "cancel" \notin cuts =>
        \A s \in Kinds("sequential") : \A i \in 1 .. Count[s] : \A l \in Leaf :
            i <= ckpt[s] /\ IsPrefix(Sub(s, i), l) => l \in finished

\* A leaf of nested sequences that has finished does not run again when the
\* invocation, paused and nothing else, is resumed
\* (sequential_agent.rs:101-109).
FinishedNotRerun ==
    [][\A l \in finished :
        resumable /\ cuts = {} /\ (\A n \in Agent : IsStrictPrefix(n, l) => Kind[n] = "sequential")
        => ~Begins(l)]_vars

\* Every run ends, and so does every task it has spawned, also those whose
\* receiver is gone (parallel_agent.rs:62-98).
AllTasksEnd ==
    []<>(Over /\ \A t \in Top : st[t] \in {"idle", "ended"} /\ hand[t] = NoItem)

=============================================================================
