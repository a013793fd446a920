------------------------------ MODULE LlmAgent ------------------------------
(***************************************************************************)
(* LLM agents (agents/llm_agent.rs) in one session: the loop between the   *)
(* model and the tools, the gates in front of a tool (confirmation, then   *)
(* consent), what ends a turn, transfers between the agents of the tree,   *)
(* and the replay of the calls that a user's message unblocks.             *)
(*                                                                         *)
(* One invocation runs at a time; Runner and RunnerProofs are about what   *)
(* several invocations do to a session.  A call is the number of its       *)
(* function-call id, in the order the ids are made.                        *)
(***************************************************************************)
EXTENDS EventLog, FiniteSets

CONSTANTS
    Agent, Root,   \* the agents of the tree; the runner starts Root
    SubAgents,     \* agent -> its sub-agents, in a tree under Root
    Tools,         \* agent -> the tools given to it
    Does,          \* what a tool asks for when it runs: an Effect, or a transfer
    Confirmed,     \* tools with require_confirmation
    Consented,     \* tools with an auth_config that needs the user's consent
    LongRunning,   \* tools that are long-running
    Callbacks,     \* agents with before_agent, before_tool and after_agent callbacks
    Executing,     \* agents with a code executor
    MaxIterations, \* LlmAgent::max_iterations
    MaxLlmCalls,   \* RunConfig::max_llm_calls
    MaxParallel,   \* bound: calls in one response of the model
    MaxCalls,      \* bound: calls in the session
    MaxMessages,   \* bound: messages of the user
    Faults         \* what may fail: "drop", "hook", "model"

Call    == 1 .. MaxCalls
Effect  == {"value", "escalate", "final"}
Nowhere == "nowhere"      \* a name that no agent of the tree has

\* The names a model may call; a transfer has one for each agent it can name.
Named     == DOMAIN Does
Transfers == {t \in Named : Does[t] \notin Effect}
Unknown   == Named \ (UNION {Tools[a] : a \in Agent} \cup Transfers)

\* LlmRequest::tools_dict: an agent with sub-agents can transfer (build_request).
Registered == [a \in Agent |-> Tools[a] \cup IF SubAgents[a] = {} THEN {} ELSE Transfers]
Tool       == UNION {Registered[a] : a \in Agent}

ASSUME AgentAssumption ==
    /\ Root \in Agent /\ (Effect \cup {Nowhere, "none"}) \cap Agent = {}
    /\ SubAgents \in [Agent -> SUBSET Agent] /\ DOMAIN Tools = Agent /\ Tool \subseteq Named
    /\ \A t \in Named : Does[t] \in Effect \cup Agent \cup {Nowhere}
    /\ Confirmed \subseteq Tool /\ Consented \subseteq Tool /\ LongRunning \subseteq Tool
    /\ Callbacks \subseteq Agent /\ Executing \subseteq Agent
    /\ Faults \subseteq {"drop", "hook", "model"}

ASSUME LimitAssumption ==
    /\ MaxIterations \in Nat \ {0} /\ MaxLlmCalls \in Nat /\ MaxParallel \in Nat \ {0}
    /\ MaxCalls \in Nat /\ MaxMessages \in Nat

VARIABLES
    log,        \* the contents of the session's events
    calls,      \* the function calls made so far: their tool and their agent
    credential, \* tools whose credential is stored
    state,      \* calls whose state delta is in the session's state
    pc, me,     \* where the invocation is, and the agent that runs
    iter,       \* iterations of its loop
    asked,      \* InvocationContext::llm_call_count
    contents,   \* LlmRequest::contents
    decision,   \* attributes["confirmation.responses"]
    resumed,    \* attributes["auth.resumed_tool_call_ids"]
    paused, cancelled,
    todo,       \* calls to dispatch in this turn, or to replay
    answers,    \* what the calls of this turn have returned
    delta,      \* calls of this turn whose delta is merged
    marks,      \* what the tools of this turn have asked for
    messages,   \* messages of the user so far
    ran,        \* history: how often the tool of each call has run
    approvals,  \* history: messages that approved each call
    cut         \* history: calls a failure or a dropped stream left without answer

session  == <<log, calls, credential, state>>
context  == <<decision, resumed, paused, cancelled, asked>>
turn     == <<todo, answers, delta, marks>>
history  == <<ran, approvals, cut>>
vars == <<session, context, turn, history, pc, me, iter, contents, messages>>

Pending == {"confirm", "consent"}
Answer  == Pending \cup {"value", "error", "denied"}
NoMarks == [to |-> "none", escalate |-> FALSE, final |-> FALSE, long |-> FALSE]

\* Functions from some of S to T.
Partial(S, T) == UNION {[D -> T] : D \in SUBSET S}

\* f with the value v for c.
With(f, c, v) == [x \in DOMAIN f \cup {c} |-> IF x = c THEN v ELSE f[x]]

\* Entries of the log, and the user's content that a request repeats at its end.
UserSays(c)      == [kind |-> "user", about |-> c]
Asks(a, cs)      == [kind |-> "calls", by |-> a, ids |-> cs]
Answers(a, f)    == [kind |-> "answers", by |-> a, to |-> f]
Says(a)          == [kind |-> "text", by |-> a]
Again            == [kind |-> "again"]

Entry ==
    [kind: {"user"}, about: SUBSET Call]
        \cup [kind: {"calls"}, by: Agent, ids: SUBSET Call]
        \cup [kind: {"answers"}, by: Agent, to: Partial(Call, Answer)]
        \cup [kind: {"text"}, by: Agent]

\* Every variable has its type.
TypeOK ==
    /\ log \in Seq(Entry) /\ contents \in Seq(Entry \cup {Again})
    /\ calls \in Seq([tool: Named, by: Agent]) /\ Len(calls) <= MaxCalls
    /\ state \subseteq DOMAIN calls /\ credential \subseteq Consented
    /\ pc \in {"idle", "begin", "replay", "head", "ask", "tools"} /\ me \in Agent
    /\ iter \in 0 .. MaxIterations /\ asked \in 0 .. MaxLlmCalls /\ messages \in 0 .. MaxMessages
    /\ decision \in Partial(DOMAIN calls, BOOLEAN) /\ resumed \subseteq DOMAIN calls
    /\ paused \in BOOLEAN /\ cancelled \in BOOLEAN
    /\ todo \in Seq(DOMAIN calls) /\ answers \in Partial(DOMAIN calls, Answer)
    /\ delta \subseteq DOMAIN answers
    /\ marks \in [to: Agent \cup {"none"}, escalate: BOOLEAN, final: BOOLEAN, long: BOOLEAN]
    /\ ran \in [Call -> Nat] /\ approvals \in [Call -> 0 .. MaxMessages] /\ cut \subseteq DOMAIN calls

NoAnswers == [c \in {} |-> "value"]
NoTurn == /\ todo' = <<>> /\ answers' = NoAnswers /\ delta' = {} /\ marks' = NoMarks

Init ==
    /\ log = <<>> /\ calls = <<>> /\ credential = {} /\ state = {}
    /\ pc = "idle" /\ me = Root /\ iter = 0 /\ asked = 0 /\ contents = <<>>
    /\ decision = [c \in {} |-> TRUE] /\ resumed = {}
    /\ paused = FALSE /\ cancelled = FALSE
    /\ todo = <<>> /\ answers = NoAnswers /\ delta = {} /\ marks = NoMarks
    /\ messages = 0
    /\ ran = [c \in Call |-> 0] /\ approvals = [c \in Call |-> 0] /\ cut = {}

-----------------------------------------------------------------------------
(* A message of the user starts an invocation.                             *)

\* The calls a message can be about: those the user has been asked for.
AskedFor(kind) ==
    {c \in DOMAIN calls :
        \E k \in DOMAIN log : log[k].kind = "answers" /\ c \in DOMAIN log[k].to /\ log[k].to[c] = kind}

\* ConfirmationPreprocessor: the decisions in the message become an attribute.
AbsorbDecisions(d) ==
    /\ decision' = d
    /\ approvals' = [c \in Call |-> IF c \in DOMAIN d /\ d[c] THEN approvals[c] + 1 ELSE approvals[c]]

\* AuthPreprocessor: a consent unblocks its call, and what it carries is stored.
AbsorbConsents(cs, stored) ==
    /\ resumed' = cs
    /\ credential' = credential \cup {calls[c].tool : c \in stored}

\* The runner persists the message in a fresh context and runs the root.  A
\* decision or a consent may be sent again, and a consent may carry nothing.
Message(d, cs, stored) ==
    /\ pc = "idle" /\ messages < MaxMessages
    /\ AbsorbDecisions(d) /\ AbsorbConsents(cs, stored)
    /\ log' = Append(log, UserSays(DOMAIN d \cup cs))
    /\ pc' = "begin" /\ me' = Root /\ asked' = 0
    /\ paused' = FALSE /\ cancelled' = FALSE /\ messages' = messages + 1
    /\ UNCHANGED <<calls, state, turn, ran, cut, iter, contents>>

SomeMessage ==
    \E dc \in SUBSET AskedFor("confirm"), cs \in SUBSET AskedFor("consent") :
        /\ Cardinality(dc) <= 1 /\ Cardinality(cs) <= 1
        /\ \E d \in [dc -> BOOLEAN], stored \in SUBSET cs : Message(d, cs, stored)

\* Runner::cancel while the invocation runs.
Cancel ==
    /\ pc # "idle" /\ ~cancelled
    /\ cancelled' = TRUE
    /\ UNCHANGED <<session, turn, history, pc, me, iter, contents, messages, decision, resumed, paused, asked>>

\* The invocation is over; what a turn has gathered and not put in an event is lost.
Stop == pc' = "idle" /\ contents' = <<>> /\ iter' = 0 /\ NoTurn

\* An error, or the caller dropping the stream: calls of the turn stay unanswered.
Fail ==
    /\ Stop
    /\ cut' = cut \cup (IF pc = "tools" THEN Range(todo) \cup DOMAIN answers ELSE {})
    /\ UNCHANGED <<session, context, me, messages, ran, approvals>>

\* A callback, a provider of instructions or a tool's process_llm_request fails.
HookFails == "hook" \in Faults /\ pc \in {"begin", "replay", "ask", "tools"} /\ Fail

Drop == "drop" \in Faults /\ pc # "idle" /\ Fail

-----------------------------------------------------------------------------
(* The run of one agent.                                                   *)

\* before_agent answers for the agent.
AnsweredByCallback ==
    /\ pc = "begin" /\ me \in Callbacks
    /\ log' = Append(log, Says(me))
    /\ Stop
    /\ UNCHANGED <<calls, credential, state, context, me, messages, history>>

\* The calls this message unblocks (resumed_tool_call_ids).
Unblocked == resumed \cup DOMAIN decision

\* Any agent that has the tool replays the call.
ReplayableByAnyone == {c \in Unblocked : calls[c].tool \in Registered[me]}

\* ... that this agent made, with a tool that it still registers.
Replayable == {c \in Unblocked : calls[c].by = me /\ calls[c].tool \in Registered[me]}

\* The request: the history, and the user's content unless the history ends with
\* it.  The calls are replayed in the order of the message.
BeginRun ==
    /\ pc = "begin"
    /\ contents' = IF Last(log).kind = "user" THEN log ELSE Append(log, Again)
    /\ todo' \in SetToSeqs(Replayable)
    /\ pc' = IF Replayable = {} THEN "head" ELSE "replay"
    /\ iter' = 0
    /\ UNCHANGED <<session, context, history, me, messages, answers, delta, marks>>

-----------------------------------------------------------------------------
(* Dispatch of one call (dispatch_tool_call).                              *)

\* What stands between a call and its tool.
Gate(c) ==
    LET t == calls[c].tool IN
    CASE t \in Confirmed /\ c \notin DOMAIN decision -> "confirm"
      [] t \in Confirmed /\ c \in DOMAIN decision /\ ~decision[c] -> "denied"
      [] t \in Consented \ credential -> "consent"
      [] OTHER -> "open"

\* The agent a tool transfers to: any of the tree but the agent itself.
Target(t) == IF Does[t] \in Agent \ {me} THEN Does[t] ELSE "none"
Unreachable(t) == Does[t] \notin Effect /\ Target(t) = "none"

\* The context a tool has written, merged with those of the turn's other tools.
Merge(t) ==
    [to       |-> IF Target(t) = "none" THEN marks.to ELSE Target(t),
     escalate |-> marks.escalate \/ Does[t] = "escalate",
     final    |-> marks.final \/ Does[t] = "final",
     long     |-> marks.long \/ t \in LongRunning]

\* The gate answers, and the call waits for the user or is rejected.
Blocked(c) ==
    /\ Gate(c) # "open"
    /\ answers' = With(answers, c, Gate(c))
    /\ marks' = [marks EXCEPT !.long = @ \/ Gate(c) \in Pending \/ calls[c].tool \in LongRunning]
    /\ UNCHANGED <<delta, ran>>

\* before_tool answers, and the tool does not run.
ShortCut(c) ==
    /\ Gate(c) = "open" /\ me \in Callbacks
    /\ answers' = With(answers, c, "value")
    /\ marks' = [marks EXCEPT !.long = @ \/ calls[c].tool \in LongRunning]
    /\ UNCHANGED <<delta, ran>>

\* The tool runs; its error is a value for the model, and so is a transfer to nobody.
Runs(c) ==
    LET t == calls[c].tool IN
    /\ Gate(c) = "open"
    /\ ran' = [ran EXCEPT ![c] = @ + 1]
    /\ delta' = delta \cup {c}
    /\ answers' = With(answers, c, IF pc = "tools" /\ Unreachable(t) THEN "error" ELSE "value")
    /\ marks' = Merge(t)

Dispatch(c) == Blocked(c) \/ ShortCut(c) \/ Runs(c)

-----------------------------------------------------------------------------
(* Replay (replay_resumed_tool_calls).                                     *)

ReplayCall ==
    /\ pc = "replay" /\ todo # <<>>
    /\ Dispatch(Head(todo))
    /\ todo' = Tail(todo)
    /\ UNCHANGED <<session, context, approvals, cut, pc, me, iter, contents, messages>>

\* Replayed calls stay unblocked.
ConsumeNothing(cs) == UNCHANGED <<resumed, decision>>

\* Each call is replayed once in an invocation (consume_resumed_ids).
Consume(cs) ==
    /\ resumed' = resumed \ cs
    /\ decision' = [c \in DOMAIN decision \ cs |-> decision[c]]

\* The replayed answers are not part of the request.
ReplayDoneUnseen ==
    /\ pc = "replay" /\ todo = <<>>
    /\ Consume(DOMAIN answers)
    /\ log' = Append(log, Answers(me, answers))
    /\ state' = state \cup delta
    /\ IF marks.final THEN Stop ELSE pc' = "head" /\ NoTurn /\ UNCHANGED <<iter, contents>>
    /\ UNCHANGED <<calls, credential, paused, cancelled, asked, history, me, messages>>

\* The answers are an event of their own.  Of what the tools asked for, only
\* skip_summarization counts here: a call that waits again does not pause.
ReplayDone ==
    /\ pc = "replay" /\ todo = <<>>
    /\ Consume(DOMAIN answers)
    /\ log' = Append(log, Answers(me, answers))
    /\ state' = state \cup delta
    /\ IF marks.final
       THEN Stop
       ELSE /\ pc' = "head" /\ contents' = Append(contents, Answers(me, answers))
            /\ NoTurn /\ UNCHANGED iter
    /\ UNCHANGED <<calls, credential, paused, cancelled, asked, history, me, messages>>

-----------------------------------------------------------------------------
(* The loop between the model and the tools.                               *)

\* No event with a content: the agent observes the cancellation.
StopCancelled ==
    /\ pc = "head" /\ cancelled /\ iter < MaxIterations
    /\ Stop
    /\ UNCHANGED <<session, context, history, me, messages>>

\* What after_agent may add to the session at the end of a run.
AfterAgent(l) == {l} \cup (IF me \in Callbacks THEN {Append(l, Says(me))} ELSE {})

\* The budget of the agent is spent.
Exhausted ==
    /\ pc = "head" /\ iter = MaxIterations
    /\ log' \in AfterAgent(log)
    /\ Stop
    /\ UNCHANGED <<calls, credential, state, context, history, me, messages>>

\* check_and_inc_llm_call fails: the budget of the invocation is spent.
OverCap ==
    /\ pc = "head" /\ ~cancelled /\ iter < MaxIterations /\ asked >= MaxLlmCalls
    /\ Fail

AskModel ==
    /\ pc = "head" /\ ~cancelled /\ iter < MaxIterations /\ asked < MaxLlmCalls
    /\ asked' = asked + 1 /\ iter' = iter + 1 /\ pc' = "ask"
    /\ UNCHANGED <<session, turn, history, me, contents, messages, decision, resumed, paused, cancelled>>

\* The model, or its stream, fails and on_model_error has no response.
ModelFails == "model" \in Faults /\ pc = "ask" /\ Fail

\* The final response.
Respond ==
    /\ pc = "ask"
    /\ log' \in AfterAgent(Append(log, Says(me)))
    /\ Stop
    /\ UNCHANGED <<calls, credential, state, context, history, me, messages>>

\* The response carries code: its results, or the failure of every attempt to
\* execute it, are an event, and the model is asked again.
ExecuteCode ==
    /\ pc = "ask" /\ me \in Executing
    /\ log' = log \o <<Says(me), Says(me)>>
    /\ contents' = contents \o <<Says(me), Says(me)>>
    /\ pc' = "head"
    /\ UNCHANGED <<calls, credential, state, context, turn, history, me, iter, messages>>

\* The response calls tools, each call with an id of its own.
CallTools(names) ==
    /\ pc = "ask" /\ Len(calls) + Len(names) <= MaxCalls
    /\ LET ids == [k \in DOMAIN names |-> Len(calls) + k] IN
        /\ log' = Append(log, Asks(me, Range(ids)))
        /\ todo' = ids
    /\ calls' = calls \o [k \in DOMAIN names |-> [tool |-> names[k], by |-> me]]
    /\ pc' = "tools"
    /\ UNCHANGED <<credential, state, context, history, me, iter, contents, messages, answers, delta, marks>>

DispatchCall ==
    /\ pc = "tools" /\ todo # <<>> /\ calls[Head(todo)].tool \in Registered[me]
    /\ Dispatch(Head(todo))
    /\ todo' = Tail(todo)
    /\ UNCHANGED <<session, context, approvals, cut, pc, me, iter, contents, messages>>

\* A call of an unknown tool is skipped.
UnknownToolSkipped ==
    /\ pc = "tools" /\ todo # <<>> /\ calls[Head(todo)].tool \notin Registered[me]
    /\ todo' = Tail(todo)
    /\ UNCHANGED <<session, context, history, pc, me, iter, contents, messages, answers, delta, marks>>

\* A name that is no tool of the agent fails the run, whatever has run before it.
UnknownTool ==
    /\ pc = "tools" /\ todo # <<>> /\ calls[Head(todo)].tool \notin Registered[me]
    /\ Fail

\* The answers become one event, and the turn decides what is next: a transfer,
\* an escalation, a pause, a final answer of a tool, or the model again.
EmitAnswers ==
    /\ pc = "tools" /\ todo = <<>>
    /\ log' = Append(log, Answers(me, answers))
    /\ state' = state \cup delta
    /\ \/ /\ marks.to # "none"
          /\ me' = marks.to /\ pc' = "begin" /\ NoTurn /\ contents' = <<>> /\ iter' = 0
          /\ UNCHANGED paused
       \/ /\ marks.to = "none" /\ (marks.escalate \/ marks.long \/ marks.final)
          /\ paused' = (marks.long /\ ~marks.escalate)
          /\ Stop /\ UNCHANGED me
       \/ /\ marks.to = "none" /\ ~marks.escalate /\ ~marks.long /\ ~marks.final
          /\ contents' = contents \o <<Last(log), Answers(me, answers)>>
          /\ pc' = "head" /\ NoTurn /\ UNCHANGED <<me, iter, paused>>
    /\ UNCHANGED <<calls, credential, decision, resumed, cancelled, asked, history, messages>>

-----------------------------------------------------------------------------

Next ==
    \/ SomeMessage \/ Cancel \/ HookFails \/ Drop
    \/ AnsweredByCallback \/ BeginRun \/ ReplayCall \/ ReplayDone
    \/ StopCancelled \/ Exhausted \/ OverCap \/ AskModel \/ ModelFails
    \/ Respond \/ ExecuteCode \/ DispatchCall \/ UnknownTool \/ EmitAnswers
    \/ \E n \in 1 .. MaxParallel : \E names \in [1 .. n -> Registered[me] \cup Unknown] : CallTools(names)

Spec == Init /\ [][Next]_vars

-----------------------------------------------------------------------------
(* Properties.                                                             *)

\* A tool that needs a confirmation runs at most once for each message that
\* approves its call, also when its agent runs again in the invocation, or the
\* message is sent again (replay_resumed_tool_calls and its consumed ids).
RunsAsApproved ==
    \A c \in DOMAIN calls : calls[c].tool \in Confirmed => ran[c] <= approvals[c]

\* What the model is asked with is the conversation of the session, in order,
\* however the request was put together: the history read when the run began,
\* the replayed answers, the turns appended since (LlmAgent::run).
Conversation(cs) == Selected(cs, Range(cs) \ {Again})
RequestIsConversation == pc = "ask" => Conversation(contents) = log

\* The model is never asked about a call without an answer: every end of a turn
\* (transfer, escalation, pause, final answer) leaves its calls answered, except
\* an error or a dropped stream in the middle of the turn.
Answered == UNION {DOMAIN log[k].to : k \in {j \in DOMAIN log : log[j].kind = "answers"}}
AnsweredWhenAsked == pc = "ask" => DOMAIN calls \subseteq Answered \cup cut

\* A call is answered by the agent that made it: the other agents of the tree
\* leave an unblocked call to its owner (replay_resumed_tool_calls).
AnsweredByOwner ==
    \A k \in DOMAIN log : log[k].kind = "answers" =>
        \A c \in DOMAIN log[k].to : calls[c].by = log[k].by

=============================================================================
