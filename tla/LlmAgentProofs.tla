--------------------------- MODULE LlmAgentProofs ---------------------------
(***************************************************************************)
(* Theorems about LLM agents: what is asked of the model, and what becomes *)
(* of the calls it makes, for every tree of agents, all tools and budgets. *)
(***************************************************************************)
EXTENDS LlmAgent, EventLogProofs, FiniteSetTheorems

-----------------------------------------------------------------------------
(* The calls of the turn.                                                  *)

\* Between turns nothing is left of the last one.
Quiet == todo = <<>> /\ answers = NoAnswers /\ delta = {} /\ marks = NoMarks

\* The calls dispatched in this turn, or to be dispatched.
InTurn == Range(todo) \cup DOMAIN answers

\* Each call is dispatched once, by the agent that made it, and the calls of a
\* response are new to the decisions in the user's message.
TurnInv ==
    /\ pc \notin {"replay", "tools"} => Quiet
    /\ \A i, j \in 1 .. Len(todo) : todo[i] = todo[j] => i = j
    /\ Range(todo) \cap DOMAIN answers = {}
    /\ \A c \in InTurn : calls[c].by = me
    /\ pc = "tools" => log # <<>> /\ InTurn \cap DOMAIN decision = {}

\* Answers by agent a: to calls that it made, asking only those for a consent
\* that need one.
OwnAnswers(a, f) ==
    \A c \in DOMAIN f :
        c \in DOMAIN calls /\ calls[c].by = a /\ (f[c] = "consent" => calls[c].tool \in Consented)

OwnersInv ==
    /\ OwnAnswers(me, answers)
    /\ \A k \in DOMAIN log : log[k].kind = "answers" => OwnAnswers(log[k].by, log[k].to)

\* No call has been approved by more messages than there were.
CountInv == \A c \in Call : approvals[c] <= messages

TypeInv == TypeOK /\ TurnInv /\ OwnersInv /\ CountInv

-----------------------------------------------------------------------------
(* Partial functions.                                                      *)

LEMMA PartialFacts ==
    ASSUME NEW S, NEW T, NEW f
    PROVE  f \in Partial(S, T) <=> /\ f = [x \in DOMAIN f |-> f[x]] /\ DOMAIN f \subseteq S
                                   /\ \A x \in DOMAIN f : f[x] \in T
<1>1. ASSUME f \in Partial(S, T)
      PROVE  f = [x \in DOMAIN f |-> f[x]] /\ DOMAIN f \subseteq S /\ \A x \in DOMAIN f : f[x] \in T
  <2>1. PICK D \in SUBSET S : f \in [D -> T]
    BY <1>1 DEF Partial
  <2> QED
    BY <2>1
<1>2. ASSUME f = [x \in DOMAIN f |-> f[x]], DOMAIN f \subseteq S, \A x \in DOMAIN f : f[x] \in T
      PROVE  f \in Partial(S, T)
  <2>1. f \in [DOMAIN f -> T]
    BY <1>2
  <2> QED
    BY <1>2, <2>1 DEF Partial
<1> QED
  BY <1>1, <1>2

LEMMA PartialMore ==
    ASSUME NEW S, NEW S2, S \subseteq S2, NEW T, NEW f \in Partial(S, T)
    PROVE  f \in Partial(S2, T)
BY DEF Partial

\* One more answer.
LEMMA OneMore ==
    ASSUME NEW S, NEW T, NEW f \in Partial(S, T), NEW c \in S, NEW v \in T
    PROVE  /\ With(f, c, v) \in Partial(S, T) /\ DOMAIN With(f, c, v) = DOMAIN f \cup {c}
           /\ With(f, c, v)[c] = v /\ \A x \in DOMAIN f \ {c} : With(f, c, v)[x] = f[x]
<1> DEFINE g == With(f, c, v)
<1>1. DOMAIN f \subseteq S /\ \A x \in DOMAIN f : f[x] \in T
  BY PartialFacts
<1>2. g = [x \in DOMAIN f \cup {c} |-> IF x = c THEN v ELSE f[x]]
  BY DEF With
<1>3. /\ DOMAIN g = DOMAIN f \cup {c} /\ g[c] = v /\ \A x \in DOMAIN f \ {c} : g[x] = f[x]
      /\ \A x \in DOMAIN g : g[x] \in T
      /\ g = [x \in DOMAIN g |-> g[x]]
  BY <1>1, <1>2
<1> HIDE DEF g
<1>4. DOMAIN g \subseteq S
  BY <1>1, <1>3
<1>5. g \in Partial(S, T)
  BY <1>3, <1>4, PartialFacts
<1> QED
  BY <1>3, <1>5 DEF g

LEMMA NoAnswersFacts == DOMAIN NoAnswers = {} /\ \A S, T : NoAnswers \in Partial(S, T)
<1>1. DOMAIN NoAnswers = {} /\ NoAnswers = [x \in DOMAIN NoAnswers |-> NoAnswers[x]]
  BY DEF NoAnswers
<1> QED
  BY <1>1, PartialFacts

\* The types of the calls that there are.
LEMMA CallFacts ==
    ASSUME TypeOK
    PROVE  /\ Len(calls) \in Nat /\ DOMAIN calls = 1 .. Len(calls) /\ DOMAIN calls \subseteq Call
           /\ \A c \in DOMAIN calls : calls[c].tool \in Named /\ calls[c].by \in Agent
           /\ DOMAIN answers \subseteq DOMAIN calls /\ DOMAIN decision \subseteq DOMAIN calls
           /\ Range(todo) \subseteq DOMAIN calls /\ InTurn \subseteq DOMAIN calls
           /\ \A c \in DOMAIN answers : answers[c] \in Answer
           /\ \A c \in DOMAIN decision : decision[c] \in BOOLEAN
<1>1. Len(calls) \in Nat /\ DOMAIN calls = 1 .. Len(calls) /\ Len(calls) <= MaxCalls
      /\ \A c \in DOMAIN calls : calls[c] \in [tool: Named, by: Agent]
  <2> DEFINE R == [tool: Named, by: Agent]
  <2>1. calls \in Seq(R) /\ Len(calls) <= MaxCalls
    BY DEF TypeOK
  <2> HIDE DEF R
  <2>2. DOMAIN calls = 1 .. Len(calls) /\ Len(calls) \in Nat
    BY <2>1
  <2>3. \A c \in 1 .. Len(calls) : calls[c] \in R
    BY <2>1
  <2> QED
    BY <2>1, <2>2, <2>3 DEF R
<1>2. DOMAIN calls \subseteq Call
  BY <1>1, LimitAssumption DEF Call
<1>3. DOMAIN answers \subseteq DOMAIN calls /\ \A c \in DOMAIN answers : answers[c] \in Answer
  BY PartialFacts DEF TypeOK
<1>4. DOMAIN decision \subseteq DOMAIN calls /\ \A c \in DOMAIN decision : decision[c] \in BOOLEAN
  BY PartialFacts DEF TypeOK
<1>5. Range(todo) \subseteq DOMAIN calls
  BY DEF TypeOK, Range
<1> QED
  BY <1>1, <1>2, <1>3, <1>4, <1>5 DEF InTurn

\* What is appended to the log.
LEMMA EntryFacts ==
    /\ \A cs \in SUBSET Call : UserSays(cs) \in Entry /\ UserSays(cs).kind = "user"
    /\ \A a \in Agent, cs \in SUBSET Call : Asks(a, cs) \in Entry /\ Asks(a, cs).kind = "calls"
    /\ \A a \in Agent, f \in Partial(Call, Answer) :
          /\ Answers(a, f) \in Entry /\ Answers(a, f).kind = "answers"
          /\ Answers(a, f).by = a /\ Answers(a, f).to = f
    /\ \A a \in Agent : Says(a) \in Entry /\ Says(a).kind = "text"
    /\ Again.kind = "again"
    /\ \A e \in Entry : e.kind # "again"
BY DEF Entry, UserSays, Asks, Answers, Says, Again

-----------------------------------------------------------------------------
(* Types, and the calls of the turn.                                       *)

LEMMA QuietFacts ==
    Quiet => /\ todo = <<>> /\ \A S : todo \in Seq(S)
             /\ Len(todo) = 0 /\ Range(todo) = {} /\ DOMAIN answers = {} /\ InTurn = {}
             /\ \A S, T : answers \in Partial(S, T)
             /\ delta = {}
             /\ marks \in [to: Agent \cup {"none"}, escalate: BOOLEAN, final: BOOLEAN, long: BOOLEAN]
<1> SUFFICES ASSUME Quiet
             PROVE  /\ todo = <<>> /\ \A S : todo \in Seq(S)
                    /\ Len(todo) = 0 /\ Range(todo) = {} /\ DOMAIN answers = {} /\ InTurn = {}
                    /\ \A S, T : answers \in Partial(S, T)
                    /\ delta = {}
                    /\ marks \in [to: Agent \cup {"none"}, escalate: BOOLEAN, final: BOOLEAN, long: BOOLEAN]
  OBVIOUS
<1>1. todo = <<>> /\ (\A S : todo \in Seq(S)) /\ Len(todo) = 0 /\ Range(todo) = {}
  BY DEF Quiet, Range
<1>2. DOMAIN answers = {} /\ \A S, T : answers \in Partial(S, T)
  BY NoAnswersFacts DEF Quiet
<1>3. delta = {}
      /\ marks \in [to: Agent \cup {"none"}, escalate: BOOLEAN, final: BOOLEAN, long: BOOLEAN]
  BY DEF Quiet, NoMarks
<1> QED
  BY <1>1, <1>2, <1>3 DEF InTurn

LEMMA InitTypeInv == Init => TypeInv
<1> SUFFICES ASSUME Init PROVE TypeInv
  OBVIOUS
<1>1. Quiet
  BY DEF Init, Quiet
<1>2. decision \in Partial(DOMAIN calls, BOOLEAN)
  <2>1. DOMAIN decision = {} /\ decision = [c \in DOMAIN decision |-> decision[c]]
    BY DEF Init
  <2> QED
    BY <2>1, PartialFacts
<1>3. DOMAIN calls = {} /\ Len(calls) = 0 /\ calls \in Seq([tool: Named, by: Agent])
  BY DEF Init
<1>4. log \in Seq(Entry) /\ contents \in Seq(Entry \cup {Again})
  BY DEF Init
<1>5. TypeOK
  <2>1. iter \in 0 .. MaxIterations /\ asked \in 0 .. MaxLlmCalls /\ messages \in 0 .. MaxMessages
        /\ Len(calls) <= MaxCalls /\ approvals \in [Call -> 0 .. MaxMessages]
    BY <1>3, LimitAssumption DEF Init
  <2>2. state = {} /\ credential = {} /\ resumed = {} /\ cut = {} /\ me = Root /\ Root \in Agent
        /\ ran \in [Call -> Nat] /\ paused \in BOOLEAN /\ cancelled \in BOOLEAN /\ pc = "idle"
    BY AgentAssumption DEF Init
  <2> QED
    BY <1>1, <1>2, <1>3, <1>4, <2>1, <2>2, QuietFacts DEF TypeOK
<1>6. TurnInv
  BY <1>1, QuietFacts DEF Init, TurnInv
<1>7. OwnersInv
  BY <1>1, QuietFacts DEF Init, OwnersInv, OwnAnswers
<1>8. CountInv
  BY DEF Init, CountInv
<1> QED
  BY <1>5, <1>6, <1>7, <1>8 DEF TypeInv

\* An entry is appended: if it has answers, they are the author's own.
LEMMA LogMore ==
    ASSUME TypeOK, OwnersInv, NEW e \in Entry, e.kind = "answers" => OwnAnswers(e.by, e.to),
           log' = Append(log, e), calls' = calls
    PROVE  /\ log' \in Seq(Entry)
           /\ \A k \in DOMAIN log' : log'[k].kind = "answers" => OwnAnswers(log[k].by, log[k].to)'
<1>1. log \in Seq(Entry)
  BY DEF TypeOK
<1>2. log' \in Seq(Entry) /\ Len(log) \in Nat /\ DOMAIN log' = 1 .. Len(log) + 1 /\ DOMAIN log = 1 .. Len(log)
      /\ log'[Len(log) + 1] = e /\ \A k \in 1 .. Len(log) : log'[k] = log[k]
  BY <1>1
<1>3. ASSUME NEW k \in DOMAIN log', log'[k].kind = "answers"
      PROVE  OwnAnswers(log[k].by, log[k].to)'
  <2>1. CASE k = Len(log) + 1
    BY <1>2, <1>3, <2>1 DEF OwnAnswers
  <2>2. CASE k \in DOMAIN log
    BY <1>2, <1>3, <2>2 DEF OwnersInv, OwnAnswers
  <2> QED
    BY <1>2, <2>1, <2>2
<1> QED
  BY <1>2, <1>3

\* Between turns, what is said of their calls says nothing.
LEMMA QuietStep ==
    ASSUME TypeOK', Quiet', CountInv',
           \A k \in DOMAIN log' : log'[k].kind = "answers" => OwnAnswers(log[k].by, log[k].to)',
           pc' # "tools"
    PROVE  TypeInv'
<1>1. Len(todo') = 0 /\ Range(todo') = {} /\ DOMAIN answers' = {} /\ InTurn' = {}
  BY NoAnswersFacts DEF Quiet, Range, InTurn
<1>2. TurnInv'
  BY <1>1 DEF TurnInv
<1>3. OwnersInv'
  BY <1>1 DEF OwnersInv, OwnAnswers
<1> QED
  BY <1>2, <1>3 DEF TypeInv

LEMMA StopQuiet == NoTurn => Quiet'
BY DEF NoTurn, Quiet

LEMMA FailTypes ==
    ASSUME TypeInv, Fail
    PROVE  TypeInv'
<1>1. Quiet'
  BY StopQuiet DEF Fail, Stop
<1>2. InTurn \subseteq DOMAIN calls /\ cut' \subseteq DOMAIN calls
  BY CallFacts DEF TypeInv, TypeOK, Fail, InTurn
<1>3. UNCHANGED <<session, context, me, messages, ran, approvals>> /\ pc' = "idle" /\ contents' = <<>> /\ iter' = 0
  BY DEF Fail, Stop
<1>4. TypeOK'
  <2>1. /\ todo' \in Seq(DOMAIN calls') /\ answers' \in Partial(DOMAIN calls', Answer) /\ delta' \subseteq DOMAIN answers'
        /\ marks' \in [to: Agent \cup {"none"}, escalate: BOOLEAN, final: BOOLEAN, long: BOOLEAN]
    BY <1>1, NoAnswersFacts DEF Quiet, NoMarks
  <2>2. iter' \in 0 .. MaxIterations /\ contents' \in Seq(Entry \cup {Again})
    BY <1>3, LimitAssumption
  <2> QED
    BY <1>2, <1>3, <2>1, <2>2 DEF TypeInv, TypeOK, session, context
<1>5. /\ CountInv'
      /\ \A k \in DOMAIN log' : log'[k].kind = "answers" => OwnAnswers(log[k].by, log[k].to)'
  BY <1>3 DEF TypeInv, CountInv, OwnersInv, OwnAnswers, session
<1> QED
  BY <1>1, <1>3, <1>4, <1>5, QuietStep

\* A turn ends, or there was none: what has its type, whatever else happens.
LEMMA NoTurnTypes ==
    ASSUME Quiet'
    PROVE  /\ todo' \in Seq(DOMAIN calls') /\ answers' \in Partial(DOMAIN calls', Answer) /\ delta' \subseteq DOMAIN answers'
           /\ marks' \in [to: Agent \cup {"none"}, escalate: BOOLEAN, final: BOOLEAN, long: BOOLEAN]
BY NoAnswersFacts DEF Quiet, NoMarks

\* The variables that a step leaves alone in most of the steps.
LEMMA ControlTypes ==
    ASSUME TypeInv, AskModel \/ StopCancelled \/ Cancel
    PROVE  TypeInv'
<1>1. /\ UNCHANGED <<session, history, me, messages, decision, resumed, paused>> /\ cancelled' \in BOOLEAN
      /\ asked' \in 0 .. MaxLlmCalls /\ iter' \in 0 .. MaxIterations /\ contents' \in Seq(Entry \cup {Again})
  <2>1. CASE AskModel
    <3>1. asked + 1 \in 0 .. MaxLlmCalls /\ iter + 1 \in 0 .. MaxIterations
      BY <2>1, LimitAssumption DEF AskModel, TypeInv, TypeOK
    <3> QED
      BY <2>1, <3>1 DEF AskModel, TypeInv, TypeOK
  <2>2. CASE StopCancelled
    BY <2>2, LimitAssumption DEF StopCancelled, Stop, TypeInv, TypeOK, context
  <2>3. CASE Cancel
    BY <2>3 DEF Cancel, TypeInv, TypeOK, history
  <2> QED
    BY <2>1, <2>2, <2>3
<1>2. CountInv' /\ \A k \in DOMAIN log' : log'[k].kind = "answers" => OwnAnswers(log[k].by, log[k].to)'
  BY <1>1 DEF TypeInv, CountInv, OwnersInv, OwnAnswers, session, history
<1>3. CASE Cancel
  <2>1. UNCHANGED <<turn, pc, me, calls, decision>>
    BY <1>1, <1>3 DEF Cancel, session
  <2>2. TypeOK'
    BY <1>1, <2>1 DEF TypeInv, TypeOK, session, history, turn
  <2>3. TurnInv'
    BY <1>1, <2>1 DEF TypeInv, TurnInv, Quiet, InTurn, turn, session
  <2>4. OwnersInv'
    BY <1>2, <2>1 DEF TypeInv, OwnersInv, OwnAnswers, turn
  <2> QED
    BY <1>2, <2>2, <2>3, <2>4 DEF TypeInv
<1>4. CASE AskModel \/ StopCancelled
  <2>1. Quiet' /\ pc' \in {"ask", "idle"}
    <3>1. CASE StopCancelled
      BY <3>1, StopQuiet DEF StopCancelled, Stop
    <3>2. CASE AskModel
      BY <3>2 DEF AskModel, TypeInv, TurnInv, Quiet, turn
    <3> QED
      BY <1>4, <3>1, <3>2
  <2>2. TypeOK'
    BY <1>1, <2>1, NoTurnTypes DEF TypeInv, TypeOK, session, history
  <2> QED
    BY <1>2, <2>1, <2>2, QuietStep
<1> QED
  BY <1>3, <1>4

\* One or two texts of the agent.
LEMMA TextTypes ==
    ASSUME TypeInv, AnsweredByCallback \/ Exhausted \/ Respond \/ ExecuteCode
    PROVE  TypeInv'
<1> DEFINE one == Append(log, Says(me))
<1>1. /\ UNCHANGED <<calls, credential, state, context, history, me, messages>>
      /\ log' \in {log, one, Append(one, Says(me))}
  <2>1. log \o <<Says(me), Says(me)>> = Append(one, Says(me))
    <3>1. log \in Seq(Entry) /\ Says(me) \in Entry
      BY EntryFacts DEF TypeInv, TypeOK
    <3> QED
      BY <3>1
  <2>2. \A l : \A m \in AfterAgent(l) : m = l \/ m = Append(l, Says(me))
    BY DEF AfterAgent
  <2> QED
    BY <2>1, <2>2 DEF AnsweredByCallback, Exhausted, Respond, ExecuteCode
<1>2. /\ log' \in Seq(Entry)
      /\ \A k \in DOMAIN log' : log'[k].kind = "answers" => log'[k] \in Range(log)
  <2>1. log \in Seq(Entry) /\ Says(me) \in Entry /\ Says(me).kind = "text"
    BY EntryFacts DEF TypeInv, TypeOK
  <2> HIDE DEF one
  <2>2. one \in Seq(Entry) /\ \A k \in DOMAIN one : one[k] \in Range(log) \cup {Says(me)}
    BY <2>1 DEF one, Range
  <2>3. Append(one, Says(me)) \in Seq(Entry)
        /\ \A k \in DOMAIN Append(one, Says(me)) : Append(one, Says(me))[k] \in Range(log) \cup {Says(me)}
    BY <2>1, <2>2
  <2>4. \A k \in DOMAIN log : log[k] \in Range(log)
    BY DEF Range
  <2>5. \A k \in DOMAIN log' : log'[k] \in Range(log) \cup {Says(me)}
    BY <1>1, <2>2, <2>3, <2>4
  <2> QED
    BY <1>1, <2>1, <2>2, <2>3, <2>5
<1>3. CountInv' /\ \A k \in DOMAIN log' : log'[k].kind = "answers" => OwnAnswers(log[k].by, log[k].to)'
  <2>1. CountInv'
    BY <1>1 DEF TypeInv, CountInv, history
  <2>2. ASSUME NEW k \in DOMAIN log', log'[k].kind = "answers"
        PROVE  OwnAnswers(log[k].by, log[k].to)'
    <3>1. PICK j \in DOMAIN log : log'[k] = log[j]
      BY <1>2, <2>2 DEF Range
    <3> QED
      BY <1>1, <2>2, <3>1 DEF TypeInv, OwnersInv, OwnAnswers
  <2> QED
    BY <2>1, <2>2
<1>4. /\ Quiet' /\ pc' \in {"idle", "head"} /\ iter' \in 0 .. MaxIterations
      /\ contents' \in Seq(Entry \cup {Again})
  <2>1. CASE AnsweredByCallback \/ Exhausted \/ Respond
    <3>1. Stop
      BY <2>1 DEF AnsweredByCallback, Exhausted, Respond
    <3> QED
      BY <3>1, StopQuiet, LimitAssumption DEF Stop
  <2>2. CASE ExecuteCode
    <3>1. Quiet' /\ pc' = "head" /\ iter' = iter
      BY <2>2 DEF ExecuteCode, TypeInv, TurnInv, Quiet, turn
    <3>2. contents \in Seq(Entry \cup {Again}) /\ Says(me) \in Entry \cup {Again}
          /\ contents' = contents \o <<Says(me), Says(me)>>
      BY <2>2, EntryFacts DEF ExecuteCode, TypeInv, TypeOK
    <3>3. contents' \in Seq(Entry \cup {Again})
      BY <3>2
    <3> QED
      BY <3>1, <3>3 DEF TypeInv, TypeOK
  <2> QED
    BY <2>1, <2>2
<1>5. TypeOK'
  BY <1>1, <1>2, <1>4, NoTurnTypes DEF TypeInv, TypeOK, context, history
<1> QED
  BY <1>3, <1>4, <1>5, QuietStep

\* A message is about calls that the user has been asked for, so its consents
\* are for tools that need one.
LEMMA MessageTypes ==
    ASSUME TypeInv, SomeMessage
    PROVE  TypeInv'
<1>1. PICK dc \in SUBSET AskedFor("confirm"), cs \in SUBSET AskedFor("consent") :
        \E d \in [dc -> BOOLEAN], stored \in SUBSET cs : Message(d, cs, stored)
  BY DEF SomeMessage
<1>2. PICK d \in [dc -> BOOLEAN], stored \in SUBSET cs : Message(d, cs, stored)
  BY <1>1
<1>3. /\ UNCHANGED <<calls, state, turn, ran, cut, iter, contents>>
      /\ pc = "idle" /\ pc' = "begin" /\ me' = Root /\ asked' = 0 /\ paused' = FALSE /\ cancelled' = FALSE
      /\ messages < MaxMessages /\ messages' = messages + 1
      /\ log' = Append(log, UserSays(DOMAIN d \cup cs))
      /\ decision' = d /\ resumed' = cs
      /\ approvals' = [c \in Call |-> IF c \in DOMAIN d /\ d[c] THEN approvals[c] + 1 ELSE approvals[c]]
      /\ credential' = credential \cup {calls[c].tool : c \in stored}
  BY <1>2 DEF Message, AbsorbDecisions, AbsorbConsents
<1>4. dc \subseteq DOMAIN calls /\ cs \subseteq DOMAIN calls /\ DOMAIN calls \subseteq Call
      /\ \A c \in cs : calls[c].tool \in Consented
  BY CallFacts DEF AskedFor, TypeInv, OwnersInv, OwnAnswers
<1>5. decision' \in Partial(DOMAIN calls', BOOLEAN)
  BY <1>2, <1>3, <1>4 DEF Partial
<1>6. Quiet'
  BY <1>3 DEF TypeInv, TurnInv, Quiet, turn
<1>7. log' \in Seq(Entry) /\ \A k \in DOMAIN log' : log'[k].kind = "answers" => OwnAnswers(log[k].by, log[k].to)'
  <2>1. DOMAIN d \cup cs \in SUBSET Call
    BY <1>2, <1>4
  <2>2. UserSays(DOMAIN d \cup cs) \in Entry /\ UserSays(DOMAIN d \cup cs).kind # "answers"
    BY <2>1, EntryFacts
  <2> QED
    BY <1>3, <2>2, LogMore DEF TypeInv
<1>8. approvals' \in [Call -> 0 .. MaxMessages] /\ messages' \in 0 .. MaxMessages /\ CountInv'
  <2>1. \A c \in Call : approvals[c] \in 0 .. MaxMessages /\ approvals[c] <= messages
    BY DEF TypeInv, TypeOK, CountInv
  <2>2. messages \in Nat /\ MaxMessages \in Nat /\ messages + 1 <= MaxMessages
    BY <1>3, LimitAssumption DEF TypeInv, TypeOK
  <2>3. \A c \in Call : approvals'[c] \in 0 .. MaxMessages /\ approvals'[c] <= messages'
    BY <1>3, <2>1, <2>2
  <2> QED
    BY <1>3, <2>2, <2>3 DEF CountInv
<1>9. TypeOK'
  <2>1. credential' \subseteq Consented
    BY <1>3, <1>4 DEF TypeInv, TypeOK
  <2>2. me' \in Agent /\ asked' \in 0 .. MaxLlmCalls
    BY <1>3, AgentAssumption, LimitAssumption
  <2> QED
    BY <1>3, <1>4, <1>5, <1>6, <1>7, <1>8, <2>1, <2>2, NoTurnTypes DEF TypeInv, TypeOK
<1> QED
  BY <1>3, <1>6, <1>7, <1>8, <1>9, QuietStep

\* The order of a set: each of its members once.
LEMMA OrderFacts ==
    ASSUME NEW n \in Nat, NEW S, S \subseteq 1 .. n, NEW s \in SetToSeqs(S)
    PROVE  /\ s \in Seq(S) /\ Range(s) \subseteq S
           /\ \A i, j \in 1 .. Len(s) : s[i] = s[j] => i = j
<1>1. IsFiniteSet(S)
  <2>1. IsFiniteSet(1 .. n)
    BY FS_Interval
  <2> QED
    BY <2>1, FS_Subset
<1>2. Cardinality(S) \in Nat
  BY <1>1, FS_CardinalityType
<1>3. s \in [1 .. Cardinality(S) -> S] /\ \A i, j \in 1 .. Cardinality(S) : i # j => s[i] # s[j]
  BY DEF SetToSeqs
<1>4. s \in Seq(S) /\ Len(s) = Cardinality(S)
  BY <1>2, <1>3
<1> QED
  BY <1>3, <1>4 DEF Range

\* The run begins with its request and the calls that it replays.
LEMMA BeginTypes ==
    ASSUME TypeInv, BeginRun
    PROVE  TypeInv'
<1>1. /\ UNCHANGED <<session, context, history, me, messages, answers, delta, marks>>
      /\ contents' = IF Last(log).kind = "user" THEN log ELSE Append(log, Again)
      /\ todo' \in SetToSeqs(Replayable)
      /\ pc = "begin" /\ pc' \in {"head", "replay"} /\ (pc' = "head" <=> Replayable = {}) /\ iter' = 0
  BY DEF BeginRun
<1>2. contents' \in Seq(Entry \cup {Again})
  <2>1. log \in Seq(Entry)
    BY DEF TypeInv, TypeOK
  <2>2. log \in Seq(Entry \cup {Again}) /\ Again \in Entry \cup {Again}
    BY <2>1
  <2>3. Append(log, Again) \in Seq(Entry \cup {Again})
    BY <2>2
  <2> QED
    BY <1>1, <2>2, <2>3
<1>3. Replayable \subseteq DOMAIN calls /\ DOMAIN calls = 1 .. Len(calls) /\ Len(calls) \in Nat
      /\ \A c \in Replayable : calls[c].by = me
  BY CallFacts DEF Replayable, Unblocked, TypeInv, TypeOK
<1>4. todo' \in Seq(Replayable) /\ Range(todo') \subseteq Replayable
      /\ \A i, j \in 1 .. Len(todo') : todo'[i] = todo'[j] => i = j
  BY <1>1, <1>3, OrderFacts
<1>5. todo' \in Seq(DOMAIN calls')
  BY <1>1, <1>3, <1>4 DEF session
<1>6. TypeOK'
  BY <1>1, <1>2, <1>5, LimitAssumption DEF TypeInv, TypeOK, session, context, history
<1>7. TurnInv'
  <2>1. Quiet /\ DOMAIN answers' = {}
    BY <1>1, QuietFacts DEF TypeInv, TurnInv
  <2>2. pc' = "head" => todo' = <<>>
    <3> SUFFICES ASSUME pc' = "head" PROVE todo' = <<>>
      OBVIOUS
    <3>1. todo' \in Seq({})
      BY <1>1, <1>4
    <3> QED
      BY <3>1
  <2>3. pc' = "head" => Quiet'
    BY <1>1, <2>1, <2>2 DEF Quiet
  <2>4. InTurn' \subseteq Replayable
    BY <1>4, <2>1 DEF InTurn
  <2>5. \A c \in InTurn' : calls'[c].by = me'
    BY <1>1, <1>3, <2>4 DEF session
  <2> QED
    BY <1>1, <1>4, <2>1, <2>3, <2>5 DEF TurnInv
<1>8. OwnersInv' /\ CountInv'
  BY <1>1 DEF TypeInv, OwnersInv, OwnAnswers, CountInv, session, history
<1> QED
  BY <1>6, <1>7, <1>8 DEF TypeInv

\* What the dispatch of a call changes.
Dispatched(c) ==
    /\ answers' \in Partial(DOMAIN calls, Answer)
    /\ DOMAIN answers' = DOMAIN answers \cup {c}
    /\ answers'[c] = "consent" => calls[c].tool \in Consented
    /\ \A x \in DOMAIN answers \ {c} : answers'[x] = answers[x]
    /\ delta' \subseteq DOMAIN answers'
    /\ marks' \in [to: Agent \cup {"none"}, escalate: BOOLEAN, final: BOOLEAN, long: BOOLEAN]
    /\ ran' \in [Call -> Nat]
    /\ \A x \in Call : ran'[x] = ran[x] \/ (x = c /\ Gate(c) = "open" /\ ran'[x] = ran[x] + 1)

LEMMA GateFacts ==
    ASSUME NEW c
    PROVE  /\ Gate(c) \in Pending \cup {"denied", "open"}
           /\ Gate(c) = "consent" => calls[c].tool \in Consented
           /\ Gate(c) = "open" /\ calls[c].tool \in Confirmed => c \in DOMAIN decision /\ decision[c]
BY DEF Gate, Pending

LEMMA DispatchFacts ==
    ASSUME TypeInv, NEW c \in DOMAIN calls, Dispatch(c)
    PROVE  Dispatched(c)
<1> DEFINE Marks == [to: Agent \cup {"none"}, escalate: BOOLEAN, final: BOOLEAN, long: BOOLEAN]
<1>1. /\ answers \in Partial(DOMAIN calls, Answer) /\ delta \subseteq DOMAIN answers /\ marks \in Marks
      /\ ran \in [Call -> Nat] /\ c \in Call
  BY CallFacts DEF TypeInv, TypeOK
<1>2. ASSUME NEW v \in Answer, answers' = With(answers, c, v)
      PROVE  /\ answers' \in Partial(DOMAIN calls, Answer)
             /\ DOMAIN answers' = DOMAIN answers \cup {c}
             /\ answers'[c] = v
             /\ \A x \in DOMAIN answers \ {c} : answers'[x] = answers[x]
  <2> DEFINE Calls == DOMAIN calls
  <2>1. answers \in Partial(Calls, Answer) /\ c \in Calls
    BY <1>1
  <2> HIDE DEF Calls
  <2>2. /\ With(answers, c, v) \in Partial(Calls, Answer) /\ DOMAIN With(answers, c, v) = DOMAIN answers \cup {c}
        /\ With(answers, c, v)[c] = v /\ \A x \in DOMAIN answers \ {c} : With(answers, c, v)[x] = answers[x]
    BY <2>1, OneMore
  <2> QED
    BY <1>2, <2>2 DEF Calls
<1> HIDE DEF Marks
<1>3. CASE Blocked(c)
  <2>1. Gate(c) \in Answer /\ (Gate(c) = "consent" => calls[c].tool \in Consented)
    BY <1>3, GateFacts DEF Blocked, Answer
  <2>2. answers' = With(answers, c, Gate(c)) /\ UNCHANGED <<delta, ran>>
        /\ marks' = [marks EXCEPT !.long = @ \/ Gate(c) \in Pending \/ calls[c].tool \in LongRunning]
    BY <1>3 DEF Blocked
  <2>3. marks' \in Marks
    BY <1>1, <2>2 DEF Marks
  <2>6. /\ answers' \in Partial(DOMAIN calls, Answer) /\ DOMAIN answers' = DOMAIN answers \cup {c}
        /\ (answers'[c] = "consent" => calls[c].tool \in Consented)
        /\ \A x \in DOMAIN answers \ {c} : answers'[x] = answers[x]
    BY <1>2, <2>1, <2>2
  <2>7. /\ delta' \subseteq DOMAIN answers' /\ ran' \in [Call -> Nat]
        /\ \A x \in Call : ran'[x] = ran[x] \/ (x = c /\ Gate(c) = "open" /\ ran'[x] = ran[x] + 1)
    BY <1>1, <2>6, <2>2
  <2> QED
    BY <2>6, <2>7, <2>3 DEF Dispatched, Marks
<1>4. CASE ShortCut(c)
  <2>1. answers' = With(answers, c, "value") /\ UNCHANGED <<delta, ran>>
        /\ marks' = [marks EXCEPT !.long = @ \/ calls[c].tool \in LongRunning]
    BY <1>4 DEF ShortCut
  <2>2. marks' \in Marks /\ "value" \in Answer /\ "value" # "consent"
    BY <1>1, <2>1 DEF Answer, Marks
  <2>6. /\ answers' \in Partial(DOMAIN calls, Answer) /\ DOMAIN answers' = DOMAIN answers \cup {c}
        /\ (answers'[c] = "consent" => calls[c].tool \in Consented)
        /\ \A x \in DOMAIN answers \ {c} : answers'[x] = answers[x]
    BY <1>2, <2>1, <2>2
  <2>7. /\ delta' \subseteq DOMAIN answers' /\ ran' \in [Call -> Nat]
        /\ \A x \in Call : ran'[x] = ran[x] \/ (x = c /\ Gate(c) = "open" /\ ran'[x] = ran[x] + 1)
    BY <1>1, <2>6, <2>1
  <2> QED
    BY <2>6, <2>7, <2>2 DEF Dispatched, Marks
<1>5. CASE Runs(c)
  <2>1. PICK v \in {"error", "value"} : answers' = With(answers, c, v)
    BY <1>5 DEF Runs
  <2>2. /\ Gate(c) = "open" /\ ran' = [ran EXCEPT ![c] = @ + 1] /\ delta' = delta \cup {c}
        /\ marks' = Merge(calls[c].tool)
    BY <1>5 DEF Runs
  <2>3. marks' \in Marks
    <3>1. Target(calls[c].tool) \in Agent \cup {"none"}
      BY DEF Target
    <3> QED
      BY <1>1, <2>2, <3>1 DEF Merge, Marks
  <2>4. v \in Answer /\ v # "consent"
    BY DEF Answer
  <2>5. ran' \in [Call -> Nat] /\ \A x \in Call : ran'[x] = ran[x] \/ (x = c /\ ran'[x] = ran[x] + 1)
    <3>1. ran \in [Call -> Nat] /\ c \in Call /\ ran' = [ran EXCEPT ![c] = @ + 1]
      BY <1>1, <2>2
    <3> QED
      BY <3>1
  <2>6. /\ answers' \in Partial(DOMAIN calls, Answer) /\ DOMAIN answers' = DOMAIN answers \cup {c}
        /\ (answers'[c] = "consent" => calls[c].tool \in Consented)
        /\ \A x \in DOMAIN answers \ {c} : answers'[x] = answers[x]
    BY <1>2, <2>1, <2>4
  <2>7. /\ delta' \subseteq DOMAIN answers' /\ ran' \in [Call -> Nat]
        /\ \A x \in Call : ran'[x] = ran[x] \/ (x = c /\ Gate(c) = "open" /\ ran'[x] = ran[x] + 1)
    BY <1>1, <2>6, <2>2, <2>5
  <2> QED
    BY <2>6, <2>7, <2>3 DEF Dispatched, Marks
<1> QED
  BY <1>3, <1>4, <1>5 DEF Dispatch

\* The first call of the turn is dispatched, and is one of those with an answer.
LEMMA NextCall ==
    ASSUME TypeInv, ReplayCall \/ DispatchCall
    PROVE  /\ pc \in {"replay", "tools"} /\ todo # <<>> /\ Head(todo) \in InTurn
           /\ Head(todo) \in DOMAIN calls /\ Head(todo) \notin DOMAIN answers
           /\ Dispatched(Head(todo))
           /\ UNCHANGED <<session, context, approvals, cut, pc, me, iter, contents, messages>>
           /\ todo' = Tail(todo) /\ todo' \in Seq(DOMAIN calls)
           /\ Range(todo) = Range(todo') \cup {Head(todo)} /\ Head(todo) \notin Range(todo')
           /\ \A i, j \in 1 .. Len(todo') : todo'[i] = todo'[j] => i = j
           /\ InTurn' = InTurn
<1>1. /\ pc \in {"replay", "tools"} /\ todo # <<>> /\ Dispatch(Head(todo)) /\ todo' = Tail(todo)
      /\ UNCHANGED <<session, context, approvals, cut, pc, me, iter, contents, messages>>
  BY DEF ReplayCall, DispatchCall
<1>2. todo \in Seq(DOMAIN calls) /\ \A i, j \in 1 .. Len(todo) : todo[i] = todo[j] => i = j
  BY DEF TypeInv, TypeOK, TurnInv
<1>3. /\ Len(todo) \in Nat \ {0} /\ Head(todo) = todo[1] /\ todo[1] \in DOMAIN calls
      /\ todo' \in Seq(DOMAIN calls) /\ Len(todo') = Len(todo) - 1
      /\ \A i \in 1 .. Len(todo) - 1 : todo'[i] = todo[i + 1]
  BY <1>1, <1>2
<1>4. Range(todo) = {todo[i] : i \in 1 .. Len(todo)} /\ Range(todo') = {todo'[i] : i \in 1 .. Len(todo')}
  BY <1>2, <1>3 DEF Range
<1>5. Range(todo) = Range(todo') \cup {Head(todo)}
  <2>1. ASSUME NEW i \in 1 .. Len(todo) PROVE todo[i] \in Range(todo') \cup {Head(todo)}
    <3>1. CASE i = 1
      BY <1>3, <3>1
    <3>2. CASE i # 1
      <4>1. i - 1 \in 1 .. Len(todo') /\ todo'[i - 1] = todo[i]
        BY <1>3, <3>2
      <4> QED
        BY <1>4, <4>1
    <3> QED
      BY <3>1, <3>2
  <2>2. ASSUME NEW i \in 1 .. Len(todo') PROVE todo'[i] \in Range(todo)
    <3>1. i + 1 \in 1 .. Len(todo) /\ todo'[i] = todo[i + 1]
      BY <1>3
    <3> QED
      BY <1>4, <3>1
  <2>3. Head(todo) \in Range(todo)
    BY <1>3, <1>4
  <2> QED
    BY <1>4, <2>1, <2>2, <2>3
<1>6. Head(todo) \notin Range(todo')
  <2> SUFFICES ASSUME NEW i \in 1 .. Len(todo'), todo'[i] = Head(todo) PROVE FALSE
    BY <1>4
  <2>1. i + 1 \in 1 .. Len(todo) /\ todo[i + 1] = todo[1] /\ 1 \in 1 .. Len(todo)
    BY <1>3
  <2> QED
    BY <1>2, <1>3, <2>1
<1>7. \A i, j \in 1 .. Len(todo') : todo'[i] = todo'[j] => i = j
  <2> SUFFICES ASSUME NEW i \in 1 .. Len(todo'), NEW j \in 1 .. Len(todo'), todo'[i] = todo'[j] PROVE i = j
    OBVIOUS
  <2>1. i + 1 \in 1 .. Len(todo) /\ j + 1 \in 1 .. Len(todo) /\ todo[i + 1] = todo[j + 1]
    BY <1>3
  <2>2. i + 1 = j + 1
    BY <1>2, <2>1
  <2> QED
    BY <1>3, <2>2
<1>8. Head(todo) \in InTurn /\ Head(todo) \notin DOMAIN answers
  BY <1>5 DEF TypeInv, TurnInv, InTurn
<1>9. Dispatched(Head(todo))
  BY <1>1, <1>3, DispatchFacts
<1>10. InTurn' = InTurn
  BY <1>5, <1>9 DEF InTurn, Dispatched
<1> QED
  BY <1>1, <1>3, <1>5, <1>6, <1>7, <1>8, <1>9, <1>10

LEMMA DispatchTypes ==
    ASSUME TypeInv, ReplayCall \/ DispatchCall
    PROVE  TypeInv'
<1> DEFINE c == Head(todo)
<1>1. /\ pc \in {"replay", "tools"} /\ c \in InTurn /\ c \in DOMAIN calls /\ c \notin DOMAIN answers
      /\ Dispatched(c)
      /\ UNCHANGED <<session, context, approvals, cut, pc, me, iter, contents, messages>>
      /\ todo' \in Seq(DOMAIN calls) /\ Range(todo) = Range(todo') \cup {c} /\ c \notin Range(todo')
      /\ \A i, j \in 1 .. Len(todo') : todo'[i] = todo'[j] => i = j
      /\ InTurn' = InTurn
  BY NextCall
<1> HIDE DEF c
<1>2. TypeOK'
  BY <1>1 DEF TypeInv, TypeOK, Dispatched, session, context
<1>3. TurnInv'
  <2>1. Range(todo') \cap DOMAIN answers' = {}
    BY <1>1 DEF TypeInv, TurnInv, Dispatched
  <2> QED
    BY <1>1, <2>1 DEF TypeInv, TurnInv, session, context
<1>4. OwnersInv'
  <2>1. calls[c].by = me
    BY <1>1 DEF TypeInv, TurnInv
  <2> QED
    BY <1>1, <2>1 DEF TypeInv, OwnersInv, OwnAnswers, Dispatched, session
<1>5. CountInv'
  BY <1>1 DEF TypeInv, CountInv
<1> QED
  BY <1>2, <1>3, <1>4, <1>5 DEF TypeInv

\* The answers of a turn are the agent's own.
LEMMA AnswersFacts ==
    ASSUME TypeInv
    PROVE  /\ Answers(me, answers) \in Entry /\ Answers(me, answers).kind = "answers"
           /\ Answers(me, answers).by = me /\ Answers(me, answers).to = answers
           /\ OwnAnswers(me, answers)
<1>1. me \in Agent /\ answers \in Partial(Call, Answer)
  BY CallFacts, PartialMore DEF TypeInv, TypeOK
<1>2. OwnAnswers(me, answers)
  BY DEF TypeInv, OwnersInv
<1> QED
  BY <1>1, <1>2, EntryFacts

LEMMA ReplayDoneTypes ==
    ASSUME TypeInv, ReplayDone
    PROVE  TypeInv'
<1>1. /\ log' = Append(log, Answers(me, answers)) /\ state' = state \cup delta
      /\ resumed' = resumed \ DOMAIN answers
      /\ decision' = [c \in DOMAIN decision \ DOMAIN answers |-> decision[c]]
      /\ UNCHANGED <<calls, credential, paused, cancelled, asked, history, me, messages>>
      /\ pc' \in {"idle", "head"} /\ (pc' = "idle" => Stop)
      /\ (pc' = "head" => NoTurn /\ UNCHANGED iter /\ contents' = Append(contents, Answers(me, answers)))
  BY DEF ReplayDone, Consume, Stop
<1>2. Quiet'
  BY <1>1, StopQuiet DEF Stop
<1>3. log' \in Seq(Entry) /\ \A k \in DOMAIN log' : log'[k].kind = "answers" => OwnAnswers(log[k].by, log[k].to)'
  BY <1>1, AnswersFacts, LogMore DEF TypeInv
<1>4. decision' \in Partial(DOMAIN calls, BOOLEAN)
  <2>1. DOMAIN decision \subseteq DOMAIN calls /\ \A c \in DOMAIN decision : decision[c] \in BOOLEAN
    BY CallFacts DEF TypeInv
  <2>2. decision' \in [DOMAIN decision \ DOMAIN answers -> BOOLEAN]
    BY <1>1, <2>1
  <2> QED
    BY <2>1, <2>2 DEF Partial
<1>5. iter' \in 0 .. MaxIterations /\ contents' \in Seq(Entry \cup {Again})
  <2>1. CASE pc' = "idle"
    BY <1>1, <2>1, LimitAssumption DEF Stop
  <2>2. CASE pc' = "head"
    <3>1. contents \in Seq(Entry \cup {Again}) /\ Answers(me, answers) \in Entry \cup {Again}
          /\ contents' = Append(contents, Answers(me, answers))
      BY <1>1, <2>2, AnswersFacts DEF TypeInv, TypeOK
    <3>2. contents' \in Seq(Entry \cup {Again})
      BY <3>1
    <3> QED
      BY <1>1, <2>2, <3>2 DEF TypeInv, TypeOK
  <2> QED
    BY <1>1, <2>1, <2>2
<1>6. TypeOK'
  <2>1. state' \subseteq DOMAIN calls' /\ resumed' \subseteq DOMAIN calls'
    BY <1>1, CallFacts DEF TypeInv, TypeOK
  <2> QED
    BY <1>1, <1>2, <1>3, <1>4, <1>5, <2>1, NoTurnTypes DEF TypeInv, TypeOK, history
<1>7. CountInv'
  BY <1>1 DEF TypeInv, CountInv, history
<1> QED
  BY <1>1, <1>2, <1>3, <1>6, <1>7, QuietStep

\* A response adds calls behind those that there are.
LEMMA NewCalls ==
    ASSUME TypeInv, NEW n \in 1 .. MaxParallel, NEW names \in [1 .. n -> Named], CallTools(names)
    PROVE  LET new == Len(calls) + 1 .. Len(calls) + n IN
           /\ calls' \in Seq([tool: Named, by: Agent]) /\ Len(calls') = Len(calls) + n /\ Len(calls') <= MaxCalls
           /\ DOMAIN calls' = DOMAIN calls \cup new /\ DOMAIN calls \cap new = {}
           /\ \A c \in DOMAIN calls : calls'[c] = calls[c]
           /\ \A c \in new : calls'[c].by = me
           /\ todo' \in Seq(new) /\ Range(todo') = new
           /\ \A i, j \in 1 .. Len(todo') : todo'[i] = todo'[j] => i = j
           /\ log' = Append(log, Asks(me, new)) /\ new \subseteq Call
<1> DEFINE R == [tool: Named, by: Agent]
           new == Len(calls) + 1 .. Len(calls) + n
           more == [k \in DOMAIN names |-> [tool |-> names[k], by |-> me]]
           ids == [k \in DOMAIN names |-> Len(calls) + k]
<1>1. /\ calls \in Seq(R) /\ Len(calls) \in Nat /\ DOMAIN calls = 1 .. Len(calls) /\ me \in Agent
  BY CallFacts DEF TypeInv, TypeOK
<1>2. n \in Nat \ {0} /\ DOMAIN names = 1 .. n /\ Len(names) = n /\ \A k \in 1 .. n : names[k] \in Named
  <2>1. n \in Nat \ {0} /\ names \in Seq(Named)
    BY LimitAssumption
  <2> QED
    BY <2>1
<1>3. /\ Len(calls) + n <= MaxCalls /\ log' = Append(log, Asks(me, Range(ids))) /\ todo' = ids
      /\ calls' = calls \o more
  BY <1>2 DEF CallTools
<1>4. more \in [1 .. n -> R] /\ \A k \in 1 .. n : more[k].by = me
  BY <1>1, <1>2
<1> HIDE DEF R, more
<1>5. more \in Seq(R) /\ Len(more) = n
  BY <1>2, <1>4
<1>6. calls' \in Seq(R) /\ Len(calls') = Len(calls) + n
      /\ \A k \in 1 .. Len(calls) + n : calls'[k] = IF k <= Len(calls) THEN calls[k] ELSE more[k - Len(calls)]
  BY <1>1, <1>3, <1>5
<1>7. ids \in [1 .. n -> new] /\ \A k \in 1 .. n : ids[k] = Len(calls) + k
  BY <1>1, <1>2
<1> HIDE DEF ids
<1>8. ids \in Seq(new) /\ Len(ids) = n
  BY <1>2, <1>7
<1>9. Range(ids) = new
  <2>1. ASSUME NEW c \in new PROVE c \in Range(ids)
    <3>1. c - Len(calls) \in 1 .. n /\ ids[c - Len(calls)] = c
      BY <1>1, <1>2, <1>7
    <3> QED
      BY <1>7, <3>1 DEF Range
  <2> QED
    BY <1>7, <2>1 DEF Range
<1>10. \A i, j \in 1 .. Len(ids) : ids[i] = ids[j] => i = j
  BY <1>1, <1>2, <1>7, <1>8
<1>11. /\ DOMAIN calls' = 1 .. Len(calls) + n
       /\ DOMAIN calls' = DOMAIN calls \cup new /\ DOMAIN calls \cap new = {}
  <2>1. DOMAIN calls' = 1 .. Len(calls) + n
    BY <1>6
  <2> QED
    BY <1>1, <1>2, <2>1
<1>12. \A c \in DOMAIN calls : calls'[c] = calls[c]
  BY <1>1, <1>2, <1>6
<1>13. ASSUME NEW c \in new PROVE calls'[c].by = me
  <2>1. c \in 1 .. Len(calls) + n /\ ~ (c <= Len(calls)) /\ c - Len(calls) \in 1 .. n
    BY <1>1, <1>2
  <2> QED
    BY <1>4, <1>6, <2>1
<1>14. new \subseteq Call
  BY <1>1, <1>2, <1>3, LimitAssumption DEF Call
<1>15. calls' \in Seq([tool: Named, by: Agent]) /\ Len(calls') = Len(calls) + n /\ Len(calls') <= MaxCalls
  BY <1>3, <1>6 DEF R
<1> HIDE DEF new
<1>16. todo' \in Seq(new) /\ Range(todo') = new /\ log' = Append(log, Asks(me, new))
  BY <1>3, <1>8, <1>9
<1> QED
  BY <1>3, <1>10, <1>11, <1>12, <1>13, <1>14, <1>15, <1>16 DEF new

LEMMA CallToolsTypes ==
    ASSUME TypeInv, NEW n \in 1 .. MaxParallel, NEW names \in [1 .. n -> Named], CallTools(names)
    PROVE  TypeInv'
<1> DEFINE new == Len(calls) + 1 .. Len(calls) + n
<1>1. /\ pc = "ask" /\ pc' = "tools"
      /\ UNCHANGED <<credential, state, context, history, me, iter, contents, messages, answers, delta, marks>>
  BY DEF CallTools
<1>2. /\ calls' \in Seq([tool: Named, by: Agent]) /\ Len(calls') <= MaxCalls
      /\ DOMAIN calls' = DOMAIN calls \cup new /\ DOMAIN calls \cap new = {}
      /\ \A c \in DOMAIN calls : calls'[c] = calls[c]
      /\ \A c \in new : calls'[c].by = me
      /\ todo' \in Seq(new) /\ Range(todo') = new
      /\ \A i, j \in 1 .. Len(todo') : todo'[i] = todo'[j] => i = j
      /\ log' = Append(log, Asks(me, new)) /\ new \subseteq Call
  BY NewCalls
<1> HIDE DEF new
<1>3. Quiet /\ DOMAIN answers = {} /\ DOMAIN answers' = {}
  BY <1>1, QuietFacts DEF TypeInv, TurnInv
<1>4. log \in Seq(Entry) /\ Asks(me, new) \in Entry /\ Asks(me, new).kind = "calls"
  BY <1>2, EntryFacts DEF TypeInv, TypeOK
<1>5. log' \in Seq(Entry) /\ DOMAIN log' = 1 .. Len(log) + 1 /\ DOMAIN log = 1 .. Len(log) /\ Len(log) \in Nat
      /\ log'[Len(log) + 1] = Asks(me, new) /\ \A k \in DOMAIN log : log'[k] = log[k]
  BY <1>2, <1>4
<1>6. TypeOK'
  <2>1. todo' \in Seq(DOMAIN calls')
    BY <1>2
  <2>2. decision' \in Partial(DOMAIN calls', BOOLEAN)
    BY <1>1, <1>2, PartialMore DEF TypeInv, TypeOK, context
  <2>3. answers' \in Partial(DOMAIN calls', Answer) /\ delta' = {}
    BY <1>1, <1>3, NoAnswersFacts DEF Quiet
  <2> QED
    BY <1>1, <1>2, <1>5, <2>1, <2>2, <2>3 DEF TypeInv, TypeOK, context, history
<1>7. TurnInv'
  <2>1. InTurn' = new /\ Range(todo') \cap DOMAIN answers' = {}
    BY <1>2, <1>3 DEF InTurn
  <2>2. DOMAIN decision' \subseteq DOMAIN calls
    BY <1>1, CallFacts DEF TypeInv, context
  <2>3. log' # <<>>
    BY <1>5
  <2> QED
    BY <1>1, <1>2, <2>1, <2>2, <2>3 DEF TurnInv
<1>8. OwnersInv'
  <2>1. ASSUME NEW k \in DOMAIN log', log'[k].kind = "answers"
        PROVE  OwnAnswers(log[k].by, log[k].to)'
    <3>1. k \in DOMAIN log /\ log'[k] = log[k] /\ log[k].kind = "answers"
      BY <1>4, <1>5, <2>1
    <3>2. OwnAnswers(log[k].by, log[k].to)
      BY <3>1 DEF TypeInv, OwnersInv
    <3> QED
      BY <1>2, <3>1, <3>2 DEF OwnAnswers
  <2> QED
    BY <1>3, <2>1 DEF OwnersInv, OwnAnswers
<1>9. CountInv'
  BY <1>1 DEF TypeInv, CountInv, history
<1> QED
  BY <1>6, <1>7, <1>8, <1>9 DEF TypeInv

LEMMA LastOf ==
    ASSUME NEW S, NEW s \in Seq(S), s # <<>>
    PROVE  Last(s) \in S /\ Len(s) \in Nat \ {0} /\ Last(s) = s[Len(s)]
BY DEF Last

LEMMA EmitTypes ==
    ASSUME TypeInv, EmitAnswers
    PROVE  TypeInv'
<1>1. /\ log' = Append(log, Answers(me, answers)) /\ state' = state \cup delta
      /\ UNCHANGED <<calls, credential, decision, resumed, cancelled, asked, history, messages>>
      /\ pc' \in {"begin", "idle", "head"} /\ NoTurn
      /\ me' \in {me, marks.to} /\ (me' # me => marks.to # "none")
      /\ iter' \in {0, iter} /\ contents' \in {<<>>, contents \o <<Last(log), Answers(me, answers)>>}
      /\ (contents' # <<>> => pc' = "head")
      /\ (paused' = paused \/ paused' = (marks.long /\ ~marks.escalate))
  BY DEF EmitAnswers, Stop
<1>2. Quiet'
  BY <1>1, StopQuiet
<1>3. log' \in Seq(Entry) /\ \A k \in DOMAIN log' : log'[k].kind = "answers" => OwnAnswers(log[k].by, log[k].to)'
  BY <1>1, AnswersFacts, LogMore DEF TypeInv
<1>4. contents' \in Seq(Entry \cup {Again})
  <2> SUFFICES ASSUME contents' = contents \o <<Last(log), Answers(me, answers)>>, contents' # <<>>
               PROVE  contents' \in Seq(Entry \cup {Again})
    <3>1. <<>> \in Seq(Entry \cup {Again})
      OBVIOUS
    <3> QED
      BY <1>1, <3>1
  <2>1. contents \in Seq(Entry \cup {Again}) /\ Answers(me, answers) \in Entry \cup {Again}
    BY AnswersFacts DEF TypeInv, TypeOK
  <2>2. Last(log) \in Entry \cup {Again}
    <3>1. log \in Seq(Entry) /\ log # <<>>
      BY DEF TypeInv, TypeOK, TurnInv, EmitAnswers
    <3> QED
      BY <3>1, LastOf
  <2> QED
    BY <2>1, <2>2
<1>5. TypeOK'
  <2>1. state' \subseteq DOMAIN calls'
    BY <1>1, CallFacts DEF TypeInv, TypeOK
  <2>2. me' \in Agent
    BY <1>1 DEF TypeInv, TypeOK
  <2>3. paused' \in BOOLEAN
    BY <1>1 DEF TypeInv, TypeOK
  <2>4. iter' \in 0 .. MaxIterations
    BY <1>1, LimitAssumption DEF TypeInv, TypeOK
  <2> QED
    BY <1>1, <1>2, <1>3, <1>4, <2>1, <2>2, <2>3, <2>4, NoTurnTypes DEF TypeInv, TypeOK, history
<1>6. CountInv'
  BY <1>1 DEF TypeInv, CountInv, history
<1> QED
  BY <1>1, <1>2, <1>3, <1>5, <1>6, QuietStep

LEMMA KnownNames ==
    ASSUME TypeInv, NEW n, NEW names \in [1 .. n -> Registered[me] \cup Unknown]
    PROVE  names \in [1 .. n -> Named]
<1>1. Registered[me] \subseteq Named /\ Unknown \subseteq Named
  BY AgentAssumption DEF TypeInv, TypeOK, Tool, Unknown
<1> QED
  BY <1>1

LEMMA NextTypeInv == TypeInv /\ [Next]_vars => TypeInv'
<1> SUFFICES ASSUME TypeInv, [Next]_vars PROVE TypeInv'
  OBVIOUS
<1>1. CASE SomeMessage
  BY <1>1, MessageTypes
<1>2. CASE HookFails \/ Drop \/ OverCap \/ ModelFails \/ UnknownTool
  <2>1. Fail
    BY <1>2 DEF HookFails, Drop, OverCap, ModelFails, UnknownTool
  <2> QED
    BY <2>1, FailTypes
<1>3. CASE Cancel \/ StopCancelled \/ AskModel
  BY <1>3, ControlTypes
<1>4. CASE AnsweredByCallback \/ Exhausted \/ Respond \/ ExecuteCode
  BY <1>4, TextTypes
<1>5. CASE BeginRun
  BY <1>5, BeginTypes
<1>6. CASE ReplayCall \/ DispatchCall
  BY <1>6, DispatchTypes
<1>7. CASE ReplayDone
  BY <1>7, ReplayDoneTypes
<1>8. CASE EmitAnswers
  BY <1>8, EmitTypes
<1>9. ASSUME NEW n \in 1 .. MaxParallel, NEW names \in [1 .. n -> Registered[me] \cup Unknown], CallTools(names)
      PROVE  TypeInv'
  <2>1. names \in [1 .. n -> Named]
    BY KnownNames
  <2> QED
    BY <1>9, <2>1, CallToolsTypes
<1>10. CASE UNCHANGED vars
  <2>1. TypeOK'
    BY <1>10 DEF TypeInv, TypeOK, vars, session, context, turn, history
  <2>2. TurnInv'
    BY <1>10 DEF TypeInv, TurnInv, Quiet, InTurn, vars, session, context, turn, history
  <2>3. OwnersInv' /\ CountInv'
    BY <1>10 DEF TypeInv, OwnersInv, OwnAnswers, CountInv, vars, session, context, turn, history
  <2> QED
    BY <2>1, <2>2, <2>3 DEF TypeInv
<1> QED
  BY <1>1, <1>2, <1>3, <1>4, <1>5, <1>6, <1>7, <1>8, <1>9, <1>10 DEF Next

\* Every variable has its type.
THEOREM TypeCorrect == Spec => []TypeOK
<1>1. TypeInv => TypeOK
  BY DEF TypeInv
<1> QED
  BY <1>1, InitTypeInv, NextTypeInv, PTL DEF Spec

\* A call is answered by the agent that made it, whatever agents of the tree run
\* in an invocation and whichever of them has its tool.
THEOREM OwnersAnswer == Spec => []AnsweredByOwner
<1>1. TypeInv => AnsweredByOwner
  BY DEF TypeInv, OwnersInv, OwnAnswers, AnsweredByOwner
<1> QED
  BY <1>1, InitTypeInv, NextTypeInv, PTL DEF Spec

-----------------------------------------------------------------------------
(* A tool that needs a confirmation runs as often as it was approved.      *)

\* An approval of this message that is not used up yet.
Spare(c) ==
    pc # "idle" /\ c \in DOMAIN decision /\ decision[c] /\ c \notin DOMAIN answers

ApprovedInv ==
    \A c \in Call :
        (c \in DOMAIN calls => calls[c].tool \in Confirmed)
            => ran[c] + (IF Spare(c) THEN 1 ELSE 0) <= approvals[c]

LEMMA NothingRuns ==
    ASSUME TypeInv, ApprovedInv, UNCHANGED <<ran, approvals>>,
           \A c \in Call : Spare(c)' => Spare(c),
           \A c \in DOMAIN calls : c \in DOMAIN calls' /\ calls'[c].tool = calls[c].tool
    PROVE  ApprovedInv'
<1> SUFFICES ASSUME NEW c \in Call, c \in DOMAIN calls' => calls'[c].tool \in Confirmed
             PROVE  ran[c] + (IF Spare(c)' THEN 1 ELSE 0) <= approvals[c]
  BY DEF ApprovedInv
<1>1. c \in DOMAIN calls => calls[c].tool \in Confirmed
  OBVIOUS
<1>2. ran[c] \in Nat /\ approvals[c] \in Nat
  BY LimitAssumption DEF TypeInv, TypeOK
<1>3. ran[c] + (IF Spare(c) THEN 1 ELSE 0) <= approvals[c]
  BY <1>1 DEF ApprovedInv
<1>4. Spare(c)' => Spare(c)
  OBVIOUS
<1> HIDE DEF Spare
<1> QED
  BY <1>2, <1>3, <1>4

LEMMA NextApproved == TypeInv /\ ApprovedInv /\ [Next]_vars => ApprovedInv'
<1> SUFFICES ASSUME TypeInv, ApprovedInv, [Next]_vars PROVE ApprovedInv'
  OBVIOUS
<1>1. CASE SomeMessage
  <2>1. PICK dc \in SUBSET AskedFor("confirm"), cs \in SUBSET AskedFor("consent") :
          \E d \in [dc -> BOOLEAN], stored \in SUBSET cs : Message(d, cs, stored)
    BY <1>1 DEF SomeMessage
  <2>2. PICK d \in [dc -> BOOLEAN], stored \in SUBSET cs : Message(d, cs, stored)
    BY <2>1
  <2>3. /\ UNCHANGED <<calls, ran>> /\ decision' = d
        /\ approvals' = [c \in Call |-> IF c \in DOMAIN d /\ d[c] THEN approvals[c] + 1 ELSE approvals[c]]
        /\ pc = "idle"
    BY <2>2 DEF Message, AbsorbDecisions
  <2> SUFFICES ASSUME NEW c \in Call, c \in DOMAIN calls => calls[c].tool \in Confirmed
               PROVE  ran[c] + (IF Spare(c)' THEN 1 ELSE 0) <= approvals'[c]
    BY <2>3 DEF ApprovedInv
  <2>4. ran[c] \in Nat /\ approvals[c] \in Nat
    BY LimitAssumption DEF TypeInv, TypeOK
  <2>5. ran[c] <= approvals[c]
    BY <2>3, <2>4 DEF ApprovedInv, Spare
  <2>6. Spare(c)' => c \in DOMAIN d /\ d[c]
    BY <2>3 DEF Spare
  <2>7. approvals'[c] = IF c \in DOMAIN d /\ d[c] THEN approvals[c] + 1 ELSE approvals[c]
    BY <2>3
  <2> QED
    BY <2>4, <2>5, <2>6, <2>7
<1>2. CASE ReplayCall \/ DispatchCall
  <2> DEFINE h == Head(todo)
  <2>1. /\ h \in DOMAIN calls /\ h \notin DOMAIN answers /\ Dispatched(h)
        /\ UNCHANGED <<session, context, approvals, pc>> /\ pc # "idle"
    BY <1>2, NextCall
  <2> HIDE DEF h
  <2> SUFFICES ASSUME NEW c \in Call, c \in DOMAIN calls => calls[c].tool \in Confirmed
               PROVE  ran'[c] + (IF Spare(c)' THEN 1 ELSE 0) <= approvals[c]
    BY <2>1 DEF ApprovedInv, session
  <2>2. ran[c] \in Nat /\ approvals[c] \in Nat
    BY LimitAssumption DEF TypeInv, TypeOK
  <2>3. ran[c] + (IF Spare(c) THEN 1 ELSE 0) <= approvals[c]
    BY DEF ApprovedInv
  <2>4. ran'[c] = ran[c] \/ (c = h /\ Gate(h) = "open" /\ ran'[c] = ran[c] + 1)
    BY <2>1 DEF Dispatched
  <2>5. Spare(c)' => Spare(c) /\ c # h
    BY <2>1 DEF Spare, Dispatched, context
  <2>6. c = h /\ Gate(h) = "open" => Spare(c)
    BY <2>1, GateFacts DEF Spare
  <2> QED
    BY <2>2, <2>3, <2>4, <2>5, <2>6
<1>3. ASSUME NEW n \in 1 .. MaxParallel, NEW names \in [1 .. n -> Registered[me] \cup Unknown], CallTools(names)
      PROVE  ApprovedInv'
  <2>1. names \in [1 .. n -> Named]
    BY KnownNames
  <2>2. \A c \in DOMAIN calls : c \in DOMAIN calls' /\ calls'[c] = calls[c]
    <3> DEFINE new == Len(calls) + 1 .. Len(calls) + n
    <3>1. DOMAIN calls' = DOMAIN calls \cup new /\ \A c \in DOMAIN calls : calls'[c] = calls[c]
      BY <1>3, <2>1, NewCalls
    <3> HIDE DEF new
    <3> QED
      BY <3>1
  <2>3. UNCHANGED <<context, history, answers>> /\ pc = "ask"
    BY <1>3 DEF CallTools
  <2>4. \A c \in Call : Spare(c)' => Spare(c)
    BY <2>3 DEF Spare, context
  <2> QED
    BY <2>2, <2>3, <2>4, NothingRuns DEF history
<1>4. CASE HookFails \/ Drop \/ OverCap \/ ModelFails \/ UnknownTool \/ Cancel \/ StopCancelled \/ AskModel
           \/ AnsweredByCallback \/ Exhausted \/ Respond \/ ExecuteCode \/ BeginRun \/ ReplayDone \/ EmitAnswers
           \/ UNCHANGED vars
  <2>1. UNCHANGED <<calls, ran, approvals>>
    BY <1>4 DEF HookFails, Drop, OverCap, ModelFails, UnknownTool, Cancel, StopCancelled, AskModel,
           AnsweredByCallback, Exhausted, Respond, ExecuteCode, BeginRun, ReplayDone, EmitAnswers, Fail, vars,
           session, history
  <2>2. CASE HookFails \/ Drop \/ OverCap \/ ModelFails \/ UnknownTool \/ StopCancelled
             \/ AnsweredByCallback \/ Exhausted \/ Respond
    <3>1. pc' = "idle"
      BY <2>2 DEF HookFails, Drop, OverCap, ModelFails, UnknownTool, StopCancelled,
           AnsweredByCallback, Exhausted, Respond, Fail, Stop
    <3> QED
      BY <2>1, <3>1, NothingRuns DEF Spare
  <2>3. CASE Cancel \/ AskModel \/ ExecuteCode \/ BeginRun \/ UNCHANGED vars
    <3>1. UNCHANGED <<decision, answers>> /\ (pc' # "idle" => pc # "idle")
      BY <2>3 DEF Cancel, AskModel, ExecuteCode, BeginRun, vars, context, turn
    <3> QED
      BY <2>1, <3>1, NothingRuns DEF Spare
  <2>4. CASE ReplayDone
    <3>1. decision' = [c \in DOMAIN decision \ DOMAIN answers |-> decision[c]] /\ pc = "replay"
      BY <2>4 DEF ReplayDone, Consume
    <3> QED
      BY <2>1, <3>1, NothingRuns DEF Spare
  <2>5. CASE EmitAnswers
    <3>1. UNCHANGED decision /\ pc = "tools"
      BY <2>5 DEF EmitAnswers
    <3>2. DOMAIN answers \cap DOMAIN decision = {}
      BY <3>1 DEF TypeInv, TurnInv, InTurn
    <3> QED
      BY <2>1, <3>1, <3>2, NothingRuns DEF Spare
  <2> QED
    BY <1>4, <2>2, <2>3, <2>4, <2>5
<1> QED
  BY <1>1, <1>2, <1>3, <1>4 DEF Next

\* A tool that needs a confirmation runs at most once for each message that
\* approves its call: the replayed ids are consumed, and a new call has no
\* decision to be found.
THEOREM ToolsRunAsApproved == Spec => []RunsAsApproved
<1>1. Init => ApprovedInv
  BY DEF Init, ApprovedInv, Spare
<1>2. TypeInv /\ ApprovedInv => RunsAsApproved
  <2> SUFFICES ASSUME TypeInv, ApprovedInv, NEW c \in DOMAIN calls, calls[c].tool \in Confirmed
               PROVE  ran[c] <= approvals[c]
    BY DEF RunsAsApproved
  <2>1. c \in Call /\ ran[c] \in Nat /\ approvals[c] \in Nat
    BY CallFacts, LimitAssumption DEF TypeInv, TypeOK
  <2> QED
    BY <2>1 DEF ApprovedInv
<1> QED
  BY <1>1, <1>2, InitTypeInv, NextTypeInv, NextApproved, PTL DEF Spec

-----------------------------------------------------------------------------
(* No call is left open behind the agent's back.                           *)

\* A call without an answer is in the turn.
AnsweredInv ==
    DOMAIN calls \subseteq Answered \cup cut \cup (IF pc = "tools" THEN InTurn ELSE {})

\* The log only grows, and so do the calls that it answers.
LEMMA AnsweredGrows ==
    ASSUME NEW e, log \in Seq(Entry), log' = Append(log, e)
    PROVE  Answered \subseteq Answered' /\ (e.kind = "answers" => DOMAIN e.to \subseteq Answered')
<1>1. /\ DOMAIN log = 1 .. Len(log) /\ Len(log) \in Nat /\ DOMAIN log' = 1 .. Len(log) + 1
      /\ log'[Len(log) + 1] = e /\ \A k \in DOMAIN log : log'[k] = log[k] /\ k \in DOMAIN log'
  BY AppendProperties
<1>2. \A c : c \in Answered <=> \E k \in DOMAIN log : log[k].kind = "answers" /\ c \in DOMAIN log[k].to
  BY DEF Answered
<1>3. \A c : c \in Answered' <=> \E k \in DOMAIN log' : log'[k].kind = "answers" /\ c \in DOMAIN log'[k].to
  BY DEF Answered
<1>4. Answered \subseteq Answered'
  BY <1>1, <1>2, <1>3
<1>5. Len(log) + 1 \in DOMAIN log'
  BY <1>1
<1> QED
  BY <1>1, <1>3, <1>4, <1>5

LEMMA NextAnswered == TypeInv /\ AnsweredInv /\ [Next]_vars => AnsweredInv'
<1> SUFFICES ASSUME TypeInv, AnsweredInv, [Next]_vars PROVE AnsweredInv'
  OBVIOUS
<1> log \in Seq(Entry)
  BY DEF TypeInv, TypeOK
<1>1. CASE SomeMessage
  <2>1. \E d, cs : /\ log' = Append(log, UserSays(DOMAIN d \cup cs))
                   /\ UNCHANGED <<calls, cut>> /\ pc = "idle"
    BY <1>1 DEF SomeMessage, Message
  <2>2. Answered \subseteq Answered' /\ UNCHANGED <<calls, cut>> /\ pc = "idle"
    BY <2>1, AnsweredGrows
  <2> QED
    BY <2>2 DEF AnsweredInv
<1>2. CASE HookFails \/ Drop \/ OverCap \/ ModelFails \/ UnknownTool
  <2>1. Fail
    BY <1>2 DEF HookFails, Drop, OverCap, ModelFails, UnknownTool
  <2>2. UNCHANGED <<log, calls>> /\ cut' = cut \cup (IF pc = "tools" THEN InTurn ELSE {})
    BY <2>1 DEF Fail, session, InTurn
  <2> QED
    BY <2>2 DEF AnsweredInv, Answered
<1>3. CASE Cancel \/ StopCancelled \/ AskModel \/ BeginRun \/ UNCHANGED vars
  <2>1. UNCHANGED <<log, calls, cut>> /\ (pc = "tools" => pc' = "tools" /\ UNCHANGED <<todo, answers>>)
    BY <1>3 DEF Cancel, StopCancelled, AskModel, BeginRun, session, history, turn, vars
  <2>2. Answered' = Answered
    BY <2>1 DEF Answered
  <2> QED
    BY <2>1, <2>2 DEF AnsweredInv, InTurn
<1>4. CASE AnsweredByCallback \/ Exhausted \/ Respond \/ ExecuteCode
  <2>1. /\ UNCHANGED <<calls, cut>> /\ pc # "tools"
        /\ \/ log' = log \/ log' = Append(log, Says(me)) \/ log' = Append(Append(log, Says(me)), Says(me))
           \/ log' = log \o <<Says(me), Says(me)>>
    BY <1>4 DEF AnsweredByCallback, Exhausted, Respond, ExecuteCode, AfterAgent, history
  <2>2. Says(me) \in Entry
    BY EntryFacts DEF TypeInv, TypeOK
  <2>3. \A k \in DOMAIN log : k \in DOMAIN log' /\ log'[k] = log[k]
    <3>1. DOMAIN log = 1 .. Len(log) /\ Len(log) \in Nat
      OBVIOUS
    <3>2. CASE log' = Append(log, Says(me)) \/ log' = log
      BY <2>2, <3>1, <3>2
    <3>3. CASE log' = Append(Append(log, Says(me)), Says(me))
      <4> DEFINE one == Append(log, Says(me))
      <4>1. one \in Seq(Entry) /\ Len(one) = Len(log) + 1 /\ \A k \in 1 .. Len(log) : one[k] = log[k]
        BY <2>2
      <4> HIDE DEF one
      <4>2. log' = Append(one, Says(me))
        BY <3>3 DEF one
      <4>3. DOMAIN log' = 1 .. Len(one) + 1 /\ \A k \in 1 .. Len(one) : log'[k] = one[k]
        BY <2>2, <4>1, <4>2
      <4> QED
        BY <3>1, <4>1, <4>3
    <3>4. CASE log' = log \o <<Says(me), Says(me)>>
      BY <2>2, <3>1, <3>4
    <3> QED
      BY <2>1, <3>2, <3>3, <3>4
  <2>4. Answered \subseteq Answered'
    <3>1. \A c : c \in Answered <=> \E k \in DOMAIN log : log[k].kind = "answers" /\ c \in DOMAIN log[k].to
      BY DEF Answered
    <3>2. \A c : c \in Answered' <=> \E k \in DOMAIN log' : log'[k].kind = "answers" /\ c \in DOMAIN log'[k].to
      BY DEF Answered
    <3> QED
      BY <2>3, <3>1, <3>2
  <2> QED
    BY <2>1, <2>4 DEF AnsweredInv
<1>5. CASE ReplayCall \/ DispatchCall
  <2>1. UNCHANGED <<log, calls, cut, pc>> /\ InTurn' = InTurn
    BY <1>5, NextCall DEF session
  <2>2. Answered' = Answered
    BY <2>1 DEF Answered
  <2> QED
    BY <2>1, <2>2 DEF AnsweredInv
<1>6. CASE ReplayDone
  <2>1. log' = Append(log, Answers(me, answers)) /\ UNCHANGED <<calls, cut>> /\ pc = "replay"
    BY <1>6 DEF ReplayDone, history
  <2>2. Answered \subseteq Answered'
    BY <2>1, AnsweredGrows
  <2> QED
    BY <2>1, <2>2 DEF AnsweredInv
<1>7. CASE EmitAnswers
  <2>1. log' = Append(log, Answers(me, answers)) /\ UNCHANGED <<calls, cut>> /\ pc = "tools" /\ todo = <<>>
    BY <1>7 DEF EmitAnswers, history
  <2>2. Answers(me, answers).kind = "answers" /\ Answers(me, answers).to = answers
    BY AnswersFacts
  <2>3. Answered \subseteq Answered' /\ DOMAIN answers \subseteq Answered'
    BY <2>1, <2>2, AnsweredGrows
  <2>4. InTurn = DOMAIN answers
    <3>1. Range(<<>>) = {}
      BY DEF Range
    <3> QED
      BY <2>1, <3>1 DEF InTurn
  <2> QED
    BY <2>1, <2>3, <2>4 DEF AnsweredInv
<1>8. ASSUME NEW n \in 1 .. MaxParallel, NEW names \in [1 .. n -> Registered[me] \cup Unknown], CallTools(names)
      PROVE  AnsweredInv'
  <2>1. names \in [1 .. n -> Named]
    BY KnownNames
  <2> DEFINE new == Len(calls) + 1 .. Len(calls) + n
  <2>2. DOMAIN calls' = DOMAIN calls \cup new /\ Range(todo') = new /\ log' = Append(log, Asks(me, new))
    BY <1>8, <2>1, NewCalls
  <2> HIDE DEF new
  <2>3. pc = "ask" /\ pc' = "tools" /\ UNCHANGED cut
    BY <1>8 DEF CallTools, history
  <2>4. Answered \subseteq Answered'
    BY <2>2, AnsweredGrows
  <2> QED
    BY <2>2, <2>3, <2>4 DEF AnsweredInv, InTurn
<1> QED
  BY <1>1, <1>2, <1>3, <1>4, <1>5, <1>6, <1>7, <1>8 DEF Next

\* The model is never asked about a call without an answer: whatever ends a turn
\* leaves its calls answered, or cut by the failure that ended it.
THEOREM CallsAreAnswered == Spec => []AnsweredWhenAsked
<1>1. Init => AnsweredInv
  BY DEF Init, AnsweredInv
<1>2. AnsweredInv => AnsweredWhenAsked
  BY DEF AnsweredInv, AnsweredWhenAsked
<1> QED
  BY <1>1, <1>2, InitTypeInv, NextTypeInv, NextAnswered, PTL DEF Spec

-----------------------------------------------------------------------------
(* The request is the conversation.                                        *)

\* A turn adds its calls to the log before it adds them to the request.
RequestInv ==
    /\ pc \in {"replay", "head", "ask"} => Conversation(contents) = log
    /\ pc = "tools" => Append(Conversation(contents), Last(log)) = log

LEMMA ConversationAppend ==
    ASSUME NEW cs \in Seq(Entry \cup {Again}), NEW e \in Entry \cup {Again}
    PROVE  Conversation(Append(cs, e)) = IF e = Again THEN Conversation(cs) ELSE Append(Conversation(cs), e)
<1> DEFINE S == Entry \cup {Again}
           more == Append(cs, e)
           A == Range(more) \ {Again}
<1>1. cs \in Seq(S) /\ e \in S
  OBVIOUS
<1> HIDE DEF S
<1>2. more \in Seq(S) /\ Len(more) = Len(cs) + 1 /\ more[Len(cs) + 1] = e /\ Len(cs) \in Nat
      /\ \A i \in 1 .. Len(cs) : more[i] = cs[i]
  BY <1>1
<1>3. DOMAIN more = 1 .. Len(cs) + 1 /\ DOMAIN cs = 1 .. Len(cs)
  BY <1>1, <1>2
<1>4. Selected(more, A) = IF e \in A THEN Append(Selected(cs, A), e) ELSE Selected(cs, A)
  BY <1>1, SelectedAppend
<1>5. e \in Range(more)
  BY <1>2, <1>3 DEF Range
<1>6. \A i \in 1 .. Len(cs) : cs[i] \in A <=> cs[i] \in Range(cs) \ {Again}
  BY <1>2, <1>3 DEF Range
<1> HIDE DEF A
<1>7. Selected(cs, A) = Conversation(cs)
  BY <1>1, <1>6, SelectedSame DEF Conversation
<1>8. Conversation(more) = Selected(more, A) /\ (e \in A <=> e # Again)
  BY <1>5 DEF Conversation, A
<1> QED
  BY <1>4, <1>7, <1>8

LEMMA TwoMore ==
    ASSUME NEW S, NEW s \in Seq(S), NEW a \in S, NEW b \in S
    PROVE  s \o <<a, b>> = Append(Append(s, a), b)
OBVIOUS

LEMMA ConversationOfLog ==
    ASSUME NEW l \in Seq(Entry)
    PROVE  Conversation(l) = l /\ l \in Seq(Entry \cup {Again})
<1>1. \A i \in 1 .. Len(l) : l[i] \in Entry /\ l[i] # Again /\ l[i] \in Range(l)
  BY EntryFacts DEF Range
<1>2. Conversation(l) = l
  BY <1>1, SelectedAll DEF Conversation
<1> QED
  BY <1>2

LEMMA NextRequest == TypeInv /\ RequestInv /\ [Next]_vars => RequestInv'
<1> SUFFICES ASSUME TypeInv, RequestInv, [Next]_vars PROVE RequestInv'
  OBVIOUS
<1>0. log \in Seq(Entry) /\ contents \in Seq(Entry \cup {Again}) /\ me \in Agent
  BY DEF TypeInv, TypeOK
<1>1. CASE SomeMessage \/ HookFails \/ Drop \/ OverCap \/ ModelFails \/ UnknownTool \/ StopCancelled
           \/ AnsweredByCallback \/ Exhausted \/ Respond
  <2>1. pc' \in {"begin", "idle"}
    BY <1>1 DEF SomeMessage, Message, HookFails, Drop, OverCap, ModelFails, UnknownTool, StopCancelled,
           AnsweredByCallback, Exhausted, Respond, Fail, Stop
  <2> QED
    BY <2>1 DEF RequestInv
<1>2. CASE Cancel \/ AskModel \/ ReplayCall \/ DispatchCall \/ UNCHANGED vars
  <2>1. UNCHANGED <<log, contents>> /\ (pc' = pc \/ (pc = "head" /\ pc' = "ask"))
    BY <1>2 DEF Cancel, AskModel, ReplayCall, DispatchCall, vars, session
  <2> QED
    BY <2>1 DEF RequestInv
<1>3. CASE BeginRun
  <2>1. UNCHANGED log /\ pc' \in {"head", "replay"}
        /\ contents' = IF Last(log).kind = "user" THEN log ELSE Append(log, Again)
    BY <1>3 DEF BeginRun, session
  <2>2. Conversation(log) = log /\ log \in Seq(Entry \cup {Again})
    BY <1>0, ConversationOfLog
  <2>3. Conversation(Append(log, Again)) = log
    BY <2>2, ConversationAppend
  <2> QED
    BY <2>1, <2>2, <2>3 DEF RequestInv
<1>4. CASE ExecuteCode
  <2>1. pc = "ask" /\ pc' = "head" /\ log' = log \o <<Says(me), Says(me)>>
        /\ contents' = contents \o <<Says(me), Says(me)>>
    BY <1>4 DEF ExecuteCode
  <2>2. Says(me) \in Entry /\ Says(me) # Again
    BY <1>0, EntryFacts
  <2>3. log' = Append(Append(log, Says(me)), Says(me)) /\ contents' = Append(Append(contents, Says(me)), Says(me))
    BY <1>0, <2>1, <2>2, TwoMore
  <2>4. Conversation(Append(contents, Says(me))) = Append(log, Says(me))
    BY <1>0, <2>1, <2>2, ConversationAppend DEF RequestInv
  <2>5. Append(contents, Says(me)) \in Seq(Entry \cup {Again})
    BY <1>0, <2>2
  <2>6. Conversation(contents') = log'
    BY <2>2, <2>3, <2>4, <2>5, ConversationAppend
  <2> QED
    BY <2>1, <2>6 DEF RequestInv
<1>5. CASE ReplayDone
  <2>1. /\ pc = "replay" /\ log' = Append(log, Answers(me, answers)) /\ pc' \in {"idle", "head"}
        /\ (pc' = "head" => contents' = Append(contents, Answers(me, answers)))
    BY <1>5 DEF ReplayDone, Stop
  <2>2. Answers(me, answers) \in Entry /\ Answers(me, answers) # Again
    BY AnswersFacts, EntryFacts
  <2>3. Conversation(Append(contents, Answers(me, answers))) = log'
    BY <1>0, <2>1, <2>2, ConversationAppend DEF RequestInv
  <2> QED
    BY <2>1, <2>3 DEF RequestInv
<1>6. CASE EmitAnswers
  <2>1. /\ pc = "tools" /\ log' = Append(log, Answers(me, answers)) /\ pc' \in {"idle", "head", "begin"}
        /\ (pc' = "head" => contents' = contents \o <<Last(log), Answers(me, answers)>>)
    BY <1>6 DEF EmitAnswers, Stop
  <2>2. Answers(me, answers) \in Entry /\ Answers(me, answers) # Again
    BY AnswersFacts, EntryFacts
  <2>3. Last(log) \in Entry /\ Last(log) # Again
    <3>1. log # <<>>
      BY <2>1 DEF TypeInv, TurnInv
    <3> QED
      BY <1>0, <3>1, LastOf, EntryFacts
  <2> DEFINE with == Append(contents, Last(log))
  <2>4. with \in Seq(Entry \cup {Again}) /\ contents \o <<Last(log), Answers(me, answers)>> = Append(with, Answers(me, answers))
    BY <1>0, <2>2, <2>3
  <2>5. Conversation(with) = log
    BY <1>0, <2>1, <2>3, ConversationAppend DEF RequestInv
  <2> HIDE DEF with
  <2>6. Conversation(Append(with, Answers(me, answers))) = log'
    BY <2>1, <2>2, <2>4, <2>5, ConversationAppend
  <2> QED
    BY <2>1, <2>4, <2>6 DEF RequestInv
<1>7. ASSUME NEW n \in 1 .. MaxParallel, NEW names \in [1 .. n -> Registered[me] \cup Unknown], CallTools(names)
      PROVE  RequestInv'
  <2>1. names \in [1 .. n -> Named]
    BY KnownNames
  <2> DEFINE new == Len(calls) + 1 .. Len(calls) + n
  <2>2. log' = Append(log, Asks(me, new)) /\ new \subseteq Call
    BY <1>7, <2>1, NewCalls
  <2> HIDE DEF new
  <2>3. pc = "ask" /\ pc' = "tools" /\ UNCHANGED contents
    BY <1>7 DEF CallTools
  <2>4. Asks(me, new) \in Entry
    BY <1>0, <2>2, EntryFacts
  <2>5. Last(log') = Asks(me, new)
    BY <1>0, <2>2, <2>4 DEF Last
  <2> QED
    BY <2>2, <2>3, <2>5 DEF RequestInv
<1> QED
  BY <1>1, <1>2, <1>3, <1>4, <1>5, <1>6, <1>7 DEF Next

\* What the model is asked with is the session's conversation, in order, in
\* every run of every agent of the tree.
THEOREM RequestsAreConversations == Spec => []RequestIsConversation
<1>1. Init => RequestInv
  BY DEF Init, RequestInv
<1>2. RequestInv => RequestIsConversation
  BY DEF RequestInv, RequestIsConversation
<1> QED
  BY <1>1, <1>2, InitTypeInv, NextTypeInv, NextRequest, PTL DEF Spec

=============================================================================
