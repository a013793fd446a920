---------------------------- MODULE ClientProofs ----------------------------
(***************************************************************************)
(* Proofs about the clients of servers outside the program, for every set  *)
(* of calls.                                                               *)
(*                                                                         *)
(*  - McpClient, finitely many calls: types (no two calls get the same id, *)
(*    and the counter never passes the number of calls); a call returns    *)
(*    the answer to its own request; only calls that were given up spoil a *)
(*    line of the child's input.                                           *)
(*  - ModelClient: types, and what slots and calls know of the server's    *)
(*    entries; the model reads the prefix of the request; caching fails no *)
(*    call; an entry serves at most cache_intervals calls.                 *)
(*  - CredentialManager, any calls, callbacks, flows and tokens and every  *)
(*    fault: types; a failed redirect can be tried again; the stored       *)
(*    refresh token can be used.                                           *)
(***************************************************************************)
EXTENDS McpClient, ModelClient, CredentialManager, FiniteSetTheorems, SequenceTheorems, TLAPS

-----------------------------------------------------------------------------
(* The MCP client: type correctness.                                       *)

\* The calls that were given an id.
Numbered == {c \in Call : cpc[c] # "new"}

\* The counter is one more than the ids given, and a call that began has one.
Counted ==
    /\ nextId = Cardinality(Numbered) + 1
    /\ \A c \in Numbered : id[c] \in 1 .. nextId - 1

TypeInv == TypeOK /\ Counted

\* The calls with an id are finitely many, and one more may still get one.
LEMMA NumberedFinite ==
    ASSUME TypeInv
    PROVE  /\ IsFiniteSet(Numbered) /\ Cardinality(Numbered) \in Nat
           /\ Cardinality(Call) \in Nat /\ Cardinality(Numbered) <= Cardinality(Call)
           /\ nextId \in Nat
<1>1. Numbered \subseteq Call
  BY DEF Numbered
<1>2. IsFiniteSet(Numbered) /\ Cardinality(Numbered) <= Cardinality(Call)
  BY <1>1, CallAssumption, FS_Subset
<1>3. Cardinality(Numbered) \in Nat /\ Cardinality(Call) \in Nat
  BY <1>2, CallAssumption, FS_CardinalityType
<1> QED
  BY <1>2, <1>3 DEF TypeInv, Counted

\* A call that is new leaves room for its id.
LEMMA RoomForOne ==
    ASSUME TypeInv, NEW c \in Call, cpc[c] = "new"
    PROVE  /\ Cardinality(Numbered \cup {c}) = Cardinality(Numbered) + 1
           /\ nextId \in Ids
<1>1. c \notin Numbered /\ Numbered \cup {c} \subseteq Call
  BY DEF Numbered
<1>2. Cardinality(Numbered \cup {c}) = Cardinality(Numbered) + 1
  BY <1>1, NumberedFinite, FS_AddElement
<1>3. Cardinality(Numbered \cup {c}) <= Cardinality(Call)
  BY <1>1, CallAssumption, FS_Subset
<1> QED
  BY <1>2, <1>3, NumberedFinite DEF TypeInv, Counted, Ids

\* The ids that were given are ids.
LEMMA GivenAreIds ==
    ASSUME TypeInv
    PROVE  /\ 1 .. nextId - 1 \subseteq Ids
           /\ \A c \in Numbered : id[c] \in Ids
BY NumberedFinite DEF TypeInv, Counted, Ids

\* A step that begins no call keeps the count.
LEMMA NoNewCall ==
    ASSUME TypeInv, UNCHANGED <<nextId, id>>,
           \A c \in Call : cpc'[c] = "new" <=> cpc[c] = "new"
    PROVE  Counted'
<1>1. Numbered' = Numbered
  BY DEF Numbered
<1> QED
  BY <1>1 DEF TypeInv, Counted

\* The first step of a call, over either transport.
LEMMA AllocateCounted ==
    ASSUME TypeInv, NEW c \in Call, NEW to, to # "new", CallStep(c, "new", to), Allocate(c)
    PROVE  Counted' /\ nextId' \in 1 .. Cardinality(Call) + 1 /\ id' \in [Call -> Ids \cup {0}]
<1>1. Numbered' = Numbered \cup {c} /\ c \notin Numbered
  BY DEF Numbered, CallStep, TypeInv, TypeOK
<1>2. nextId' = nextId + 1 /\ id' = [id EXCEPT ![c] = nextId]
  BY DEF Allocate
<1>3. nextId' = Cardinality(Numbered') + 1
  BY <1>1, <1>2, RoomForOne DEF CallStep, TypeInv, Counted
<1>4. nextId \in Ids /\ Ids = 1 .. Cardinality(Call)
  BY RoomForOne DEF CallStep, Ids
<1>5. id' \in [Call -> Ids \cup {0}]
  BY <1>2, <1>4 DEF TypeInv, TypeOK
<1>6. \A d \in Numbered' : id'[d] \in 1 .. nextId' - 1
  BY <1>1, <1>2, NumberedFinite DEF TypeInv, TypeOK, Counted
<1> QED
  BY <1>2, <1>3, <1>4, <1>5, <1>6, NumberedFinite DEF Counted

\* Nobody has begun.
LEMMA InitTypeInv == Init => TypeInv
<1> SUFFICES ASSUME Init PROVE TypeInv
  OBVIOUS
<1>1. Numbered = {}
  BY DEF Init, Numbered
<1>2. Counted
  BY <1>1, FS_EmptySet DEF Init, Counted
<1>3. Cardinality(Call) \in Nat
  BY CallAssumption, FS_CardinalityType
<1>4. TypeOK
  BY <1>3, HandshakeAssumption DEF Init, StdioInit, HttpInit, ServerInit, TypeOK, Ids, Ended
<1> QED
  BY <1>2, <1>4 DEF TypeInv


\* Steps that begin no call keep the types.
LEMMA StdioTypeInv ==
    ASSUME TypeInv, NEW c \in Call,
           \/ TakeWriter(c) \/ WriteBody(c) \/ WriteNewline(c) \/ WriteFails(c)
           \/ TakeEarly(c) \/ TimeOut(c)
    PROVE  TypeInv'
<1>1. id[c] \in Ids \/ cpc[c] = "new"
  BY GivenAreIds DEF Numbered
<1>2. TypeOK'
  <2>1. CASE TakeWriter(c)
    BY <2>1 DEF TypeInv, TypeOK, TakeWriter, CallStep, httpVars, serverVars, Ids, Ended
  <2>2. CASE WriteBody(c)
    BY <2>2 DEF TypeInv, TypeOK, WriteBody, CallStep, httpVars, serverVars, Ids, Ended
  <2>3. CASE WriteNewline(c)
    <3>1. line' \in Seq(Call) /\ badLines' \subseteq Seq(Call) /\ got' \subseteq Ids
      BY <1>1, <2>3 DEF TypeInv, TypeOK, WriteNewline, CallStep
    <3>2. cpc' \in [Call -> {"new", "queued", "writing", "half", "waiting", "posted", "stream"} \cup Ended]
      BY <2>3 DEF TypeInv, TypeOK, WriteNewline, CallStep
    <3> QED
      BY <2>3, <3>1, <3>2 DEF TypeInv, TypeOK, WriteNewline, httpVars
  <2>4. CASE WriteFails(c)
    BY <2>4 DEF TypeInv, TypeOK, WriteFails, httpVars, serverVars, Ids, Ended
  <2>5. CASE TimeOut(c)
    BY <2>5 DEF TypeInv, TypeOK, TimeOut, CallStep, stdioVars, httpVars, serverVars, Ids, Ended
  <2>6. CASE TakeEarly(c)
    BY <2>6 DEF TypeInv, TypeOK, TakeEarly, CallStep, stdioVars, httpVars, serverVars, Ids, Ended
  <2> QED
    BY <2>1, <2>2, <2>3, <2>4, <2>5, <2>6
<1>3. UNCHANGED <<nextId, id>> /\ \A d \in Call : cpc'[d] = "new" <=> cpc[d] = "new"
  BY DEF TypeInv, TypeOK, TakeWriter, WriteBody, WriteNewline, WriteFails, TakeEarly, TimeOut, CallStep
<1> QED
  BY <1>2, <1>3, NoNewCall DEF TypeInv

\* The two ways a call begins.
LEMMA BeginTypeInv ==
    ASSUME TypeInv, NEW c \in Call, StdioCall(c) \/ HttpCall(c)
    PROVE  TypeInv'
<1>1. CASE StdioCall(c)
  <2>1. Counted' /\ nextId' \in 1 .. Cardinality(Call) + 1 /\ id' \in [Call -> Ids \cup {0}]
    BY <1>1, AllocateCounted DEF StdioCall
  <2>2. nextId \in Ids
    BY <1>1, RoomForOne DEF StdioCall, CallStep
  <2> QED
    BY <1>1, <2>1, <2>2
    DEF TypeInv, TypeOK, StdioCall, CallStep, httpVars, serverVars, Ids, Ended
<1>2. CASE HttpCall(c)
  <2>1. Counted' /\ nextId' \in 1 .. Cardinality(Call) + 1 /\ id' \in [Call -> Ids \cup {0}]
    BY <1>2, AllocateCounted DEF HttpCall
  <2> QED
    BY <1>2, <2>1
    DEF TypeInv, TypeOK, HttpCall, CallStep, stdioVars, serverVars, Ids, Ended
<1> QED
  BY <1>1, <1>2

\* The rest of an HTTP call, a call that is given up, and a list that is kept.
LEMMA HttpTypeInv ==
    ASSUME TypeInv, NEW c \in Call,
           HttpFails(c) \/ HttpHead(c) \/ SseAnswer(c) \/ Drop(c) \/ KeepList(c)
    PROVE  TypeInv'
<1>1. id[c] \in Ids \/ cpc[c] = "new"
  BY GivenAreIds DEF Numbered
<1>2. TypeOK'
  <2>1. CASE HttpFails(c)
    BY <2>1 DEF TypeInv, TypeOK, HttpFails, Captured, CallStep, stdioVars, serverVars, Ids, Ended
  <2>2. CASE HttpHead(c)
    BY <2>2, <1>1
    DEF TypeInv, TypeOK, HttpHead, Captured, CallStep, stdioVars, serverVars, Ids, Ended
  <2>3. CASE SseAnswer(c)
    BY <2>3, <1>1 DEF TypeInv, TypeOK, SseAnswer, CallStep, stdioVars, httpVars, Ids, Ended
  <2>4. CASE Drop(c)
    <3>1. line' \in Seq(Call)
      <4>1. line \in Seq(Call) /\ Append(line, c) \in Seq(Call)
        BY DEF TypeInv, TypeOK
      <4>2. line' = line \/ line' = Append(line, c)
        BY <2>4 DEF Drop
      <4> QED
        BY <4>1, <4>2
    <3>2. cpc' \in [Call -> {"new", "queued", "writing", "half", "waiting", "posted", "stream"} \cup Ended]
      BY <2>4 DEF TypeInv, TypeOK, Drop, Ended
    <3> QED
      BY <2>4, <3>1, <3>2 DEF TypeInv, TypeOK, Drop, httpVars, serverVars
  <2>5. CASE KeepList(c)
    BY <2>5 DEF TypeInv, TypeOK, KeepList, stdioVars, httpVars, serverVars, Ids, Ended
  <2> QED
    BY <2>1, <2>2, <2>3, <2>4, <2>5
<1>3. UNCHANGED <<nextId, id>> /\ \A d \in Call : cpc'[d] = "new" <=> cpc[d] = "new"
  BY DEF TypeInv, TypeOK, HttpFails, HttpHead, SseAnswer, Drop, KeepList, CallStep, Ended
<1> QED
  BY <1>2, <1>3, NoNewCall DEF TypeInv

\* What the server sends and what becomes of it.
LEMMA ServerTypeInv ==
    ASSUME TypeInv,
           \/ \E i \in 1 .. nextId - 1 : ReadAnswer(i) \/ ReadRequest(i)
           \/ Initialized \/ Notify \/ ServerStops \/ ServerRestarts
    PROVE  TypeInv'
<1>1. ASSUME NEW i \in 1 .. nextId - 1, ReadAnswer(i) \/ ReadRequest(i)
      PROVE  TypeInv'
  <2>1. i \in Ids
    BY GivenAreIds
  <2>2. TypeOK'
    <3>1. CASE ReadAnswer(i)
      BY <2>1, <3>1 DEF TypeInv, TypeOK, ReadAnswer, Reply, ReplyError, httpVars, Ended
    <3>2. CASE ReadRequest(i)
      <4>1. early' \subseteq Call /\ asked' \subseteq Ids /\ pending' \subseteq Ids
        BY <2>1, <3>2 DEF TypeInv, TypeOK, ReadRequest
      <4>2. /\ cpc' \in [Call -> {"new", "queued", "writing", "half", "waiting", "posted", "stream"} \cup Ended]
            /\ answer' \in [Call -> Ids \cup {0}]
        BY <3>2 DEF TypeInv, TypeOK, ReadRequest, Reply, Ended
      <4> QED
        BY <3>2, <4>1, <4>2 DEF TypeInv, TypeOK, ReadRequest, httpVars
    <3> QED
      BY <1>1, <3>1, <3>2
  <2>3. UNCHANGED <<nextId, id>> /\ \A d \in Call : cpc'[d] = "new" <=> cpc[d] = "new"
    BY <1>1 DEF TypeInv, TypeOK, ReadAnswer, ReadRequest, Reply, ReplyError
  <2> QED
    BY <2>2, <2>3, NoNewCall DEF TypeInv
<1>2. ASSUME Initialized \/ Notify \/ ServerStops \/ ServerRestarts
      PROVE  TypeInv'
  <2>1. TypeOK'
    <3> USE DEF TypeInv, TypeOK, stdioVars, httpVars, Ids
    <3>1. CASE Initialized
      BY <3>1 DEF Initialized, serverVars
    <3>2. CASE Notify
      BY <3>2 DEF Notify, Captured, serverVars
    <3>3. CASE ServerStops
      BY <3>3 DEF ServerStops
    <3>4. CASE ServerRestarts
      BY <3>4 DEF ServerRestarts
    <3> QED
      BY <1>2, <3>1, <3>2, <3>3, <3>4
  <2>2. UNCHANGED <<nextId, id, cpc>>
    BY <1>2 DEF Initialized, Notify, ServerStops, ServerRestarts
  <2> QED
    BY <2>1, <2>2, NoNewCall DEF TypeInv
<1> QED
  BY <1>1, <1>2

LEMMA NextTypeInv == TypeInv /\ [Next]_vars => TypeInv'
<1> SUFFICES ASSUME TypeInv, [Next]_vars PROVE TypeInv'
  OBVIOUS
<1>1. CASE UNCHANGED vars
  <2>1. TypeOK'
    BY <1>1 DEF TypeInv, TypeOK, vars, stdioVars, httpVars, serverVars, Ids
  <2>2. UNCHANGED <<nextId, id, cpc>>
    BY <1>1 DEF vars
  <2> QED
    BY <2>1, <2>2, NoNewCall DEF TypeInv
<1>2. CASE Next
  BY <1>2, StdioTypeInv, BeginTypeInv, HttpTypeInv, ServerTypeInv DEF Next, StdioStep, HttpStep
<1> QED
  BY <1>1, <1>2

\* Every state is type correct, the ids that calls were given are all different
\* from the next one, and there are never more ids than calls
\* (mcp/stdio.rs:124-131, mcp/http.rs:138-143).
THEOREM TypeCorrect == Spec => [](TypeOK /\ Counted)
<1>1. Spec => []TypeInv
  BY InitTypeInv, NextTypeInv, PTL DEF Spec
<1>2. TypeInv => TypeOK /\ Counted
  BY DEF TypeInv
<1> QED
  BY <1>1, <1>2, PTL

-----------------------------------------------------------------------------
(* The MCP client: answers.                                                *)

\* A step in which no call succeeds, and which leaves the ids that matter and
\* the answers alone.
LEMMA NoAnswerStep ==
    ASSUME TypeInv, AnswersAreOwn,
           UNCHANGED answer, asked \subseteq asked',
           \A c \in Call : cpc'[c] = "ok" => cpc[c] = "ok" /\ id'[c] = id[c]
    PROVE  AnswersAreOwn'
BY DEF AnswersAreOwn

\* One call returns the answer to its own id, or null when the server has used
\* that id.
LEMMA OwnAnswerStep ==
    ASSUME TypeInv, AnswersAreOwn, NEW c \in Call, CallStep(c, cpc[c], "ok"), UNCHANGED id,
           asked \subseteq asked',
           \/ answer' = [answer EXCEPT ![c] = id[c]]
           \/ answer' = [answer EXCEPT ![c] = 0] /\ id[c] \in asked'
    PROVE  AnswersAreOwn'
BY DEF TypeInv, TypeOK, CallStep, AnswersAreOwn

\* A null that is there before its call waits came under an id the server used.
EarlyAsked == \A c \in early : cpc[c] # "new" /\ id[c] \in asked

\* Only a request of the server's own puts a null there.
LEMMA EarlyStays ==
    ASSUME TypeInv, EarlyAsked, early' = early, asked \subseteq asked',
           \A c \in Call : cpc[c] # "new" => cpc'[c] # "new" /\ id'[c] = id[c]
    PROVE  EarlyAsked'
BY DEF TypeInv, TypeOK, EarlyAsked

LEMMA NextEarly == TypeInv /\ EarlyAsked /\ [Next]_vars => EarlyAsked'
<1> SUFFICES ASSUME TypeInv, EarlyAsked, [Next]_vars PROVE EarlyAsked'
  OBVIOUS
<1>1. ASSUME NEW c \in Call, StdioStep(c) PROVE EarlyAsked'
  <2>1. early' = early /\ asked' = asked
    BY <1>1 DEF StdioStep, StdioCall, TakeWriter, WriteBody, WriteNewline, WriteFails, TakeEarly, TimeOut,
                stdioVars, serverVars
  <2>2. \A d \in Call : cpc[d] # "new" => cpc'[d] # "new" /\ id'[d] = id[d]
    BY <1>1 DEF TypeInv, TypeOK, StdioStep, StdioCall, TakeWriter, WriteBody, WriteNewline, WriteFails,
                TakeEarly, TimeOut, CallStep, Allocate
  <2> QED
    BY <2>1, <2>2, EarlyStays
<1>2. ASSUME NEW c \in Call, HttpStep(c) \/ Drop(c) \/ KeepList(c) PROVE EarlyAsked'
  <2>1. early' = early /\ asked \subseteq asked'
    BY <1>2 DEF HttpStep, HttpCall, HttpFails, HttpHead, SseAnswer, Drop, KeepList, stdioVars, serverVars
  <2>2. \A d \in Call : cpc[d] # "new" => cpc'[d] # "new" /\ id'[d] = id[d]
    BY <1>2 DEF TypeInv, TypeOK, HttpStep, HttpCall, HttpFails, HttpHead, SseAnswer, Drop, KeepList, CallStep,
                Allocate
  <2> QED
    BY <2>1, <2>2, EarlyStays
<1>3. ASSUME NEW i \in 1 .. nextId - 1, ReadAnswer(i) PROVE EarlyAsked'
  <2>1. early' = early /\ asked' = asked /\ id' = id
    BY <1>3 DEF ReadAnswer
  <2>2. \A d \in Call : cpc[d] # "new" => cpc'[d] # "new"
    BY <1>3 DEF ReadAnswer, Reply, ReplyError
  <2> QED
    BY <2>1, <2>2, EarlyStays
<1>4. ASSUME NEW i \in 1 .. nextId - 1, ReadRequest(i) PROVE EarlyAsked'
  <2>1. /\ asked' = asked \cup {i} /\ id' = id
        /\ \A c \in early' : c \in early \/ (c \in Call /\ id[c] = i /\ cpc[c] \in Writing)
    BY <1>4 DEF ReadRequest
  <2>2. \A d \in Call : cpc[d] # "new" => cpc'[d] # "new"
    BY <1>4 DEF ReadRequest, Reply
  <2> QED
    BY <2>1, <2>2 DEF EarlyAsked, Writing, TypeInv, TypeOK
<1>5. CASE Initialized \/ Notify \/ ServerStops \/ ServerRestarts
  BY <1>5 DEF EarlyAsked, Initialized, Notify, ServerStops, ServerRestarts, stdioVars, serverVars
<1>6. CASE UNCHANGED vars
  BY <1>6 DEF EarlyAsked, vars, stdioVars, serverVars
<1> QED
  BY <1>1, <1>2, <1>3, <1>4, <1>5, <1>6 DEF Next

LEMMA NextAnswers == TypeInv /\ EarlyAsked /\ AnswersAreOwn /\ [Next]_vars => AnswersAreOwn'
<1> SUFFICES ASSUME TypeInv, EarlyAsked, AnswersAreOwn, [Next]_vars PROVE AnswersAreOwn'
  OBVIOUS
<1>1. ASSUME NEW c \in Call, StdioStep(c) PROVE AnswersAreOwn'
  <2>1. CASE TakeEarly(c)
    BY <2>1, OwnAnswerStep DEF TakeEarly, CallStep, serverVars, EarlyAsked
  <2>2. CASE ~TakeEarly(c)
    <3>1. UNCHANGED <<answer, asked>>
      BY <1>1, <2>2 DEF StdioStep, StdioCall, TakeWriter, WriteBody, WriteNewline, WriteFails, TimeOut,
                        serverVars
    <3>2. \A d \in Call : cpc'[d] = "ok" => cpc[d] = "ok" /\ id'[d] = id[d]
      BY <1>1, <2>2 DEF TypeInv, TypeOK, StdioStep, StdioCall, TakeWriter, WriteBody, WriteNewline,
                        WriteFails, TimeOut, CallStep, Allocate
    <3> QED
      BY <3>1, <3>2, NoAnswerStep
  <2> QED
    BY <2>1, <2>2
<1>2. ASSUME NEW c \in Call, HttpCall(c) \/ HttpFails(c) \/ Drop(c) \/ KeepList(c)
      PROVE  AnswersAreOwn'
  <2>1. UNCHANGED <<answer, asked>>
    BY <1>2 DEF HttpCall, HttpFails, Drop, KeepList, serverVars
  <2>2. \A d \in Call : cpc'[d] = "ok" => cpc[d] = "ok" /\ id'[d] = id[d]
    BY <1>2 DEF TypeInv, TypeOK, HttpCall, HttpFails, Drop, KeepList, CallStep, Allocate
  <2> QED
    BY <2>1, <2>2, NoAnswerStep
<1>3. ASSUME NEW c \in Call, HttpHead(c) PROVE AnswersAreOwn'
  <2>1. CASE CallStep(c, "posted", "ok") /\ answer' = [answer EXCEPT ![c] = id[c]]
    BY <1>3, <2>1, OwnAnswerStep DEF HttpHead, CallStep, serverVars
  <2>2. CASE CallStep(c, "posted", "stream") /\ UNCHANGED answer
    BY <1>3, <2>2, NoAnswerStep DEF HttpHead, CallStep, serverVars, TypeInv, TypeOK
  <2> QED
    BY <1>3, <2>1, <2>2 DEF HttpHead
<1>4. ASSUME NEW c \in Call, SseAnswer(c) PROVE AnswersAreOwn'
  BY <1>4, OwnAnswerStep DEF SseAnswer, CallStep
<1>5. ASSUME NEW i \in 1 .. nextId - 1, ReadAnswer(i) PROVE AnswersAreOwn'
  BY <1>5 DEF ReadAnswer, Reply, ReplyError, AnswersAreOwn, TypeInv, TypeOK
<1>6. ASSUME NEW i \in 1 .. nextId - 1, ReadRequest(i) PROVE AnswersAreOwn'
  BY <1>6 DEF ReadRequest, Reply, AnswersAreOwn, TypeInv, TypeOK
<1>7. CASE Initialized \/ Notify \/ ServerStops \/ ServerRestarts
  BY <1>7, NoAnswerStep DEF Initialized, Notify, ServerStops, ServerRestarts, serverVars
<1>8. CASE UNCHANGED vars
  BY <1>8, NoAnswerStep DEF vars, serverVars
<1> QED
  BY <1>1, <1>2, <1>3, <1>4, <1>5, <1>6, <1>7, <1>8 DEF Next, HttpStep

\* For any number of calls, a call that succeeds returns the answer to its own
\* request, or null when the server used its number (stdio.rs:100-111,
\* http.rs:186-211).  An id is given before a call can succeed and never again, and
\* a null in the oneshot of a call that does not wait yet came under a number the
\* server used (EarlyAsked).
THEOREM AnswersReachTheirCalls == Spec => []AnswersAreOwn
<1>1. Init => EarlyAsked /\ AnswersAreOwn
  BY DEF Init, StdioInit, EarlyAsked, AnswersAreOwn
<1>2. Spec => []TypeInv
  BY InitTypeInv, NextTypeInv, PTL DEF Spec
<1> QED
  BY <1>1, <1>2, NextEarly, NextAnswers, PTL DEF Spec

-----------------------------------------------------------------------------
(* The MCP client: lines.                                                  *)

\* Who writes holds the lock of the writer, and nobody else does.
WriterHolds == \A c \in Call : cpc[c] \in {"writing", "half"} <=> writer = c

\* As long as the child reads, the line that is not ended has, before the bytes
\* of a call that is half way through, only those of calls that were given up;
\* and a call half way through has its bytes at the end.
LineOfDropped ==
    server # "exited" =>
        /\ \A i \in 1 .. Len(line) :
              cpc[line[i]] = "dropped" \/ (i = Len(line) /\ cpc[line[i]] = "half")
        /\ \A c \in Call : cpc[c] = "half" => line # <<>> /\ line[Len(line)] = c

LineInv == WriterHolds /\ LineOfDropped /\ OnlyDroppedSpoil

\* Steps that leave the line and the lock alone, and in which no call begins or
\* ends to write and none that was given up goes on.
LEMMA LineUntouched ==
    ASSUME TypeInv, LineInv, UNCHANGED <<writer, line, badLines>>,
           server' # "exited" => server # "exited",
           \A c \in Call : cpc'[c] # cpc[c] =>
               {cpc[c], cpc'[c]} \cap {"writing", "half"} = {} /\ cpc[c] # "dropped"
    PROVE  LineInv'
<1>1. line \in Seq(Call) /\ badLines \subseteq Seq(Call)
  BY DEF TypeInv, TypeOK
<1>2. \A c \in Call : /\ cpc[c] = "dropped" => cpc'[c] = "dropped"
                      /\ cpc'[c] = "half" <=> cpc[c] = "half"
                      /\ cpc'[c] = "writing" <=> cpc[c] = "writing"
  OBVIOUS
<1>3. WriterHolds'
  BY <1>2 DEF LineInv, WriterHolds
<1>4. LineOfDropped'
  BY <1>1, <1>2 DEF LineInv, LineOfDropped
<1>5. OnlyDroppedSpoil'
  BY <1>1, <1>2 DEF LineInv, OnlyDroppedSpoil
<1> QED
  BY <1>3, <1>4, <1>5 DEF LineInv

\* The lock is taken by a call that writes next.
LEMMA TakeWriterLine ==
    ASSUME TypeInv, LineInv, NEW c \in Call, TakeWriter(c)
    PROVE  LineInv'
<1>1. /\ line \in Seq(Call) /\ badLines \subseteq Seq(Call)
      /\ cpc[c] = "queued" /\ cpc' = [cpc EXCEPT ![c] = "writing"]
      /\ writer = Nobody /\ writer' = c /\ UNCHANGED <<line, badLines, server>>
  BY DEF TypeInv, TypeOK, TakeWriter, CallStep, serverVars
<1>2. WriterHolds'
  BY <1>1, NobodyAssumption DEF TypeInv, TypeOK, LineInv, WriterHolds
<1>3. \A d \in Call : /\ cpc[d] = "dropped" => cpc'[d] = "dropped"
                      /\ cpc'[d] = "half" <=> cpc[d] = "half"
  BY <1>1 DEF TypeInv, TypeOK
<1>4. LineOfDropped'
  BY <1>1, <1>3 DEF LineInv, LineOfDropped
<1>5. OnlyDroppedSpoil'
  BY <1>1, <1>3 DEF LineInv, OnlyDroppedSpoil
<1> QED
  BY <1>2, <1>4, <1>5 DEF LineInv

\* Nobody is half way through while another holds the lock.
LEMMA AllDropped ==
    ASSUME TypeInv, LineInv, NEW c \in Call, cpc[c] = "writing", server # "exited"
    PROVE  \A i \in 1 .. Len(line) : cpc[line[i]] = "dropped"
<1>1. line \in Seq(Call)
  BY DEF TypeInv, TypeOK
<1>2. \A d \in Call : cpc[d] # "half"
  BY NobodyAssumption DEF LineInv, WriterHolds
<1> QED
  BY <1>1, <1>2 DEF LineInv, LineOfDropped

\* The bytes of a call go behind those of calls that were given up.
LEMMA WriteBodyLine ==
    ASSUME TypeInv, LineInv, NEW c \in Call, WriteBody(c)
    PROVE  LineInv'
<1>1. /\ line \in Seq(Call) /\ badLines \subseteq Seq(Call)
      /\ cpc[c] = "writing" /\ cpc' = [cpc EXCEPT ![c] = "half"]
      /\ server # "exited" /\ line' = Append(line, c)
      /\ UNCHANGED <<writer, badLines, server>>
  BY DEF TypeInv, TypeOK, WriteBody, CallStep, serverVars
<1>2. WriterHolds'
  BY <1>1 DEF TypeInv, TypeOK, LineInv, WriterHolds
<1>3. \A d \in Call : /\ cpc[d] = "dropped" => cpc'[d] = "dropped"
                      /\ cpc'[d] = "half" => d = c
  BY <1>1, NobodyAssumption DEF TypeInv, TypeOK, LineInv, WriterHolds
<1>4. \A i \in 1 .. Len(line) : cpc[line[i]] = "dropped" /\ line[i] \in Call
  BY <1>1, AllDropped
<1>5. /\ Len(line') = Len(line) + 1 /\ line'[Len(line')] = c
      /\ \A i \in 1 .. Len(line) : line'[i] = line[i]
  BY <1>1
<1>6. cpc'[c] = "half" /\ line' # <<>>
  <2>1. cpc'[c] = "half"
    BY <1>1 DEF TypeInv, TypeOK
  <2>2. line' # <<>>
    BY <1>1
  <2> QED
    BY <2>1, <2>2
<1>7. LineOfDropped'
  BY <1>3, <1>4, <1>5, <1>6 DEF LineOfDropped
<1>8. OnlyDroppedSpoil'
  BY <1>1, <1>3 DEF LineInv, OnlyDroppedSpoil
<1> QED
  BY <1>2, <1>7, <1>8 DEF LineInv

\* The line is ended: if it has more than this call's bytes, the others are
\* those of calls that were given up.
LEMMA WriteNewlineLine ==
    ASSUME TypeInv, LineInv, NEW c \in Call, WriteNewline(c)
    PROVE  LineInv'
<1>1. /\ line \in Seq(Call) /\ badLines \subseteq Seq(Call)
      /\ cpc[c] = "half" /\ cpc' = [cpc EXCEPT ![c] = "waiting"]
      /\ server # "exited" /\ line' = <<>> /\ writer' = Nobody /\ UNCHANGED server
      /\ badLines' = badLines \/ (line # <<c>> /\ badLines' = badLines \cup {line})
  BY DEF TypeInv, TypeOK, WriteNewline, CallStep
<1>2. WriterHolds'
  BY <1>1, NobodyAssumption DEF TypeInv, TypeOK, LineInv, WriterHolds
<1>3. \A d \in Call : cpc[d] = "dropped" => cpc'[d] = "dropped"
  BY <1>1 DEF TypeInv, TypeOK
<1>4. \A d \in Call : cpc'[d] # "half"
  BY <1>2, <1>1, NobodyAssumption DEF WriterHolds
<1>5. LineOfDropped'
  BY <1>1, <1>4 DEF LineOfDropped
<1>6. line # <<>> /\ line[Len(line)] = c
  BY <1>1 DEF LineInv, LineOfDropped
<1>7. line # <<c>> => Len(line) > 1
  <2>1. ASSUME Len(line) <= 1 PROVE line = <<c>>
    <3>1. Len(line) = 1 /\ line[1] = c
      <4>1. Len(line) \in Nat \ {0}
        BY <1>1, <1>6, EmptySeq
      <4>2. \A n \in Nat \ {0} : n <= 1 => n = 1
        OBVIOUS
      <4>3. Len(line) = 1
        BY <2>1, <4>1, <4>2
      <4> QED
        BY <1>6, <4>3
    <3>2. <<c>> \in Seq(Call) /\ Len(<<c>>) = 1 /\ <<c>>[1] = c
      OBVIOUS
    <3> QED
      BY <1>1, <3>1, <3>2, SeqEqual
  <2> QED
    BY <1>1, <2>1
<1>8. \A i \in 1 .. Len(line) - 1 : line[i] \in Call /\ cpc[line[i]] = "dropped"
  BY <1>1 DEF LineInv, LineOfDropped
<1>9. OnlyDroppedSpoil'
  BY <1>1, <1>3, <1>7, <1>8 DEF LineInv, OnlyDroppedSpoil
<1> QED
  BY <1>2, <1>5, <1>9 DEF LineInv

\* The child is gone: no line is ended any more.
LEMMA WriteFailsLine ==
    ASSUME TypeInv, LineInv, NEW c \in Call, WriteFails(c)
    PROVE  LineInv'
<1>1. /\ badLines \subseteq Seq(Call)
      /\ cpc[c] \in {"writing", "half"} /\ cpc' = [cpc EXCEPT ![c] = "error"]
      /\ server = "exited" /\ writer' = Nobody /\ UNCHANGED <<badLines, server>>
  BY DEF TypeInv, TypeOK, WriteFails, serverVars
<1>2. WriterHolds'
  BY <1>1, NobodyAssumption DEF TypeInv, TypeOK, LineInv, WriterHolds
<1>3. \A d \in Call : cpc[d] = "dropped" => cpc'[d] = "dropped"
  BY <1>1 DEF TypeInv, TypeOK
<1>4. LineOfDropped'
  BY <1>1 DEF LineOfDropped
<1>5. OnlyDroppedSpoil'
  BY <1>1, <1>3 DEF LineInv, OnlyDroppedSpoil
<1> QED
  BY <1>2, <1>4, <1>5 DEF LineInv

\* A call is given up: whatever it has written stays in the line.
LEMMA DropLine ==
    ASSUME TypeInv, LineInv, NEW c \in Call, Drop(c)
    PROVE  LineInv'
<1>1. /\ line \in Seq(Call) /\ badLines \subseteq Seq(Call)
      /\ cpc' = [cpc EXCEPT ![c] = "dropped"]
      /\ writer' = IF writer = c THEN Nobody ELSE writer
      /\ \/ line' = line
         \/ cpc[c] = "writing" /\ server # "exited" /\ line' = Append(line, c)
      /\ UNCHANGED <<badLines, server>>
  BY DEF TypeInv, TypeOK, Drop, serverVars
<1>2. WriterHolds'
  BY <1>1, NobodyAssumption DEF TypeInv, TypeOK, LineInv, WriterHolds
<1>3. \A d \in Call : /\ cpc[d] = "dropped" => cpc'[d] = "dropped"
                      /\ d # c => cpc'[d] = cpc[d]
  BY <1>1 DEF TypeInv, TypeOK
<1>4. cpc'[c] = "dropped"
  BY <1>1 DEF TypeInv, TypeOK
<1>5. line' = line => LineOfDropped'
  BY <1>1, <1>3, <1>4 DEF LineInv, LineOfDropped
<1>6. CASE cpc[c] = "writing" /\ server # "exited" /\ line' = Append(line, c)
  <2>1. \A i \in 1 .. Len(line) : cpc[line[i]] = "dropped" /\ line[i] \in Call
    BY <1>1, <1>6, AllDropped
  <2>2. \A d \in Call : cpc'[d] # "half"
    BY <1>3, <1>4, <1>6, NobodyAssumption DEF LineInv, WriterHolds
  <2>3. /\ Len(line') = Len(line) + 1 /\ line'[Len(line')] = c
        /\ \A i \in 1 .. Len(line) : line'[i] = line[i]
    BY <1>1, <1>6
  <2>4. LineOfDropped'
    BY <1>3, <1>4, <2>1, <2>2, <2>3 DEF LineOfDropped
  <2>5. OnlyDroppedSpoil'
    BY <1>1, <1>3 DEF LineInv, OnlyDroppedSpoil
  <2> QED
    BY <1>2, <2>4, <2>5 DEF LineInv
<1>7. OnlyDroppedSpoil'
  BY <1>1, <1>3 DEF LineInv, OnlyDroppedSpoil
<1> QED
  BY <1>1, <1>2, <1>5, <1>6, <1>7 DEF LineInv

LEMMA NextLine == TypeInv /\ LineInv /\ [Next]_vars => LineInv'
<1> SUFFICES ASSUME TypeInv, LineInv, [Next]_vars PROVE LineInv'
  OBVIOUS
<1>1. ASSUME NEW c \in Call, StdioStep(c) PROVE LineInv'
  <2>1. ASSUME StdioCall(c) \/ TakeEarly(c) \/ TimeOut(c) PROVE LineInv'
    BY <2>1, LineUntouched
    DEF TypeInv, TypeOK, StdioCall, TakeEarly, TimeOut, CallStep, stdioVars, serverVars
  <2> QED
    BY <1>1, <2>1, TakeWriterLine, WriteBodyLine, WriteNewlineLine, WriteFailsLine DEF StdioStep
<1>2. ASSUME NEW c \in Call, HttpStep(c) PROVE LineInv'
  <2>1. UNCHANGED <<writer, line, badLines, server>>
    BY <1>2 DEF HttpStep, HttpCall, HttpFails, HttpHead, SseAnswer, stdioVars, serverVars
  <2>2. PICK from \in {"new", "posted", "stream"}, to \in {"posted", "stream", "ok", "error"} :
            CallStep(c, from, to)
    BY <1>2 DEF HttpStep, HttpCall, HttpFails, HttpHead, SseAnswer, CallStep
  <2> QED
    BY <2>1, <2>2, LineUntouched DEF TypeInv, TypeOK, CallStep
<1>3. ASSUME NEW c \in Call, KeepList(c) PROVE LineInv'
  BY <1>3, LineUntouched DEF KeepList, stdioVars, serverVars
<1>4. ASSUME NEW i \in 1 .. nextId - 1, ReadAnswer(i) \/ ReadRequest(i) PROVE LineInv'
  <2>1. UNCHANGED <<writer, line, badLines, server>>
    BY <1>4 DEF ReadAnswer, ReadRequest
  <2>2. \A c \in Call : cpc'[c] # cpc[c] => cpc[c] = "waiting" /\ cpc'[c] \in {"ok", "error"}
    BY <1>4 DEF ReadAnswer, ReadRequest, Reply, ReplyError
  <2> QED
    BY <2>1, <2>2, LineUntouched
<1>5. CASE Initialized \/ Notify \/ ServerStops \/ ServerRestarts
  BY <1>5, LineUntouched
  DEF Initialized, Notify, ServerStops, ServerRestarts, stdioVars, serverVars
<1>6. CASE UNCHANGED vars
  BY <1>6, LineUntouched DEF vars, stdioVars, serverVars
<1> QED
  BY <1>1, <1>2, <1>3, <1>4, <1>5, <1>6, DropLine DEF Next

\* For any number of calls, an ended line of the child's input that is no request
\* has, before its last bytes, only those of calls that were given up: no two
\* calls write at the same time, and none begins behind one that still writes
\* (stdio.rs:161-170).  It needs the lock (WriterHolds) and what is in the line
\* that is not ended (LineOfDropped).
THEOREM LinesAreWhole == Spec => []OnlyDroppedSpoil
<1>1. Init => LineInv
  BY NobodyAssumption DEF Init, StdioInit, LineInv, WriterHolds, LineOfDropped, OnlyDroppedSpoil
<1>2. Spec => []TypeInv
  BY InitTypeInv, NextTypeInv, PTL DEF Spec
<1>3. Spec => []LineInv
  BY <1>1, <1>2, NextLine, PTL DEF Spec
<1>4. LineInv => OnlyDroppedSpoil
  BY DEF LineInv
<1> QED
  BY <1>3, <1>4, PTL

-----------------------------------------------------------------------------
(* The model's client: type correctness and what a call knows of entries.  *)

\* What may be sent.
Bodies ==
    {AnthropicBody(r) : r \in Requests} \cup {PlainBody(r) : r \in Requests}
        \cup {CachedBody(r, n) : r \in Requests, n \in Names}

CallRecord ==
    [pc : {"start", "create", "send", "ok", "failed"}, provider : {"gemini", "anthropic", "openai"},
     req : Requests, streams : BOOLEAN, attempt : 0 .. MaxRetries, answer : Outcomes \cup {None},
     took : Names \cup {None}, ref : Names \cup {None}, body : Bodies \cup {None},
     fell : BOOLEAN, meta : Names \cup {None}, read : Prefixes \cup {None}]

SlotRecord ==
    [kind : {"empty", "active", "disabled"}, name : Names \cup {None}, live : BOOLEAN,
     uses : 0 .. Max({1, Intervals})]

ModelTypes ==
    /\ call \in [Calls -> CallRecord] /\ caches \in [Prefixes -> SlotRecord]
    /\ held \in [Names -> Prefixes \cup {None}] /\ made \in 0 .. MaxNames

\* Of the first m entries, h still holds some: n was made for prefix p.
MadeFor(n, p, h, m) == n \in 1 .. m /\ h[n] \in {p, None}

\* What a call was given to send is its own prefix, in the body or in an entry;
\* and a call that gave up caching, or failed, did not refer to an entry.
CallOK(rec, h, m) ==
    /\ rec.pc = "start" => rec.answer = None
    /\ rec.pc \in {"start", "create"} => rec.took = None /\ ~ rec.fell /\ rec.meta = None
    /\ rec.ref # None => rec.pc = "create" /\ rec.answer = "ok" /\ MadeFor(rec.ref, Prefix(rec.req), h, m)
    /\ rec.pc = "create" /\ rec.answer = "ok" => rec.ref # None
    /\ rec.pc \in {"send", "ok", "failed"} =>
        /\ rec.body \in Bodies
        /\ rec.body.ref = None => rec.body.prefix = Prefix(rec.req)
        /\ rec.body.ref # None => ~ rec.fell /\ MadeFor(rec.body.ref, Prefix(rec.req), h, m)
    /\ rec.meta # None => rec.pc = "ok" /\ rec.body.ref = rec.meta
    /\ rec.read # None => rec.read = Prefix(rec.req)
    /\ rec.pc = "failed" /\ ClientError(rec.answer) => rec.body.ref = None

\* The slot of a prefix names an entry made for it.
SlotOK(p, slot, h, m) == slot.kind = "active" => MadeFor(slot.name, p, h, m)

EntriesOK ==
    /\ \A c \in Calls : CallOK(call[c], held, made)
    /\ \A p \in Prefixes : SlotOK(p, caches[p], held, made)

LEMMA MaxIntervals ==
    /\ Max({1, Intervals}) \in Nat /\ 1 <= Max({1, Intervals}) /\ Intervals <= Max({1, Intervals})
    /\ Max({1, Intervals}) \in {1, Intervals}
<1>1. Intervals \in Nat
  BY ClientAssumption
<1>2. \E x \in {1, Intervals} : \A y \in {1, Intervals} : x >= y
  <2>1. CASE Intervals >= 1
    BY <1>1, <2>1
  <2>2. CASE 1 >= Intervals
    BY <1>1, <2>2
  <2> QED
    BY <1>1, <2>1, <2>2
<1>3. Max({1, Intervals}) \in {1, Intervals} /\ \A y \in {1, Intervals} : Max({1, Intervals}) >= y
  BY <1>2 DEF Max
<1> QED
  BY <1>1, <1>3

\* The parts of a body.
LEMMA BodyFacts ==
    ASSUME NEW r \in Requests
    PROVE  /\ AnthropicBody(r) \in Bodies /\ AnthropicBody(r).ref = None /\ AnthropicBody(r).prefix = Prefix(r)
           /\ PlainBody(r) \in Bodies /\ PlainBody(r).ref = None /\ PlainBody(r).prefix = Prefix(r)
           /\ \A n \in Names : CachedBody(r, n) \in Bodies /\ CachedBody(r, n).ref = n
           /\ Prefix(r) \in Prefixes
<1>1. AnthropicBody(r) \in Bodies /\ PlainBody(r) \in Bodies /\ Prefix(r) \in Prefixes
  BY DEF Bodies, Prefixes
<1>2. \A n \in Names : CachedBody(r, n) \in Bodies
  BY DEF Bodies
<1>3. AnthropicBody(r).ref = None /\ AnthropicBody(r).prefix = Prefix(r)
  BY DEF AnthropicBody
<1>4. PlainBody(r).ref = None /\ PlainBody(r).prefix = Prefix(r)
  BY DEF PlainBody
<1>5. \A n \in Names : CachedBody(r, n).ref = n
  BY DEF CachedBody, PlainBody
<1> QED
  BY <1>1, <1>2, <1>3, <1>4, <1>5

LEMMA BodyRef == \A b \in Bodies : b.ref \in Names \cup {None}
<1> SUFFICES ASSUME NEW b \in Bodies PROVE b.ref \in Names \cup {None}
  OBVIOUS
<1>1. CASE \E r \in Requests : b = AnthropicBody(r) \/ b = PlainBody(r)
  BY <1>1, BodyFacts
<1>2. CASE \E r \in Requests, n \in Names : b = CachedBody(r, n)
  BY <1>2, BodyFacts
<1> QED
  BY <1>1, <1>2 DEF Bodies

\* A call turns to sending.
LEMMA SendsFacts ==
    ASSUME NEW rec \in CallRecord, NEW b \in Bodies
    PROVE  LET r == Sends(rec, b)
           IN  /\ r \in CallRecord /\ r.pc = "send" /\ r.answer = None /\ r.body = b
               /\ r.req = rec.req /\ r.took = rec.took /\ r.ref = rec.ref /\ r.fell = rec.fell
               /\ r.meta = rec.meta /\ r.read = rec.read
<1>1. 0 \in 0 .. MaxRetries
  BY ClientAssumption
<1> QED
  BY <1>1 DEF Sends, CallRecord

\* A call is over.
LEMMA ConcludedFacts ==
    ASSUME NEW rec \in CallRecord, rec.body \in Bodies, NEW o \in Outcomes
    PROVE  LET r == Concluded(rec, o)
           IN  /\ r \in CallRecord /\ r.pc = (IF o = "ok" THEN "ok" ELSE "failed") /\ r.answer = o
               /\ r.body = rec.body /\ r.req = rec.req /\ r.took = rec.took /\ r.ref = rec.ref
               /\ r.fell = rec.fell /\ r.read = rec.read /\ r.meta \in {None, rec.body.ref}
               /\ r.meta # None => o = "ok"
<1>1. 0 \in 0 .. MaxRetries
  BY ClientAssumption
<1>2. rec.body.ref \in Names \cup {None}
  BY BodyRef
<1> DEFINE to == IF o = "ok" THEN "ok" ELSE "failed"
           entry == IF o = "ok" /\ ~ rec.streams THEN rec.body.ref ELSE None
<1>3. to \in {"ok", "failed"} /\ entry \in Names \cup {None} /\ entry \in {None, rec.body.ref}
      /\ (entry # None => o = "ok")
  BY <1>2
<1>4. Concluded(rec, o) = [rec EXCEPT !.pc = to, !.attempt = 0, !.answer = o, !.meta = entry]
  BY DEF Concluded
<1> HIDE DEF to, entry
<1>5. Concluded(rec, o) \in CallRecord
  BY <1>1, <1>3, <1>4 DEF CallRecord
<1>6. LET r == Concluded(rec, o)
      IN  /\ r.pc = to /\ r.answer = o /\ r.body = rec.body /\ r.req = rec.req /\ r.took = rec.took
          /\ r.ref = rec.ref /\ r.fell = rec.fell /\ r.read = rec.read /\ r.meta = entry
  BY <1>4 DEF CallRecord
<1> QED
  BY <1>3, <1>5, <1>6 DEF to

\* Only the end of an entry makes less of what a call or a slot knows.
LEMMA EntriesGo ==
    ASSUME NEW h, NEW m \in Nat, NEW h2, NEW m2 \in Nat, m <= m2,
           \A n \in 1 .. m : h2[n] \in {h[n], None}
    PROVE  /\ \A rec : CallOK(rec, h, m) => CallOK(rec, h2, m2)
           /\ \A p, slot : SlotOK(p, slot, h, m) => SlotOK(p, slot, h2, m2)
<1>1. \A n, p : MadeFor(n, p, h, m) => MadeFor(n, p, h2, m2)
  BY DEF MadeFor
<1>2. ASSUME NEW rec, CallOK(rec, h, m) PROVE CallOK(rec, h2, m2)
  BY <1>1, <1>2 DEF CallOK
<1> QED
  BY <1>1, <1>2 DEF SlotOK

\* An answer to a call: it tries again, creates or gives up its entry, or is over.
LEMMA AnsweredFacts ==
    ASSUME NEW rec \in CallRecord, NEW o \in Outcomes, NEW h, NEW m, CallOK(rec, h, m),
           rec.pc \in {"create", "send"}, rec.answer = None
    PROVE  LET r == Answered(rec, o)
           IN  /\ r \in CallRecord /\ r.took = rec.took /\ r.ref = None /\ r.req = rec.req
               /\ r.body = rec.body /\ r.read = rec.read
               /\ rec.pc = "create" => r.pc = "create" /\ (r.answer = "ok" <=> o = "ok")
               /\ ~ (rec.pc = "create" /\ o = "ok") => CallOK(r, h, m)
<1> DEFINE r == Answered(rec, o)
<1>0. rec.ref = None
  BY NoneAssumption DEF CallOK, Outcomes
<1>1. CASE Retryable(o) /\ rec.attempt < MaxRetries
  <2>1. r = [rec EXCEPT !.attempt = rec.attempt + 1]
    BY <1>1 DEF Answered
  <2>2. rec.attempt + 1 \in 0 .. MaxRetries
    BY <1>1, ClientAssumption DEF CallRecord
  <2>3. r \in CallRecord
    BY <2>1, <2>2 DEF CallRecord
  <2>4. /\ r.pc = rec.pc /\ r.answer = rec.answer /\ r.took = rec.took /\ r.ref = rec.ref /\ r.body = rec.body
        /\ r.req = rec.req /\ r.fell = rec.fell /\ r.meta = rec.meta /\ r.read = rec.read
    BY <2>1 DEF CallRecord
  <2> HIDE DEF r
  <2>5. CallOK(r, h, m)
    BY <2>4 DEF CallOK
  <2>6. o # "ok" /\ None # "ok"
    BY <1>1, NoneAssumption DEF Retryable, Outcomes
  <2> QED
    BY <1>0, <2>3, <2>4, <2>5, <2>6 DEF r
<1>2. CASE ~ (Retryable(o) /\ rec.attempt < MaxRetries) /\ (rec.pc = "create" \/ Rejected(rec, o))
  <2>1. r = [rec EXCEPT !.attempt = 0, !.answer = o]
    BY <1>2 DEF Answered
  <2>2. r \in CallRecord
    <3>1. 0 \in 0 .. MaxRetries
      BY ClientAssumption
    <3> DEFINE again == [rec EXCEPT !.attempt = 0]
    <3>2. again \in CallRecord
      BY <3>1 DEF CallRecord
    <3>3. r = [again EXCEPT !.answer = o]
      BY <2>1
    <3> HIDE DEF again
    <3> QED
      BY <3>2, <3>3 DEF CallRecord
  <2>3. /\ r.pc = rec.pc /\ r.answer = o /\ r.took = rec.took /\ r.ref = rec.ref /\ r.body = rec.body
        /\ r.req = rec.req /\ r.fell = rec.fell /\ r.meta = rec.meta /\ r.read = rec.read
    BY <2>1 DEF CallRecord
  <2> HIDE DEF r
  <2>4. ~ (rec.pc = "create" /\ o = "ok") => CallOK(r, h, m)
    BY <1>0, <2>3 DEF CallOK
  <2> QED
    BY <1>0, <2>2, <2>3, <2>4 DEF r
<1>3. CASE ~ (Retryable(o) /\ rec.attempt < MaxRetries) /\ rec.pc = "send" /\ ~ Rejected(rec, o)
  <2>1. r = Concluded(rec, o)
    BY <1>3 DEF Answered
  <2>2. rec.body \in Bodies
    BY <1>3 DEF CallOK
  <2> HIDE DEF r
  <2>3. /\ r \in CallRecord /\ r.pc = (IF o = "ok" THEN "ok" ELSE "failed") /\ r.answer = o
        /\ r.body = rec.body /\ r.req = rec.req /\ r.took = rec.took /\ r.ref = rec.ref
        /\ r.fell = rec.fell /\ r.read = rec.read /\ r.meta \in {None, rec.body.ref}
        /\ r.meta # None => o = "ok"
    BY <2>1, <2>2, ConcludedFacts
  <2>4. r.pc = "failed" /\ ClientError(r.answer) => r.body.ref = None
    BY <1>3, <2>3 DEF Rejected
  <2>5. CallOK(r, h, m)
    BY <1>0, <1>3, <2>3, <2>4 DEF CallOK
  <2> QED
    BY <1>0, <1>3, <2>3, <2>5 DEF r
<1> QED
  BY <1>1, <1>2, <1>3

\* What an answer to the creation of an entry leaves alone.
LEMMA AnsweredKeeps ==
    ASSUME NEW rec \in CallRecord, NEW o \in Outcomes, rec.pc = "create"
    PROVE  LET r == Answered(rec, o) IN r.took = rec.took /\ r.fell = rec.fell /\ r.meta = rec.meta /\ r.read = rec.read
<1>1. CASE Retryable(o) /\ rec.attempt < MaxRetries
  BY <1>1 DEF Answered, CallRecord
<1>2. CASE ~ (Retryable(o) /\ rec.attempt < MaxRetries)
  BY <1>2 DEF Answered, CallRecord
<1> QED
  BY <1>1, <1>2

LEMMA ModelInitTypes == ModelInit => ModelTypes /\ EntriesOK
<1> SUFFICES ASSUME ModelInit PROVE ModelTypes /\ EntriesOK
  OBVIOUS
<1>1. 0 \in 0 .. MaxRetries /\ 0 \in 0 .. MaxNames /\ 0 \in 0 .. Max({1, Intervals})
  BY ClientAssumption, MaxIntervals
<1>2. ASSUME NEW c \in Calls PROVE call[c] \in CallRecord /\ CallOK(call[c], held, made)
  <2>1. PICK p \in {"gemini", "anthropic", "openai"}, r \in Requests, s \in BOOLEAN :
            call[c] = [pc |-> "start", provider |-> p, req |-> r, streams |-> s, attempt |-> 0,
                       answer |-> None, took |-> None, ref |-> None, body |-> None, fell |-> FALSE,
                       meta |-> None, read |-> None]
    BY DEF ModelInit
  <2> QED
    BY <1>1, <2>1 DEF CallRecord, CallOK
<1>3. call \in [Calls -> CallRecord]
  BY <1>2 DEF ModelInit
<1>4. Empty \in SlotRecord /\ \A p \in Prefixes : SlotOK(p, Empty, held, made)
  BY <1>1 DEF Empty, SlotRecord, SlotOK
<1> QED
  BY <1>1, <1>2, <1>3, <1>4 DEF ModelInit, ModelTypes, EntriesOK

\* A step of one call, on the entries as they are or with one more.
LEMMA CallStepOK ==
    ASSUME ModelTypes, EntriesOK, NEW c \in Calls, NEW rec \in CallRecord, call' = [call EXCEPT ![c] = rec],
           caches' \in [Prefixes -> SlotRecord], made' \in 0 .. MaxNames, made <= made',
           held' \in [Names -> Prefixes \cup {None}], \A n \in 1 .. made : held'[n] = held[n],
           CallOK(rec, held', made'),
           \A p \in Prefixes : SlotOK(p, caches'[p], held', made') \/ caches'[p] = caches[p]
    PROVE  ModelTypes' /\ EntriesOK'
<1>1. ModelTypes'
  BY DEF ModelTypes
<1>2. made \in Nat /\ made' \in Nat /\ \A n \in 1 .. made : held'[n] \in {held[n], None}
  BY ClientAssumption DEF ModelTypes
<1>3. /\ \A r : CallOK(r, held, made) => CallOK(r, held', made')
      /\ \A p, slot : SlotOK(p, slot, held, made) => SlotOK(p, slot, held', made')
  BY <1>2, EntriesGo
<1>4. \A d \in Calls : CallOK(call'[d], held', made')
  BY <1>3 DEF EntriesOK, ModelTypes
<1>5. \A p \in Prefixes : SlotOK(p, caches'[p], held', made')
  BY <1>3 DEF EntriesOK
<1> QED
  BY <1>1, <1>4, <1>5 DEF EntriesOK

\* The lookup and what follows the creation of an entry.
LEMMA CacheStepOK ==
    ASSUME ModelTypes, EntriesOK, NEW c \in Calls,
           Inline(c) \/ Hit(c) \/ Miss(c) \/ Created(c) \/ CreateFailed(c) \/ FallBack(c)
    PROVE  ModelTypes' /\ EntriesOK'
<1> DEFINE rec == call[c]
           p == Prefix(call[c].req)
<1>1. rec \in CallRecord /\ rec.req \in Requests /\ CallOK(rec, held, made)
  BY DEF ModelTypes, EntriesOK, CallRecord
<1>2. p \in Prefixes /\ caches[p] \in SlotRecord /\ SlotOK(p, caches[p], held, made)
  BY <1>1, BodyFacts DEF ModelTypes, EntriesOK
<1>3. PlainBody(rec.req) \in Bodies /\ InlineBody(c) \in Bodies
  BY <1>1, BodyFacts DEF InlineBody
<1>4. /\ PlainBody(rec.req).ref = None /\ PlainBody(rec.req).prefix = p
      /\ InlineBody(c).ref = None /\ InlineBody(c).prefix = p
  BY <1>1, BodyFacts DEF InlineBody
<1>5. made \in Nat /\ made <= made /\ made \in 0 .. MaxNames
  BY ClientAssumption DEF ModelTypes
<1> HIDE DEF p
<1>6. CASE Inline(c)
  <2> DEFINE r == Sends(rec, InlineBody(c))
  <2>1. /\ r \in CallRecord /\ r.pc = "send" /\ r.answer = None /\ r.body = InlineBody(c)
        /\ r.req = rec.req /\ r.took = rec.took /\ r.ref = rec.ref /\ r.fell = rec.fell
        /\ r.meta = rec.meta /\ r.read = rec.read
    BY <1>1, <1>3, SendsFacts
  <2>2. call' = [call EXCEPT ![c] = r] /\ rec.pc = "start"
    BY <1>6 DEF Inline
  <2> HIDE DEF r
  <2>3. CallOK(r, held, made)
    BY <1>1, <1>3, <1>4, <2>1, <2>2 DEF CallOK, p
  <2> QED
    BY <1>5, <1>6, <2>1, <2>2, <2>3, CallStepOK DEF Inline, ModelTypes
<1>7. CASE Hit(c)
  <2> DEFINE n == caches[p].name
             s == Sends(rec, CachedBody(rec.req, n))
             r == [s EXCEPT !.took = n]
  <2>1. n \in Names /\ MadeFor(n, p, held, made)
    BY <1>2, <1>5, <1>7, ClientAssumption DEF Hit, Usable, Slot, Fingerprint, SlotOK, MadeFor, Names, p
  <2>2. CachedBody(rec.req, n) \in Bodies /\ CachedBody(rec.req, n).ref = n /\ n # None
    BY <1>1, <2>1, BodyFacts, ClientAssumption DEF Names
  <2> HIDE DEF n
  <2>3. /\ s \in CallRecord /\ s.pc = "send" /\ s.answer = None /\ s.body = CachedBody(rec.req, n)
        /\ s.req = rec.req /\ s.ref = rec.ref /\ s.fell = rec.fell
        /\ s.meta = rec.meta /\ s.read = rec.read
    BY <1>1, <2>2, SendsFacts
  <2>4. call' = [call EXCEPT ![c] = r] /\ rec.pc = "start"
    BY <1>7 DEF Hit, Slot, Fingerprint, n, p
  <2> HIDE DEF s
  <2>5. /\ r \in CallRecord /\ r.pc = "send" /\ r.answer = None /\ r.body = CachedBody(rec.req, n)
        /\ r.req = rec.req /\ r.took = n /\ r.ref = rec.ref /\ r.fell = rec.fell
        /\ r.meta = rec.meta /\ r.read = rec.read
    BY <2>1, <2>3 DEF CallRecord
  <2> HIDE DEF r
  <2>6. CallOK(r, held, made)
    BY <1>1, <2>1, <2>2, <2>4, <2>5 DEF CallOK, p
  <2>7. caches' \in [Prefixes -> SlotRecord] /\ \A q \in Prefixes : SlotOK(q, caches'[q], held, made)
    <3>1. caches[p].uses + 1 \in 0 .. Max({1, Intervals})
      BY <1>2, <1>7, MaxIntervals, ClientAssumption DEF Hit, Usable, Slot, Fingerprint, SlotRecord, p
    <3>2. caches' = [caches EXCEPT ![p] = [caches[p] EXCEPT !.uses = caches[p].uses + 1]]
      BY <1>7 DEF Hit, Fingerprint, p
    <3>3. /\ [caches[p] EXCEPT !.uses = caches[p].uses + 1] \in SlotRecord
          /\ [caches[p] EXCEPT !.uses = caches[p].uses + 1].kind = caches[p].kind
          /\ [caches[p] EXCEPT !.uses = caches[p].uses + 1].name = caches[p].name
      BY <1>2, <3>1 DEF SlotRecord
    <3> QED
      BY <1>2, <3>2, <3>3 DEF ModelTypes, EntriesOK, SlotOK
  <2> QED
    BY <1>5, <1>7, <2>4, <2>5, <2>6, <2>7, CallStepOK DEF Hit, ModelTypes
<1>8. CASE Miss(c)
  <2> DEFINE r == [rec EXCEPT !.pc = "create"]
  <2>1. /\ r \in CallRecord /\ r.pc = "create" /\ r.answer = rec.answer /\ r.body = rec.body
        /\ r.req = rec.req /\ r.took = rec.took /\ r.ref = rec.ref /\ r.fell = rec.fell
        /\ r.meta = rec.meta /\ r.read = rec.read
    BY <1>1 DEF CallRecord
  <2>2. call' = [call EXCEPT ![c] = r] /\ rec.pc = "start"
    BY <1>8 DEF Miss
  <2> HIDE DEF r
  <2>3. None # "ok"
    BY NoneAssumption DEF Outcomes
  <2>4. CallOK(r, held, made)
    BY <1>1, <2>1, <2>2, <2>3 DEF CallOK
  <2> QED
    BY <1>5, <1>8, <2>1, <2>2, <2>4, CallStepOK DEF Miss, ModelTypes
<1>9. CASE Created(c)
  <2> DEFINE n == rec.ref
             s == Sends(rec, CachedBody(rec.req, n))
             r == [s EXCEPT !.took = n, !.ref = None]
  <2>1. rec.pc = "create" /\ n # None /\ MadeFor(n, p, held, made)
    BY <1>1, <1>9 DEF Created, CallOK, p
  <2>2. n \in Names
    BY <1>5, <2>1, ClientAssumption DEF MadeFor, Names
  <2>3. CachedBody(rec.req, n) \in Bodies /\ CachedBody(rec.req, n).ref = n
    BY <1>1, <2>2, BodyFacts
  <2> HIDE DEF n
  <2>4. /\ s \in CallRecord /\ s.pc = "send" /\ s.answer = None /\ s.body = CachedBody(rec.req, n)
        /\ s.req = rec.req /\ s.fell = rec.fell /\ s.meta = rec.meta /\ s.read = rec.read
    BY <1>1, <2>3, SendsFacts
  <2>5. call' = [call EXCEPT ![c] = r]
    BY <1>9 DEF Created, n
  <2> HIDE DEF s
  <2>6. /\ r \in CallRecord /\ r.pc = "send" /\ r.answer = None /\ r.body = CachedBody(rec.req, n)
        /\ r.req = rec.req /\ r.took = n /\ r.ref = None /\ r.fell = rec.fell
        /\ r.meta = rec.meta /\ r.read = rec.read
    <3>1. r \in CallRecord
      <4>1. [s EXCEPT !.took = n] \in CallRecord
        BY <2>2, <2>4 DEF CallRecord
      <4> QED
        BY <4>1 DEF CallRecord
    <3>2. /\ r.pc = s.pc /\ r.answer = s.answer /\ r.body = s.body /\ r.req = s.req /\ r.took = n
          /\ r.ref = None /\ r.fell = s.fell /\ r.meta = s.meta /\ r.read = s.read
      BY <2>4 DEF CallRecord
    <3> QED
      BY <2>4, <3>1, <3>2
  <2> HIDE DEF r
  <2>7. CallOK(r, held, made)
    BY <1>1, <2>1, <2>3, <2>6 DEF CallOK, p
  <2>8. caches' \in [Prefixes -> SlotRecord] /\ \A q \in Prefixes : q = p \/ caches'[q] = caches[q]
    <3>1. Active(n) \in SlotRecord
      BY <2>2, MaxIntervals DEF Active, SlotRecord
    <3>2. caches' = [caches EXCEPT ![p] = Active(n)]
      BY <1>9 DEF Created, Fingerprint, n, p
    <3> QED
      BY <3>1, <3>2 DEF ModelTypes
  <2>9. SlotOK(p, caches'[p], held, made)
    BY <1>2, <1>9, <2>1 DEF Created, Fingerprint, Active, SlotOK, ModelTypes, n, p
  <2> QED
    BY <1>5, <1>9, <2>5, <2>6, <2>7, <2>8, <2>9, CallStepOK DEF Created, ModelTypes
<1>10. CASE CreateFailed(c)
  <2> DEFINE r == Sends(rec, InlineBody(c))
  <2>1. /\ r \in CallRecord /\ r.pc = "send" /\ r.answer = None /\ r.body = InlineBody(c)
        /\ r.req = rec.req /\ r.took = rec.took /\ r.ref = rec.ref /\ r.fell = rec.fell
        /\ r.meta = rec.meta /\ r.read = rec.read
    BY <1>1, <1>3, SendsFacts
  <2>2. call' = [call EXCEPT ![c] = r] /\ rec.pc = "create" /\ rec.ref = None
    BY <1>1, <1>10 DEF CreateFailed, CallOK
  <2> HIDE DEF r
  <2>3. CallOK(r, held, made)
    BY <1>1, <1>3, <1>4, <2>1, <2>2 DEF CallOK, p
  <2>4. caches' \in [Prefixes -> SlotRecord]
        /\ \A q \in Prefixes : SlotOK(q, caches'[q], held, made) \/ caches'[q] = caches[q]
    <3>1. Disabled \in SlotRecord /\ \A q : SlotOK(q, Disabled, held, made)
      BY MaxIntervals DEF Disabled, SlotRecord, SlotOK
    <3>2. caches' = [caches EXCEPT ![p] = Disabled]
      BY <1>10 DEF CreateFailed, Fingerprint, p
    <3> QED
      BY <3>1, <3>2 DEF ModelTypes
  <2> QED
    BY <1>5, <1>10, <2>1, <2>2, <2>3, <2>4, CallStepOK DEF CreateFailed, ModelTypes
<1>11. CASE FallBack(c)
  <2> DEFINE s == Sends(rec, PlainBody(rec.req))
             r == [s EXCEPT !.fell = TRUE]
  <2>1. /\ s \in CallRecord /\ s.pc = "send" /\ s.answer = None /\ s.body = PlainBody(rec.req)
        /\ s.req = rec.req /\ s.took = rec.took /\ s.ref = rec.ref /\ s.meta = rec.meta /\ s.read = rec.read
    BY <1>1, <1>3, SendsFacts
  <2>2. call' = [call EXCEPT ![c] = r] /\ rec.pc = "send"
    BY <1>11 DEF FallBack
  <2> HIDE DEF s
  <2>3. /\ r \in CallRecord /\ r.pc = "send" /\ r.answer = None /\ r.body = PlainBody(rec.req)
        /\ r.req = rec.req /\ r.took = rec.took /\ r.ref = rec.ref /\ r.meta = rec.meta /\ r.read = rec.read
    BY <2>1 DEF CallRecord
  <2> HIDE DEF r
  <2>4. CallOK(r, held, made)
    BY <1>1, <1>3, <1>4, <2>2, <2>3 DEF CallOK, p
  <2>5. caches' \in [Prefixes -> SlotRecord]
        /\ \A q \in Prefixes : SlotOK(q, caches'[q], held, made) \/ caches'[q] = caches[q]
    <3>1. Empty \in SlotRecord /\ \A q : SlotOK(q, Empty, held, made)
      BY MaxIntervals DEF Empty, SlotRecord, SlotOK
    <3> QED
      BY <1>11, <3>1 DEF FallBack, ModelTypes
  <2> QED
    BY <1>5, <1>11, <2>2, <2>3, <2>4, <2>5, CallStepOK DEF FallBack, ModelTypes
<1> QED
  BY <1>6, <1>7, <1>8, <1>9, <1>10, <1>11

\* The server and the network answer.
LEMMA ServerStepOK ==
    ASSUME ModelTypes, EntriesOK, NEW c \in Calls,
           CreateServed(c) \/ CreateUnserved(c) \/ Served(c) \/ Unserved(c)
    PROVE  ModelTypes' /\ EntriesOK'
<1> DEFINE rec == call[c]
           p == Prefix(call[c].req)
<1>1. rec \in CallRecord /\ rec.req \in Requests /\ CallOK(rec, held, made)
      /\ rec.pc \in {"create", "send"} /\ rec.answer = None
  BY DEF ModelTypes, EntriesOK, CallRecord, CreateServed, CreateUnserved, Served, Unserved, Waiting
<1>2. p \in Prefixes
  BY <1>1, BodyFacts
<1>3. made \in Nat /\ made <= made /\ made \in 0 .. MaxNames
  BY ClientAssumption DEF ModelTypes
<1>4. \A o \in Outcomes :
        LET r == Answered(rec, o)
        IN  /\ r \in CallRecord /\ r.took = rec.took /\ r.ref = None /\ r.req = rec.req
            /\ r.body = rec.body /\ r.read = rec.read
            /\ rec.pc = "create" => r.pc = "create" /\ (r.answer = "ok" <=> o = "ok")
            /\ ~ (rec.pc = "create" /\ o = "ok") => CallOK(r, held, made)
  BY <1>1, AnsweredFacts
<1> HIDE DEF p
<1>5. CASE CreateServed(c)
  <2>1. PICK o \in {"ok", "lost", "broken"} :
          call' = [call EXCEPT ![c] = [Answered(rec, o) EXCEPT !.ref = IF o = "ok" THEN made + 1 ELSE None]]
    BY <1>5 DEF CreateServed
  <2> DEFINE a == Answered(rec, o)
             n == IF o = "ok" THEN made + 1 ELSE None
             r == [a EXCEPT !.ref = n]
  <2>2. /\ a \in CallRecord /\ a.took = rec.took /\ a.ref = None /\ a.req = rec.req
        /\ a.body = rec.body /\ a.read = rec.read /\ a.pc = "create" /\ (a.answer = "ok" <=> o = "ok")
        /\ o # "ok" => CallOK(a, held, made)
    BY <1>4, <1>5 DEF Outcomes, CreateServed, Waiting
  <2>3. made' = made + 1 /\ made' \in 1 .. MaxNames /\ held' = [held EXCEPT ![made + 1] = p]
    BY <1>3, <1>5, ClientAssumption DEF CreateServed, p
  <2>4. /\ held' \in [Names -> Prefixes \cup {None}] /\ held'[made'] = p
        /\ \A x \in 1 .. made : held'[x] = held[x]
    BY <1>2, <1>3, <2>3 DEF ModelTypes, Names
  <2>5. n \in Names \cup {None} /\ (n # None => n = made' /\ o = "ok") /\ (o = "ok" => n # None)
    BY <2>3, ClientAssumption DEF Names
  <2>6. call' = [call EXCEPT ![c] = r]
    BY <2>1
  <2> HIDE DEF a, n
  <2>7. /\ r \in CallRecord /\ r.ref = n /\ r.pc = a.pc /\ r.answer = a.answer /\ r.body = a.body
        /\ r.req = a.req /\ r.took = a.took /\ r.fell = a.fell /\ r.meta = a.meta /\ r.read = a.read
    BY <2>2, <2>5 DEF CallRecord
  <2> HIDE DEF r
  <2>8. CallOK(r, held', made')
    <3>1. n # None => MadeFor(n, Prefix(r.req), held', made')
      BY <1>3, <2>2, <2>3, <2>4, <2>5, <2>7 DEF MadeFor, p
    <3>2. a.took = None /\ ~ a.fell /\ a.meta = None /\ (a.read # None => a.read = Prefix(a.req))
      BY <1>1, <2>2, <1>5, AnsweredKeeps DEF CallOK, Outcomes, CreateServed, Waiting, a
    <3> QED
      BY <2>2, <2>5, <2>7, <3>1, <3>2 DEF CallOK
  <2>9. caches' = caches /\ caches \in [Prefixes -> SlotRecord] /\ made' \in 0 .. MaxNames /\ made <= made'
    BY <1>3, <1>5, <2>3, ClientAssumption DEF CreateServed, ModelTypes
  <2> QED
    BY <2>4, <2>6, <2>7, <2>8, <2>9, CallStepOK
<1>6. CASE CreateUnserved(c) \/ Unserved(c)
  <2>1. PICK o \in Outcomes : o # "ok" /\ call' = [call EXCEPT ![c] = Answered(rec, o)]
    BY <1>6 DEF CreateUnserved, Unserved, Outcomes
  <2>2. Answered(rec, o) \in CallRecord /\ CallOK(Answered(rec, o), held, made)
    BY <1>4, <2>1
  <2>3. UNCHANGED <<caches, held, made>>
    BY <1>6 DEF CreateUnserved, Unserved
  <2> QED
    BY <1>3, <2>1, <2>2, <2>3, CallStepOK DEF ModelTypes
<1>7. CASE Served(c)
  <2>1. PICK o \in {"ok", "broken"} :
          call' = [call EXCEPT ![c] = [Answered(rec, o) EXCEPT !.read = IF rec.body.ref = None THEN rec.body.prefix
                                                                       ELSE held[rec.body.ref]]]
    BY <1>7 DEF Served
  <2> DEFINE a == Answered(rec, o)
             x == IF rec.body.ref = None THEN rec.body.prefix ELSE held[rec.body.ref]
             r == [a EXCEPT !.read = x]
  <2>2. a \in CallRecord /\ a.req = rec.req /\ CallOK(a, held, made)
    BY <1>4, <1>7 DEF Outcomes, Served, Waiting
  <2>3. x = p
    BY <1>1, <1>7 DEF CallOK, Served, Waiting, Known, MadeFor, p
  <2>4. call' = [call EXCEPT ![c] = r]
    BY <2>1
  <2> HIDE DEF a, x
  <2>5. /\ r \in CallRecord /\ r.read = p /\ r.pc = a.pc /\ r.answer = a.answer /\ r.body = a.body
        /\ r.req = a.req /\ r.took = a.took /\ r.ref = a.ref /\ r.fell = a.fell /\ r.meta = a.meta
    BY <1>2, <2>2, <2>3 DEF CallRecord
  <2> HIDE DEF r
  <2>6. CallOK(r, held, made)
    BY <2>2, <2>5 DEF CallOK, p
  <2> QED
    BY <1>3, <1>7, <2>4, <2>5, <2>6, CallStepOK DEF Served, ModelTypes
<1> QED
  BY <1>5, <1>6, <1>7

LEMMA ModelNextTypes == ModelTypes /\ EntriesOK /\ [ModelNext]_modelVars => ModelTypes' /\ EntriesOK'
<1> SUFFICES ASSUME ModelTypes, EntriesOK, [ModelNext]_modelVars PROVE ModelTypes' /\ EntriesOK'
  OBVIOUS
<1>1. ASSUME NEW n \in Names, Evicted(n) PROVE ModelTypes' /\ EntriesOK'
  <2>1. ModelTypes'
    BY <1>1 DEF Evicted, ModelTypes
  <2>2. made \in Nat /\ made' = made /\ \A x \in 1 .. made : held'[x] \in {held[x], None}
    BY <1>1, ClientAssumption DEF Evicted, ModelTypes, Names
  <2>3. /\ \A r : CallOK(r, held, made) => CallOK(r, held', made')
        /\ \A p, slot : SlotOK(p, slot, held, made) => SlotOK(p, slot, held', made')
    BY <2>2, EntriesGo
  <2> QED
    BY <1>1, <2>1, <2>3 DEF Evicted, EntriesOK
<1>2. ASSUME NEW p \in Prefixes, DeadlinePasses(p) PROVE ModelTypes' /\ EntriesOK'
  <2>1. caches' = [caches EXCEPT ![p] = [caches[p] EXCEPT !.live = FALSE]] /\ caches[p] \in SlotRecord
    BY <1>2 DEF DeadlinePasses, ModelTypes
  <2>2. /\ [caches[p] EXCEPT !.live = FALSE] \in SlotRecord
        /\ [caches[p] EXCEPT !.live = FALSE].kind = caches[p].kind
        /\ [caches[p] EXCEPT !.live = FALSE].name = caches[p].name
    BY <2>1 DEF SlotRecord
  <2>3. caches' \in [Prefixes -> SlotRecord] /\ \A q \in Prefixes : SlotOK(q, caches'[q], held, made)
    BY <2>1, <2>2 DEF ModelTypes, EntriesOK, SlotOK
  <2> QED
    BY <1>2, <2>3 DEF DeadlinePasses, ModelTypes, EntriesOK
<1>3. CASE UNCHANGED modelVars
  BY <1>3 DEF modelVars, ModelTypes, EntriesOK
<1> QED
  BY <1>1, <1>2, <1>3, CacheStepOK, ServerStepOK DEF ModelNext

\* For every set of calls and requests, the client's variables keep their types, and
\* every slot and every call refers to an entry made for its prefix.
THEOREM ModelTypeCorrect == ModelSpec => [](ModelTypeOK /\ EntriesOK)
<1>1. ModelTypes => ModelTypeOK
  <2> SUFFICES ASSUME ModelTypes PROVE ModelTypeOK
    OBVIOUS
  <2>1. ASSUME NEW c \in Calls
        PROVE  /\ call[c].pc \in {"start", "create", "send", "ok", "failed"}
               /\ call[c].attempt \in 0 .. MaxRetries /\ call[c].answer \in Outcomes \cup {None}
               /\ {call[c].took, call[c].ref, call[c].meta} \subseteq Names \cup {None}
    <3>1. call[c] \in CallRecord
      BY DEF ModelTypes
    <3> QED
      BY <3>1 DEF CallRecord
  <2>2. ASSUME NEW p \in Prefixes
        PROVE  caches[p].name \in Names \cup {None} /\ caches[p].uses \in 0 .. Max({1, Intervals})
    <3>1. caches[p] \in SlotRecord
      BY DEF ModelTypes
    <3> QED
      BY <3>1 DEF SlotRecord
  <2> QED
    BY <2>1, <2>2 DEF ModelTypes, ModelTypeOK
<1> QED
  BY <1>1, ModelInitTypes, ModelNextTypes, PTL DEF ModelSpec

\* Whichever entry serves a request, and whoever made it or whatever ended meanwhile,
\* the model reads the prefix of that request.
THEOREM PrefixIsRead == ModelSpec => []ReadsItsPrefix
<1>1. EntriesOK => ReadsItsPrefix
  BY DEF EntriesOK, CallOK, ReadsItsPrefix
<1> QED
  BY <1>1, ModelInitTypes, ModelNextTypes, PTL DEF ModelSpec

\* No call fails with a client error on a request that only referred to its prefix, and
\* the entry that is reported is the one the request referred to.
THEOREM CacheIsOptional == ModelSpec => []CacheNeverInTheWay
<1>1. EntriesOK => CacheNeverInTheWay
  <2> SUFFICES ASSUME EntriesOK, NEW c \in Calls
               PROVE  /\ call[c].pc = "failed" /\ ClientError(call[c].answer) => call[c].body.ref = None
                      /\ call[c].meta # None => ~ call[c].fell /\ call[c].body.ref = call[c].meta
    BY DEF CacheNeverInTheWay
  <2>1. CallOK(call[c], held, made)
    BY DEF EntriesOK
  <2> QED
    BY <2>1 DEF CallOK
<1> QED
  BY <1>1, ModelInitTypes, ModelNextTypes, PTL DEF ModelSpec

-----------------------------------------------------------------------------
(* The model's client: how many calls an entry serves.                     *)

Takers(n) == {c \in Calls : call[c].took = n}

InUse(n, p) == caches[p].kind = "active" /\ caches[p].name = n

\* An entry that is made and not yet announced is known to its creator alone.
OwnRefs ==
    \A c \in Calls : call[c].ref # None =>
        /\ Takers(call[c].ref) = {} /\ \A p \in Prefixes : ~ InUse(call[c].ref, p)
        /\ \A d \in Calls : call[d].ref = call[c].ref => d = c

\* A slot counts at least the calls its entry served.
UsesCounted ==
    \A n \in Names :
        /\ IsFiniteSet(Takers(n)) /\ Cardinality(Takers(n)) <= Max({1, Intervals})
        /\ \A p \in Prefixes : InUse(n, p) => Cardinality(Takers(n)) <= caches[p].uses
        /\ \A p, q \in Prefixes : InUse(n, p) /\ InUse(n, q) => p = q

TakersMade == \A c \in Calls : call[c].took # None => call[c].took \in 1 .. made

UsesInv == OwnRefs /\ UsesCounted /\ TakersMade

LEMMA UsesInit == ModelInit => UsesInv
<1> SUFFICES ASSUME ModelInit PROVE UsesInv
  OBVIOUS
<1>1. \A c \in Calls : call[c].took = None /\ call[c].ref = None
  BY DEF ModelInit
<1>2. \A n \in Names : Takers(n) = {}
  BY <1>1, ClientAssumption DEF Takers, Names
<1>3. \A n \in Names, p \in Prefixes : ~ InUse(n, p)
  BY DEF InUse, ModelInit, Empty
<1>4. IsFiniteSet({}) /\ Cardinality({}) = 0
  BY FS_EmptySet
<1> QED
  BY <1>1, <1>2, <1>3, <1>4, MaxIntervals DEF UsesInv, OwnRefs, UsesCounted, TakersMade

\* A step that takes no entry, announces none and puts none in a slot.
LEMMA UsesKept ==
    ASSUME ModelTypes, UsesInv, made' = made,
           \A c \in Calls : call'[c].took = call[c].took /\ call'[c].ref \in {call[c].ref, None},
           \A p \in Prefixes : caches'[p].kind = "active" =>
               /\ caches[p].kind = "active" /\ caches'[p].name = caches[p].name
               /\ caches'[p].uses = caches[p].uses
    PROVE  UsesInv'
<1>1. \A n : Takers(n)' = Takers(n)
  BY DEF Takers
<1>2. \A n, p : p \in Prefixes /\ InUse(n, p)' => InUse(n, p) /\ caches'[p].uses = caches[p].uses
  BY DEF InUse
<1>3. OwnRefs'
  BY <1>1, <1>2 DEF UsesInv, OwnRefs
<1>4. UsesCounted'
  BY <1>1, <1>2 DEF UsesInv, UsesCounted
<1> QED
  BY <1>3, <1>4 DEF UsesInv, TakersMade

\* The steps of a call that neither take an entry nor make one.
LEMMA PlainStepUses ==
    ASSUME ModelTypes, EntriesOK, UsesInv, NEW c \in Calls,
           \/ Inline(c) \/ Miss(c) \/ CreateFailed(c) \/ FallBack(c)
           \/ CreateUnserved(c) \/ Served(c) \/ Unserved(c)
    PROVE  UsesInv'
<1> DEFINE rec == call[c]
<1>1. rec \in CallRecord /\ rec.req \in Requests /\ CallOK(rec, held, made)
  BY DEF ModelTypes, EntriesOK, CallRecord
<1>2. InlineBody(c) \in Bodies /\ PlainBody(rec.req) \in Bodies
  BY <1>1, BodyFacts DEF InlineBody
<1>3. \E r : /\ call' = [call EXCEPT ![c] = r] /\ r.took = rec.took /\ r.ref \in {rec.ref, None}
  <2>1. CASE Inline(c) \/ CreateFailed(c)
    BY <1>1, <1>2, <2>1, SendsFacts DEF Inline, CreateFailed
  <2>2. CASE Miss(c)
    <3> DEFINE r == [rec EXCEPT !.pc = "create"]
    <3>1. r.took = rec.took /\ r.ref = rec.ref
      BY <1>1 DEF CallRecord
    <3>2. call' = [call EXCEPT ![c] = r]
      BY <2>2 DEF Miss
    <3> HIDE DEF r
    <3> QED
      BY <3>1, <3>2
  <2>3. CASE FallBack(c)
    <3> DEFINE s == Sends(rec, PlainBody(rec.req))
    <3>1. s \in CallRecord /\ s.took = rec.took /\ s.ref = rec.ref
      BY <1>1, <1>2, SendsFacts
    <3> DEFINE r == [s EXCEPT !.fell = TRUE]
    <3>2. call' = [call EXCEPT ![c] = r]
      BY <2>3 DEF FallBack
    <3> HIDE DEF s
    <3>3. r.took = rec.took /\ r.ref = rec.ref
      BY <3>1 DEF CallRecord
    <3> HIDE DEF r
    <3> QED
      BY <3>2, <3>3
  <2>4. CASE CreateUnserved(c) \/ Served(c) \/ Unserved(c)
    <3>1. rec.pc \in {"create", "send"} /\ rec.answer = None
      BY <2>4 DEF CreateUnserved, Served, Unserved, Waiting
    <3>2. PICK o \in Outcomes : \/ call' = [call EXCEPT ![c] = Answered(rec, o)]
                                \/ \E x : call' = [call EXCEPT ![c] = [Answered(rec, o) EXCEPT !.read = x]]
      BY <2>4 DEF CreateUnserved, Served, Unserved, Outcomes
    <3> DEFINE a == Answered(rec, o)
    <3>3. a \in CallRecord /\ a.took = rec.took /\ a.ref = None
      BY <1>1, <3>1, AnsweredFacts
    <3> HIDE DEF a
    <3>4. CASE call' = [call EXCEPT ![c] = a]
      BY <3>3, <3>4
    <3>5. ASSUME NEW x, call' = [call EXCEPT ![c] = [a EXCEPT !.read = x]]
          PROVE  \E r : /\ call' = [call EXCEPT ![c] = r] /\ r.took = rec.took /\ r.ref \in {rec.ref, None}
      <4> DEFINE r == [a EXCEPT !.read = x]
      <4>1. r.took = a.took /\ r.ref = a.ref
        BY <3>3 DEF CallRecord
      <4>2. call' = [call EXCEPT ![c] = r]
        BY <3>5
      <4> HIDE DEF r
      <4> QED
        BY <3>3, <4>1, <4>2
    <3> QED
      BY <3>2, <3>4, <3>5 DEF a
  <2> QED
    BY <2>1, <2>2, <2>3, <2>4
<1>4. \A p \in Prefixes : caches'[p] = caches[p] \/ caches'[p].kind # "active"
  BY DEF Inline, Miss, CreateFailed, FallBack, CreateUnserved, Served, Unserved, Disabled, Empty, ModelTypes
<1>5. made' = made
  BY DEF Inline, Miss, CreateFailed, FallBack, CreateUnserved, Served, Unserved
<1>6. \A d \in Calls : call'[d].took = call[d].took /\ call'[d].ref \in {call[d].ref, None}
  BY <1>3 DEF ModelTypes
<1> QED
  BY <1>4, <1>5, <1>6, UsesKept

\* The server makes an entry, whose name no slot and no call knows.
LEMMA CreateServedUses ==
    ASSUME ModelTypes, EntriesOK, UsesInv, NEW c \in Calls, CreateServed(c)
    PROVE  UsesInv'
<1> DEFINE rec == call[c]
<1>1. rec \in CallRecord /\ CallOK(rec, held, made) /\ rec.pc = "create" /\ rec.answer = None
  BY DEF ModelTypes, EntriesOK, CreateServed, Waiting
<1>2. made \in Nat /\ made' = made + 1 /\ None \notin Nat /\ made + 1 \in Names
  BY ClientAssumption DEF ModelTypes, CreateServed, Names
<1>3. \E r : /\ call' = [call EXCEPT ![c] = r] /\ r.took = rec.took /\ r.ref \in {made + 1, None}
  <2>1. PICK o \in {"ok", "lost", "broken"} :
          call' = [call EXCEPT ![c] = [Answered(rec, o) EXCEPT !.ref = IF o = "ok" THEN made + 1 ELSE None]]
    BY DEF CreateServed
  <2> DEFINE a == Answered(rec, o)
  <2>2. a \in CallRecord /\ a.took = rec.took
    BY <1>1, AnsweredFacts DEF Outcomes
  <2>3. \A x : [a EXCEPT !.ref = x].took = a.took /\ [a EXCEPT !.ref = x].ref = x
    BY <2>2 DEF CallRecord
  <2> QED
    BY <2>1, <2>2, <2>3
<1>4. /\ \A d \in Calls : call'[d].took = call[d].took
      /\ \A d \in Calls \ {c} : call'[d].ref = call[d].ref
      /\ call'[c].ref \in {made + 1, None}
  BY <1>3 DEF ModelTypes
<1>5. caches' = caches
  BY DEF CreateServed
<1>6. \A n : Takers(n)' = Takers(n)
  BY <1>4 DEF Takers
<1>7. \A n, p : InUse(n, p)' = InUse(n, p)
  BY <1>5 DEF InUse
<1>8. /\ Takers(made + 1) = {} /\ \A p \in Prefixes : ~ InUse(made + 1, p)
      /\ \A d \in Calls : call[d].ref # made + 1
  BY <1>2 DEF UsesInv, TakersMade, Takers, InUse, EntriesOK, SlotOK, CallOK, MadeFor
<1>9. OwnRefs'
  BY <1>4, <1>6, <1>7, <1>8 DEF UsesInv, OwnRefs
<1>10. UsesCounted'
  BY <1>5, <1>6, <1>7 DEF UsesInv, UsesCounted
<1>11. TakersMade'
  BY <1>2, <1>4 DEF UsesInv, TakersMade
<1> QED
  BY <1>9, <1>10, <1>11 DEF UsesInv

\* A call more among those an entry served.
LEMMA OneTakerMore ==
    ASSUME ModelTypes, UsesInv, NEW c \in Calls, NEW n \in Names, call[c].took = None,
           call'[c].took = n, \A d \in Calls \ {c} : call'[d].took = call[d].took
    PROVE  /\ \A x \in Names \ {n} : Takers(x)' = Takers(x)
           /\ IsFiniteSet(Takers(n)') /\ Cardinality(Takers(n)) \in Nat
           /\ Cardinality(Takers(n)') = Cardinality(Takers(n)) + 1
<1>1. n # None
  BY ClientAssumption DEF Names
<1>2. \A x \in Names \ {n} : Takers(x)' = Takers(x)
  BY ClientAssumption DEF Takers, Names
<1>3. Takers(n)' = Takers(n) \cup {c} /\ c \notin Takers(n)
  BY <1>1 DEF Takers
<1>4. IsFiniteSet(Takers(n)) /\ Cardinality(Takers(n)) \in Nat
  BY FS_CardinalityType DEF UsesInv, UsesCounted
<1>5. IsFiniteSet(Takers(n) \cup {c}) /\ Cardinality(Takers(n) \cup {c}) = Cardinality(Takers(n)) + 1
  BY <1>3, <1>4, FS_AddElement
<1> QED
  BY <1>2, <1>3, <1>4, <1>5

LEMMA HitUses ==
    ASSUME ModelTypes, EntriesOK, UsesInv, NEW c \in Calls, Hit(c)
    PROVE  UsesInv'
<1> DEFINE rec == call[c]
<1>1. rec \in CallRecord /\ rec.req \in Requests /\ CallOK(rec, held, made) /\ rec.pc = "start"
  BY DEF ModelTypes, EntriesOK, CallRecord, Hit
<1>2. PICK p \in Prefixes : p = Prefix(rec.req)
  BY <1>1, BodyFacts
<1>3. /\ caches[p] \in SlotRecord /\ caches[p].kind = "active" /\ caches[p].uses < Intervals
      /\ MadeFor(caches[p].name, p, held, made)
  BY <1>2 DEF ModelTypes, EntriesOK, SlotOK, Hit, Usable, Slot, Fingerprint
<1>4. PICK n \in Names : n = caches[p].name /\ n \in 1 .. made /\ made \in Nat /\ InUse(n, p)
  BY <1>3, ClientAssumption DEF MadeFor, InUse, ModelTypes, Names
<1>5. caches' = [caches EXCEPT ![p] = [caches[p] EXCEPT !.uses = caches[p].uses + 1]] /\ made' = made
  BY <1>2 DEF Hit, Fingerprint
<1>6. call' = [call EXCEPT ![c] = [Sends(rec, CachedBody(rec.req, n)) EXCEPT !.took = n]]
      /\ CachedBody(rec.req, n) \in Bodies
  BY <1>1, <1>2, <1>4, BodyFacts DEF Hit, Slot, Fingerprint
<1>7. /\ \A d \in Calls \ {c} : call'[d] = call[d]
      /\ call'[c].took = n /\ call'[c].ref = call[c].ref /\ call[c].took = None
  <2> DEFINE s == Sends(rec, CachedBody(rec.req, n))
  <2>1. s \in CallRecord /\ s.ref = rec.ref
    BY <1>1, <1>6, SendsFacts
  <2>2. call' = [call EXCEPT ![c] = [s EXCEPT !.took = n]]
    BY <1>6
  <2> HIDE DEF s
  <2>3. [s EXCEPT !.took = n].took = n /\ [s EXCEPT !.took = n].ref = s.ref
    BY <2>1 DEF CallRecord
  <2> QED
    BY <1>1, <2>1, <2>2, <2>3 DEF ModelTypes, CallOK
<1>8. /\ \A q \in Prefixes \ {p} : caches'[q] = caches[q]
      /\ caches'[p].kind = caches[p].kind /\ caches'[p].name = n /\ caches'[p].uses = caches[p].uses + 1
      /\ caches[p].uses \in Nat
  <2>1. /\ [caches[p] EXCEPT !.uses = caches[p].uses + 1].kind = caches[p].kind
        /\ [caches[p] EXCEPT !.uses = caches[p].uses + 1].name = caches[p].name
        /\ [caches[p] EXCEPT !.uses = caches[p].uses + 1].uses = caches[p].uses + 1
    BY <1>3 DEF SlotRecord
  <2>2. caches[p].uses \in Nat
    BY <1>3, MaxIntervals DEF SlotRecord
  <2> QED
    BY <1>4, <1>5, <2>1, <2>2 DEF ModelTypes
<1>9. \A x, q : q \in Prefixes => InUse(x, q)' = InUse(x, q)
  BY <1>4, <1>8 DEF InUse
<1>10. /\ \A x \in Names \ {n} : Takers(x)' = Takers(x)
       /\ IsFiniteSet(Takers(n)') /\ Cardinality(Takers(n)) \in Nat
       /\ Cardinality(Takers(n)') = Cardinality(Takers(n)) + 1
  BY <1>7, OneTakerMore
<1>11. OwnRefs'
  <2> SUFFICES ASSUME NEW d \in Calls, call'[d].ref # None
               PROVE  /\ Takers(call[d].ref)' = {} /\ \A q \in Prefixes : ~ InUse(call[d].ref, q)'
                      /\ \A e \in Calls : call'[e].ref = call'[d].ref => e = d
    BY DEF OwnRefs
  <2>1. \A e \in Calls : call'[e].ref = call[e].ref
    BY <1>7
  <2>2. Takers(call[d].ref) = {} /\ (\A q \in Prefixes : ~ InUse(call[d].ref, q))
        /\ \A e \in Calls : call[e].ref = call[d].ref => e = d
    BY <2>1 DEF UsesInv, OwnRefs
  <2>3. call[d].ref # n /\ call[d].ref \in Names
    BY <1>4, <2>1, <2>2 DEF ModelTypes, CallRecord
  <2>4. \A q \in Prefixes : ~ InUse(call'[d].ref, q)
    BY <2>1, <2>2
  <2> QED
    BY <1>9, <1>10, <2>1, <2>2, <2>3, <2>4
<1>12. UsesCounted'
  <2>1. Cardinality(Takers(n)) <= caches[p].uses /\ \A q \in Prefixes : InUse(n, q) => q = p
    BY <1>4 DEF UsesInv, UsesCounted
  <2>2. Cardinality(Takers(n)') <= caches[p].uses + 1 /\ Cardinality(Takers(n)') <= Max({1, Intervals})
    BY <1>3, <1>8, <1>10, <2>1, MaxIntervals, ClientAssumption
  <2>3. ASSUME NEW x \in Names
        PROVE  /\ IsFiniteSet(Takers(x)') /\ Cardinality(Takers(x)') <= Max({1, Intervals})
               /\ \A q \in Prefixes : InUse(x, q) => Cardinality(Takers(x)') <= caches'[q].uses
    <3>1. CASE x = n
      BY <1>8, <1>10, <2>1, <2>2, <3>1
    <3>2. CASE x # n
      <4>1. Takers(x)' = Takers(x)
        BY <1>10, <3>2
      <4>2. /\ IsFiniteSet(Takers(x)) /\ Cardinality(Takers(x)) <= Max({1, Intervals})
            /\ \A q \in Prefixes : InUse(x, q) => Cardinality(Takers(x)) <= caches[q].uses
        BY DEF UsesInv, UsesCounted
      <4>3. \A q \in Prefixes : InUse(x, q) => q # p
        BY <1>4, <3>2 DEF InUse
      <4> QED
        BY <1>8, <4>1, <4>2, <4>3
    <3> QED
      BY <3>1, <3>2
  <2>4. \A x \in Names, q, r \in Prefixes : InUse(x, q) /\ InUse(x, r) => q = r
    BY DEF UsesInv, UsesCounted
  <2> QED
    BY <1>9, <2>3, <2>4 DEF UsesCounted
<1>13. TakersMade'
  BY <1>4, <1>5, <1>7 DEF UsesInv, TakersMade
<1> QED
  BY <1>11, <1>12, <1>13 DEF UsesInv

LEMMA CreatedUses ==
    ASSUME ModelTypes, EntriesOK, UsesInv, NEW c \in Calls, Created(c)
    PROVE  UsesInv'
<1> DEFINE rec == call[c]
<1>1. rec \in CallRecord /\ rec.req \in Requests /\ CallOK(rec, held, made)
      /\ rec.pc = "create" /\ rec.answer = "ok"
  BY DEF ModelTypes, EntriesOK, CallRecord, Created
<1>2. PICK p \in Prefixes : p = Prefix(rec.req)
  BY <1>1, BodyFacts
<1>3. PICK n \in Names : n = rec.ref /\ n # None /\ n \in 1 .. made
  BY <1>1 DEF CallOK, MadeFor, CallRecord
<1>4. caches' = [caches EXCEPT ![p] = Active(n)] /\ made' = made
  BY <1>2, <1>3 DEF Created, Fingerprint
<1>5. call' = [call EXCEPT ![c] = [Sends(rec, CachedBody(rec.req, n)) EXCEPT !.took = n, !.ref = None]]
      /\ CachedBody(rec.req, n) \in Bodies
  BY <1>1, <1>3, BodyFacts DEF Created
<1>6. /\ \A d \in Calls \ {c} : call'[d] = call[d]
      /\ call'[c].took = n /\ call'[c].ref = None /\ call[c].took = None
  <2> DEFINE s == Sends(rec, CachedBody(rec.req, n))
  <2>1. s \in CallRecord
    BY <1>1, <1>5, SendsFacts
  <2>2. call' = [call EXCEPT ![c] = [s EXCEPT !.took = n, !.ref = None]]
    BY <1>5
  <2> HIDE DEF s
  <2>3. LET r == [s EXCEPT !.took = n, !.ref = None] IN r.took = n /\ r.ref = None
    BY <2>1 DEF CallRecord
  <2> QED
    BY <1>1, <2>2, <2>3 DEF ModelTypes, CallOK
<1>7. /\ \A q \in Prefixes \ {p} : caches'[q] = caches[q]
      /\ caches'[p].kind = "active" /\ caches'[p].name = n /\ caches'[p].uses = 1
  BY <1>4 DEF ModelTypes, Active
<1>8. Takers(n) = {} /\ (\A q \in Prefixes : ~ InUse(n, q)) /\ \A d \in Calls : call[d].ref = n => d = c
  BY <1>3 DEF UsesInv, OwnRefs
<1>9. /\ \A x \in Names \ {n} : Takers(x)' = Takers(x)
      /\ IsFiniteSet(Takers(n)') /\ Cardinality(Takers(n)') = 1
  <2>1. Cardinality(Takers(n)) = 0
    BY <1>8, FS_EmptySet
  <2> QED
    BY <1>6, <2>1, OneTakerMore
<1>10. \A x \in Names, q \in Prefixes : InUse(x, q)' => (x = n /\ q = p) \/ (x # n /\ q # p /\ InUse(x, q))
  BY <1>7, <1>8 DEF InUse
<1>11. OwnRefs'
  <2> SUFFICES ASSUME NEW d \in Calls, call'[d].ref # None
               PROVE  /\ Takers(call[d].ref)' = {} /\ \A q \in Prefixes : ~ InUse(call[d].ref, q)'
                      /\ \A e \in Calls : call'[e].ref = call'[d].ref => e = d
    BY DEF OwnRefs
  <2>1. d # c /\ call'[d].ref = call[d].ref
    BY <1>6
  <2>2. PICK x \in Names : x = call[d].ref /\ x # None
    BY <2>1 DEF ModelTypes, CallRecord
  <2>3. x # n
    BY <1>8, <2>1, <2>2
  <2>4. Takers(x) = {} /\ (\A q \in Prefixes : ~ InUse(x, q)) /\ \A e \in Calls : call[e].ref = x => e = d
    BY <2>2 DEF UsesInv, OwnRefs
  <2>5. Takers(x)' = {} /\ \A q \in Prefixes : ~ InUse(x, q)'
    BY <1>9, <1>10, <2>3, <2>4
  <2>6. \A e \in Calls : call'[e].ref = x => e = d
    BY <1>6, <2>2, <2>4
  <2>7. call'[d].ref = x
    BY <2>1, <2>2
  <2> QED
    BY <2>5, <2>6, <2>7 DEF Takers, InUse
<1>12. UsesCounted'
  <2> SUFFICES ASSUME NEW x \in Names
               PROVE  /\ IsFiniteSet(Takers(x)') /\ Cardinality(Takers(x)') <= Max({1, Intervals})
                      /\ \A q \in Prefixes : InUse(x, q)' => Cardinality(Takers(x)') <= caches'[q].uses
                      /\ \A q, r \in Prefixes : InUse(x, q)' /\ InUse(x, r)' => q = r
    BY DEF UsesCounted
  <2>1. CASE x = n
    BY <1>7, <1>9, <1>10, <2>1, MaxIntervals
  <2>2. CASE x # n
    <3>1. Takers(x)' = Takers(x)
      BY <1>9, <2>2
    <3>2. /\ IsFiniteSet(Takers(x)) /\ Cardinality(Takers(x)) <= Max({1, Intervals})
          /\ \A q \in Prefixes : InUse(x, q) => Cardinality(Takers(x)) <= caches[q].uses
          /\ \A q, r \in Prefixes : InUse(x, q) /\ InUse(x, r) => q = r
      BY DEF UsesInv, UsesCounted
    <3> QED
      BY <1>7, <1>10, <2>2, <3>1, <3>2
  <2> QED
    BY <2>1, <2>2
<1>13. TakersMade'
  BY <1>3, <1>4, <1>6 DEF UsesInv, TakersMade
<1> QED
  BY <1>11, <1>12, <1>13 DEF UsesInv

LEMMA UsesNext == ModelTypes /\ EntriesOK /\ UsesInv /\ [ModelNext]_modelVars => UsesInv'
<1> SUFFICES ASSUME ModelTypes, EntriesOK, UsesInv, [ModelNext]_modelVars PROVE UsesInv'
  OBVIOUS
<1>1. ASSUME NEW n \in Names, Evicted(n) PROVE UsesInv'
  BY <1>1, UsesKept DEF Evicted
<1>2. ASSUME NEW p \in Prefixes, DeadlinePasses(p) PROVE UsesInv'
  <2>1. caches' = [caches EXCEPT ![p] = [caches[p] EXCEPT !.live = FALSE]] /\ caches[p] \in SlotRecord
    BY <1>2 DEF DeadlinePasses, ModelTypes
  <2>2. LET slot == [caches[p] EXCEPT !.live = FALSE]
        IN  slot.kind = caches[p].kind /\ slot.name = caches[p].name /\ slot.uses = caches[p].uses
    BY <2>1 DEF SlotRecord
  <2>3. \A q \in Prefixes : /\ caches'[q].kind = caches[q].kind /\ caches'[q].name = caches[q].name
                            /\ caches'[q].uses = caches[q].uses
    BY <2>1, <2>2 DEF ModelTypes
  <2>4. call' = call /\ made' = made
    BY <1>2 DEF DeadlinePasses
  <2> QED
    BY <2>3, <2>4, UsesKept
<1>3. CASE UNCHANGED modelVars
  BY <1>3, UsesKept DEF modelVars
<1> QED
  BY <1>1, <1>2, <1>3, PlainStepUses, HitUses, CreatedUses, CreateServedUses DEF ModelNext

\* An entry serves at most cache_intervals calls, however many look it up, create
\* one in its place and give it up at the same time.
THEOREM EntriesServeAtMost == ModelSpec => []ServesAtMostIntervals
<1>1. UsesInv => ServesAtMostIntervals
  BY DEF UsesInv, UsesCounted, Takers, ServesAtMostIntervals
<1> QED
  BY <1>1, ModelInitTypes, ModelNextTypes, UsesInit, UsesNext, PTL DEF ModelSpec

-----------------------------------------------------------------------------
(* The credential manager: credentials and answers.                        *)

Answers == [is : {"none", "error", "consent", "misconfigured", "ready"}, cred : Credential]
ResolvePlaces == {"idle", "load", "refresh", "exchange", "save"}
CallbackPlaces == {"new", "load", "exchange", "save", "delete", "done", "kept", "refused"}

\* A credential without tokens, and the tool's own.
LEMMA CredentialFacts ==
    /\ NoCredential \in Credential /\ NoCredential.rt = 0 /\ NoCredential.at = 0
    /\ Raw \in Credential /\ Raw.rt \in {0, 1} /\ Raw.at \in {0, 1}
    /\ Raw.rt = 1 <=> kind = "token"
    /\ Raw.rt = 1 => Raw.at = 1
    /\ Raw.exp = Raw.rt
    /\ MaxTokens \in Nat \ {0}
BY AuthAssumption DEF NoCredential, Credential, Raw

\* What a call of resolve may answer.
LEMMA AnswerFacts ==
    /\ \A is \in {"none", "error", "consent", "misconfigured"} : Outcome(is) \in Answers
    /\ \A c \in Credential : Ready(c) \in Answers
BY CredentialFacts DEF Outcome, Ready, Answers

-----------------------------------------------------------------------------
(* The credential manager: type correctness.                               *)

ResolvesOK ==
    /\ pc \in [Resolver -> ResolvePlaces]
    /\ cred \in [Resolver -> Credential] /\ renewed \in [Resolver -> Credential]
    /\ outcome \in Answers

\* The three ways a step of resolve ends.
LEMMA ResolvedTypes ==
    ASSUME ResolvesOK, NEW r \in Resolver, NEW a \in Answers, Resolved(r, a)
    PROVE  ResolvesOK'
BY CredentialFacts DEF ResolvesOK, Resolved, ResolvePlaces

LEMMA AtTypes ==
    ASSUME ResolvesOK, NEW r \in Resolver, NEW place \in ResolvePlaces, NEW c \in Credential,
           At(r, place, c)
    PROVE  ResolvesOK'
BY AnswerFacts DEF ResolvesOK, At

LEMMA ObtainedTypes ==
    ASSUME ResolvesOK, NEW r \in Resolver, NEW c \in Credential, Obtained(r, c)
    PROVE  ResolvesOK'
<1>1. CASE hasService
  BY <1>1, AnswerFacts DEF ResolvesOK, Obtained, ResolvePlaces
<1>2. CASE ~ hasService
  BY <1>2, AnswerFacts, ResolvedTypes DEF Obtained
<1> QED
  BY <1>1, <1>2

LEMMA FallThroughTypes ==
    ASSUME ResolvesOK, NEW r \in Resolver, FallThrough(r)
    PROVE  ResolvesOK'
BY AnswerFacts, CredentialFacts, ResolvedTypes, AtTypes DEF FallThrough, ResolvePlaces

ServerOK ==
    /\ tokens \in 0 .. MaxTokens /\ live \subseteq 1 .. tokens /\ told \subseteq 1 .. tokens
    /\ expired \subseteq told /\ used \subseteq Code \cup {RawCode}

\* A token more.
LEMMA IssueTypes ==
    ASSUME ServerOK, NEW timed \in BOOLEAN, Issue(timed)
    PROVE  /\ tokens' = tokens + 1 /\ tokens' \in 0 .. MaxTokens
           /\ told' \subseteq 1 .. tokens' /\ told \subseteq told'
           /\ 1 .. tokens \subseteq 1 .. tokens' /\ tokens' \in 1 .. tokens'
BY CredentialFacts DEF ServerOK, Issue

\* What the server's answer makes of a credential.
LEMMA AppliedTypes ==
    ASSUME ServerOK, NEW c \in Credential, NEW granted \in BOOLEAN, NEW timed \in BOOLEAN,
           Issue(timed)
    PROVE  /\ Applied(c, granted, timed) \in Credential
           /\ Applied(c, granted, timed).rt = IF granted THEN tokens + 1 ELSE c.rt
           /\ Applied(c, granted, timed).at = tokens + 1
BY IssueTypes DEF ServerOK, Applied, Credential

LEMMA GrantTypes ==
    ASSUME ServerOK, NEW rt, NEW timed \in BOOLEAN, Grant(rt, timed)
    PROVE  ServerOK'
BY IssueTypes DEF ServerOK, Grant

LEMMA RedeemTypes ==
    ASSUME ServerOK, NEW c \in Code \cup {RawCode}, NEW granted \in BOOLEAN, NEW timed \in BOOLEAN,
           Redeem(c, granted, timed)
    PROVE  ServerOK'
BY IssueTypes DEF ServerOK, Redeem

ConsentOK ==
    /\ kind \in Kinds /\ hasService \in BOOLEAN /\ rotates \in BOOLEAN /\ store \in Credential
    /\ consents \subseteq begun /\ begun \subseteq Flow /\ given \subseteq Credential
    /\ cbpc \in [Callback -> CallbackPlaces]
    /\ flow \in [Callback -> Flow \cup {"none"}] /\ code \in [Callback -> Code \cup {RawCode}]
    /\ won \in [Callback -> Credential] /\ \A k \in Callback : cbpc[k] # "new" => flow[k] \in begun
    /\ excused \subseteq 0 .. MaxTokens

\* TypeOK in three parts, before and after a step.
LEMMA TypeParts ==
    /\ CredentialTypeOK <=> ResolvesOK /\ ServerOK /\ ConsentOK
    /\ CredentialTypeOK' <=> ResolvesOK' /\ ServerOK' /\ ConsentOK'
BY DEF CredentialTypeOK, ResolvesOK, ServerOK, ConsentOK, Answers, ResolvePlaces, CallbackPlaces

LEMMA CredentialInitTypes == CredentialInit => CredentialTypeOK
<1> SUFFICES ASSUME CredentialInit PROVE CredentialTypeOK
  OBVIOUS
<1>1. ResolvesOK
  BY CredentialFacts, AnswerFacts DEF CredentialInit, ResolvesOK, ResolvePlaces
<1>2. ServerOK
  BY CredentialFacts DEF CredentialInit, ServerOK
<1>3. ConsentOK
  BY CredentialFacts DEF CredentialInit, ConsentOK, CallbackPlaces
<1> QED
  BY <1>1, <1>2, <1>3, TypeParts

\* The steps of resolve.
LEMMA ResolveTypes ==
    ASSUME CredentialTypeOK, NEW r \in Resolver,
           Resolve(r) \/ LoadCached(r) \/ Refresh(r) \/ Exchange(r) \/ Save(r) \/ Cut(r)
    PROVE  CredentialTypeOK'
<1> USE TypeParts
<1>1. CASE Resolve(r)
  <2>1. ResolvesOK'
    BY <1>1, ResolvedTypes, AtTypes, FallThroughTypes, AnswerFacts, CredentialFacts
    DEF Resolve, ResolvePlaces
  <2> QED
    BY <1>1, <2>1 DEF Resolve, setting, authServer, callbacks, ServerOK, ConsentOK
<1>2. CASE LoadCached(r)
  <2>1. ResolvesOK'
    BY <1>2, ResolvedTypes, AtTypes, FallThroughTypes, AnswerFacts
    DEF LoadCached, ResolvePlaces, ConsentOK
  <2> QED
    BY <1>2, <2>1 DEF LoadCached, setting, authServer, callbacks, ServerOK, ConsentOK
<1>3. CASE Refresh(r)
  <2>1. cred[r] \in Credential
    BY DEF ResolvesOK
  <2>2. ASSUME NEW timed \in BOOLEAN, Grant(cred[r].rt, timed), Obtained(r, Applied(cred[r], rotates, timed))
        PROVE  ResolvesOK' /\ ServerOK'
    BY <2>1, <2>2, GrantTypes, AppliedTypes, ObtainedTypes DEF Grant, ConsentOK
  <2>3. ASSUME Resolved(r, Outcome("error")), UNCHANGED authServer
        PROVE  ResolvesOK' /\ ServerOK'
    BY <2>3, ResolvedTypes, AnswerFacts DEF authServer, ServerOK
  <2>4. ResolvesOK' /\ ServerOK'
    BY <1>3, <2>2, <2>3 DEF Refresh
  <2> QED
    BY <1>3, <2>4 DEF Refresh, setting, callbacks, ConsentOK
<1>4. CASE Exchange(r)
  <2>1. ASSUME NEW granted \in BOOLEAN, NEW timed \in BOOLEAN, Redeem(RawCode, granted, timed),
               Obtained(r, Applied(Raw, granted, timed))
        PROVE  ResolvesOK' /\ ServerOK'
    BY <2>1, RedeemTypes, AppliedTypes, ObtainedTypes, CredentialFacts DEF Redeem
  <2>2. ASSUME NEW timed \in BOOLEAN, Grant(Raw.rt, timed), Obtained(r, Applied(Raw, rotates, timed))
        PROVE  ResolvesOK' /\ ServerOK'
    BY <2>2, GrantTypes, AppliedTypes, ObtainedTypes, CredentialFacts DEF Grant, ConsentOK
  <2>3. ASSUME Resolved(r, Outcome("error")), UNCHANGED authServer
        PROVE  ResolvesOK' /\ ServerOK'
    BY <2>3, ResolvedTypes, AnswerFacts DEF authServer, ServerOK
  <2>4. ASSUME NEW timed \in BOOLEAN, Issue(timed), Obtained(r, Applied(Raw, FALSE, timed)),
               UNCHANGED <<live, used, expired>>
        PROVE  ResolvesOK' /\ ServerOK'
    BY <2>4, IssueTypes, AppliedTypes, ObtainedTypes, CredentialFacts DEF ServerOK
  <2>5. ResolvesOK' /\ ServerOK'
    BY <1>4, <2>1, <2>2, <2>3, <2>4 DEF Exchange, ExchangeOAuth, ExchangeOther
  <2> QED
    BY <1>4, <2>5 DEF Exchange, setting, callbacks, ConsentOK
<1>5. CASE Save(r)
  <2>1. renewed[r] \in Credential /\ ResolvesOK'
    BY <1>5, ResolvedTypes, AnswerFacts DEF Save, ResolvesOK
  <2> QED
    BY <1>5, <2>1 DEF Save, setting, authServer, callbacks, ServerOK, ConsentOK
<1>6. CASE Cut(r)
  <2>1. cred[r] \in Credential /\ ResolvesOK'
    BY <1>6, ResolvedTypes, AnswerFacts DEF Cut, ResolvesOK
  <2>2. cred[r].rt \in 0 .. MaxTokens
    BY <2>1 DEF Credential
  <2> QED
    BY <1>6, <2>1, <2>2 DEF Cut, setting, authServer, callbacks, ServerOK, ConsentOK
<1> QED
  BY <1>1, <1>2, <1>3, <1>4, <1>5, <1>6

\* The steps of a callback.
LEMMA CallbackTypes ==
    ASSUME CredentialTypeOK, NEW k \in Callback,
           \/ \E c \in Code, s \in Flow \cup {"none"} : Redirected(k, c, s)
           \/ LoadPending(k) \/ ExchangeCode(k) \/ SaveConsented(k) \/ DeletePending(k)
           \/ CutCallback(k)
    PROVE  CredentialTypeOK'
<1> USE TypeParts DEF setting, authServer, resolves, CallbackPlaces
<1>1. ASSUME NEW c \in Code, NEW s \in Flow \cup {"none"}, Redirected(k, c, s) PROVE CredentialTypeOK'
  BY <1>1 DEF Redirected, CallbackAt, ResolvesOK, ServerOK, ConsentOK
<1>2. CASE LoadPending(k)
  BY <1>2 DEF LoadPending, CallbackAt, ResolvesOK, ServerOK, ConsentOK
<1>3. CASE ExchangeCode(k)
  <2>1. code[k] \in Code \cup {RawCode} /\ NoCredential \in Credential
    BY CredentialFacts DEF ConsentOK
  <2>2. ASSUME NEW granted \in BOOLEAN, NEW timed \in BOOLEAN, Redeem(code[k], granted, timed),
               won' = [won EXCEPT ![k] = Applied(NoCredential, granted, timed)],
               CallbackAt(k, "save")
        PROVE  ServerOK' /\ won' \in [Callback -> Credential] /\ cbpc' \in [Callback -> CallbackPlaces]
               /\ \A j \in Callback : cbpc'[j] # "new" => cbpc[j] # "new"
    <3>1. Applied(NoCredential, granted, timed) \in Credential
      BY <2>1, <2>2, AppliedTypes DEF Redeem
    <3> QED
      BY <1>3, <2>1, <2>2, <3>1, RedeemTypes DEF ExchangeCode, CallbackAt, ConsentOK
  <2>3. ASSUME CallbackAt(k, "refused"), UNCHANGED <<won, authServer>>
        PROVE  ServerOK' /\ won' \in [Callback -> Credential] /\ cbpc' \in [Callback -> CallbackPlaces]
               /\ \A j \in Callback : cbpc'[j] # "new" => cbpc[j] # "new"
    BY <1>3, <2>3 DEF ExchangeCode, CallbackAt, ServerOK, ConsentOK
  <2>4. ServerOK' /\ won' \in [Callback -> Credential] /\ cbpc' \in [Callback -> CallbackPlaces]
        /\ \A j \in Callback : cbpc'[j] # "new" => cbpc[j] # "new"
    BY <1>3, <2>2, <2>3 DEF ExchangeCode
  <2> QED
    BY <1>3, <2>4 DEF ExchangeCode, ResolvesOK, ConsentOK
<1>4. CASE SaveConsented(k)
  BY <1>4 DEF SaveConsented, CallbackAt, ResolvesOK, ServerOK, ConsentOK
<1>5. CASE DeletePending(k)
  BY <1>5, CredentialFacts DEF DeletePending, CallbackAt, Forget, ResolvesOK, ServerOK, ConsentOK
<1>6. CASE CutCallback(k)
  BY <1>6, CredentialFacts DEF CutCallback, CallbackAt, Forget, ResolvesOK, ServerOK, ConsentOK
<1> QED
  BY <1>1, <1>2, <1>3, <1>4, <1>5, <1>6

LEMMA CredentialNextTypes == CredentialTypeOK /\ [CredentialNext]_credentialVars => CredentialTypeOK'
<1> SUFFICES ASSUME CredentialTypeOK, [CredentialNext]_credentialVars PROVE CredentialTypeOK'
  OBVIOUS
<1> USE TypeParts
<1>1. ASSUME NEW t \in 1 .. MaxTokens, Expire(t) PROVE CredentialTypeOK'
  BY <1>1 DEF Expire, setting, resolves, callbacks, ResolvesOK, ServerOK, ConsentOK
<1>2. ASSUME NEW f \in Flow, BeginConsent(f) PROVE CredentialTypeOK'
  BY <1>2 DEF BeginConsent, setting, authServer, resolves, ResolvesOK, ServerOK, ConsentOK
<1>3. ASSUME NEW c \in given, Absorb(c) PROVE CredentialTypeOK'
  <2>1. c \in Credential /\ c.rt \in 0 .. MaxTokens
    BY DEF ConsentOK, Credential
  <2> QED
    BY <1>3, <2>1 DEF Absorb, setting, authServer, resolves, callbacks, ResolvesOK, ServerOK, ConsentOK
<1>4. CASE UNCHANGED credentialVars
  BY <1>4 DEF credentialVars, setting, authServer, resolves, callbacks, ResolvesOK, ServerOK, ConsentOK
<1> QED
  BY <1>1, <1>2, <1>3, <1>4, ResolveTypes, CallbackTypes DEF CredentialNext

\* Every state is type correct: a callback past its first step is about a flow that
\* was begun, and a verifier is kept for such flows only (auth/manager.rs:200-330).
THEOREM CredentialTypeCorrect == CredentialSpec => []CredentialTypeOK
BY CredentialInitTypes, CredentialNextTypes, PTL DEF CredentialSpec

-----------------------------------------------------------------------------
(* The credential manager: redirects that failed.                          *)

\* A callback works on a code of its own flow, and has used it once it has a
\* credential for it.
CodeOfFlow ==
    \A k \in Callback :
        /\ cbpc[k] \in {"load", "exchange", "save", "delete"} =>
              code[k] \in Code /\ code[k][1] = flow[k]
        /\ cbpc[k] \in {"save", "delete"} => code[k] \in used

\* A code that was used stays used, and each callback goes its own way.
LEMMA NextCodeOfFlow == CredentialTypeOK /\ CodeOfFlow /\ [CredentialNext]_credentialVars => CodeOfFlow'
<1> SUFFICES ASSUME CredentialTypeOK, CodeOfFlow, [CredentialNext]_credentialVars PROVE CodeOfFlow'
  OBVIOUS
<1>1. ASSUME UNCHANGED <<cbpc, code, flow>>, used \subseteq used' PROVE CodeOfFlow'
  BY <1>1 DEF CodeOfFlow
<1>2. ASSUME NEW r \in Resolver,
             Resolve(r) \/ LoadCached(r) \/ Refresh(r) \/ Exchange(r) \/ Save(r) \/ Cut(r)
      PROVE  CodeOfFlow'
  BY <1>1, <1>2 DEF Resolve, LoadCached, Refresh, Exchange, ExchangeOAuth, ExchangeOther, Save, Cut,
                    Grant, Redeem, authServer, callbacks
<1>3. ASSUME NEW k \in Callback, NEW c \in Code, NEW s \in Flow \cup {"none"}, Redirected(k, c, s)
      PROVE  CodeOfFlow'
  BY <1>3 DEF Redirected, CallbackAt, authServer, CodeOfFlow, CredentialTypeOK
<1>4. ASSUME NEW k \in Callback, LoadPending(k) \/ SaveConsented(k)
      PROVE  CodeOfFlow'
  BY <1>4 DEF LoadPending, SaveConsented, CallbackAt, authServer, CodeOfFlow, CredentialTypeOK
<1>5. ASSUME NEW k \in Callback, DeletePending(k) \/ CutCallback(k)
      PROVE  CodeOfFlow'
  BY <1>5 DEF DeletePending, CutCallback, CallbackAt, Forget, authServer, CodeOfFlow, CredentialTypeOK
<1>6. ASSUME NEW k \in Callback, ExchangeCode(k) PROVE CodeOfFlow'
  BY <1>6 DEF ExchangeCode, Redeem, CallbackAt, authServer, CodeOfFlow, CredentialTypeOK
<1>7. ASSUME NEW t \in 1 .. MaxTokens, Expire(t) PROVE CodeOfFlow'
  BY <1>1, <1>7 DEF Expire, callbacks
<1>8. ASSUME NEW f \in Flow, BeginConsent(f) PROVE CodeOfFlow'
  BY <1>1, <1>8 DEF BeginConsent, authServer
<1>9. ASSUME NEW c \in given, Absorb(c) PROVE CodeOfFlow'
  BY <1>1, <1>9 DEF Absorb, authServer, callbacks
<1>10. CASE UNCHANGED credentialVars
  BY <1>1, <1>10 DEF credentialVars, authServer, callbacks
<1> QED
  BY <1>2, <1>3, <1>4, <1>5, <1>6, <1>7, <1>8, <1>9, <1>10 DEF CredentialNext

\* The verifier of a flow is taken away by the callback that has used a code of it.
LEMMA NextRetry == CredentialTypeOK /\ CodeOfFlow /\ RetryPossible /\ [CredentialNext]_credentialVars => RetryPossible'
<1> SUFFICES ASSUME CredentialTypeOK, CodeOfFlow, RetryPossible, [CredentialNext]_credentialVars PROVE RetryPossible'
  OBVIOUS
<1>1. ASSUME UNCHANGED <<consents, begun>>, used \subseteq used' PROVE RetryPossible'
  BY <1>1 DEF RetryPossible
<1>2. ASSUME NEW r \in Resolver,
             Resolve(r) \/ LoadCached(r) \/ Refresh(r) \/ Exchange(r) \/ Save(r) \/ Cut(r)
      PROVE  RetryPossible'
  BY <1>1, <1>2 DEF Resolve, LoadCached, Refresh, Exchange, ExchangeOAuth, ExchangeOther, Save, Cut,
                    Grant, Redeem, authServer, callbacks
<1>3. ASSUME NEW k \in Callback, DeletePending(k) PROVE RetryPossible'
  <2>1. code[k] \in {c \in Code : c[1] = flow[k]} \cap used
    BY <1>3 DEF DeletePending, CodeOfFlow
  <2>2. consents \ {flow[k]} \subseteq consents' /\ UNCHANGED <<begun, used>>
    BY <1>3 DEF DeletePending, authServer
  <2> QED
    BY <2>1, <2>2 DEF RetryPossible
<1>4. ASSUME NEW k \in Callback,
             \/ \E c \in Code, s \in Flow \cup {"none"} : Redirected(k, c, s)
             \/ LoadPending(k) \/ ExchangeCode(k) \/ SaveConsented(k) \/ CutCallback(k)
      PROVE  RetryPossible'
  BY <1>1, <1>4 DEF Redirected, LoadPending, ExchangeCode, Redeem, SaveConsented, CutCallback, authServer
<1>5. ASSUME NEW t \in 1 .. MaxTokens, Expire(t) PROVE RetryPossible'
  BY <1>1, <1>5 DEF Expire, callbacks
<1>6. ASSUME NEW f \in Flow, BeginConsent(f) PROVE RetryPossible'
  BY <1>6 DEF BeginConsent, authServer, RetryPossible
<1>7. ASSUME NEW c \in given, Absorb(c) PROVE RetryPossible'
  BY <1>1, <1>7 DEF Absorb, authServer, callbacks
<1>8. CASE UNCHANGED credentialVars
  BY <1>1, <1>8 DEF credentialVars, authServer, callbacks
<1> QED
  BY <1>2, <1>3, <1>4, <1>5, <1>6, <1>7, <1>8 DEF CredentialNext

\* As long as none of a flow's codes was used, its verifier is kept, whatever was
\* dropped or failed before: the redirect can be tried again.  It needs that a
\* callback that deletes the verifier has used a code of the same flow (CodeOfFlow).
THEOREM FailedRedirectsCanBeRetried == CredentialSpec => []RetryPossible
<1>1. CredentialInit => CodeOfFlow /\ RetryPossible
  BY DEF CredentialInit, CodeOfFlow, RetryPossible
<1>2. CredentialSpec => []CodeOfFlow
  BY <1>1, NextCodeOfFlow, CredentialTypeCorrect, PTL DEF CredentialSpec
<1> QED
  BY <1>1, <1>2, NextRetry, CredentialTypeCorrect, PTL DEF CredentialSpec

-----------------------------------------------------------------------------
(* The credential manager: the refresh token in the store.                 *)

\* Without a service nothing is stored and nobody is at a step that needs one; an
\* exchange starts from the tool's own credential.
ServiceInv ==
    /\ ~ hasService => /\ store = NoCredential /\ begun = {}
                       /\ \A r \in Resolver : pc[r] \notin {"load", "refresh", "save"}
    /\ \A r \in Resolver : pc[r] = "exchange" => cred[r] = Raw

\* A refresh token that a call has obtained and not stored yet.
Unsaved(x) ==
    /\ x # 0
    /\ \/ \E r \in Resolver : pc[r] = "save" /\ renewed[r].rt = x
       \/ \E k \in Callback : cbpc[k] = "save" /\ won[k].rt = x

\* A refresh token that somebody may present to the server or store once more.
KnownTokens(x) ==
    \/ store.rt = x \/ Raw.rt = x
    \/ \E r \in Resolver : cred[r].rt = x
    \/ \E c \in given : c.rt = x
    \/ \E k \in Callback : cbpc[k] = "delete" /\ won[k].rt = x

\* Every refresh token was issued.
AllIssued == \A x : KnownTokens(x) \/ Unsaved(x) => x \in 0 .. tokens

\* One that is not stored yet is alive.
UnsavedLive == \A x : Unsaved(x) => x \in live

\* If the server replaces refresh tokens, only the call that obtained it has it,
\* so nobody else can have it replaced.
UnsavedOwn ==
    rotates =>
        /\ \A x : Unsaved(x) => ~ KnownTokens(x)
        /\ \A r, q \in Resolver :
              pc[r] = "save" /\ pc[q] = "save" /\ r # q /\ renewed[r].rt # 0 => renewed[r].rt # renewed[q].rt
        /\ \A r \in Resolver, k \in Callback :
              pc[r] = "save" /\ cbpc[k] = "save" /\ renewed[r].rt # 0 => renewed[r].rt # won[k].rt
        /\ \A j, k \in Callback :
              cbpc[j] = "save" /\ cbpc[k] = "save" /\ j # k /\ won[j].rt # 0 => won[j].rt # won[k].rt

TokenInv == AllIssued /\ UnsavedLive /\ UnsavedOwn

\* A step in which the server issues nothing: no call obtains a credential, and one
\* that becomes known has left the hands of the call that had it.
LEMMA QuietTokens ==
    ASSUME CredentialTypeOK, TokenInv, UNCHANGED <<rotates, live, tokens>>,
           \A r \in Resolver : pc'[r] = "save" => pc[r] = "save" /\ renewed'[r] = renewed[r],
           \A k \in Callback : cbpc'[k] = "save" => cbpc[k] = "save" /\ won'[k] = won[k],
           \A x : KnownTokens(x)' => \/ KnownTokens(x) \/ x = 0
                                     \/ Unsaved(x) /\ (rotates => ~ Unsaved(x)')
    PROVE  TokenInv'
<1>1. \A x : Unsaved(x)' => Unsaved(x)
  BY DEF Unsaved
<1>2. AllIssued'
  <2>1. 0 \in 0 .. tokens
    BY DEF CredentialTypeOK
  <2> QED
    BY <1>1, <2>1 DEF TokenInv, AllIssued
<1>3. UnsavedLive'
  BY <1>1 DEF TokenInv, UnsavedLive
<1>4. UnsavedOwn'
  <2>1. rotates => \A x : Unsaved(x)' => ~ KnownTokens(x)'
    BY <1>1 DEF TokenInv, UnsavedOwn, Unsaved
  <2> QED
    BY <2>1 DEF TokenInv, UnsavedOwn
<1> QED
  BY <1>2, <1>3, <1>4 DEF TokenInv

\* A step in which the server issues a token to one resolve or one callback.  Only a
\* known refresh token dies, and only if the server replaces them.
LEMMA IssuedTokens ==
    ASSUME CredentialTypeOK, TokenInv, UNCHANGED <<kind, rotates>>, tokens' = tokens + 1,
           \A x \in live : x \in live' \/ (rotates /\ KnownTokens(x)),
           \A x : KnownTokens(x)' => KnownTokens(x) \/ x = 0,
           NEW v, v \in {0, tokens + 1} \/ ~ rotates, v # 0 => v \in live' /\ v \in 0 .. tokens + 1,
           \/ \E r \in Resolver :
                 /\ \A q \in Resolver : pc'[q] = "save" =>
                       IF q = r THEN renewed'[q].rt = v ELSE pc[q] = "save" /\ renewed'[q] = renewed[q]
                 /\ \A k \in Callback : cbpc'[k] = "save" => cbpc[k] = "save" /\ won'[k] = won[k]
           \/ \E j \in Callback :
                 /\ \A k \in Callback : cbpc'[k] = "save" =>
                       IF k = j THEN won'[k].rt = v ELSE cbpc[k] = "save" /\ won'[k] = won[k]
                 /\ \A q \in Resolver : pc'[q] = "save" => pc[q] = "save" /\ renewed'[q] = renewed[q]
    PROVE  TokenInv'
<1>1. \A x : Unsaved(x)' => Unsaved(x) \/ (x = v /\ v # 0)
  BY DEF Unsaved
<1>2. tokens \in Nat /\ tokens' \in Nat
  BY DEF CredentialTypeOK
<1>3. \A x : KnownTokens(x) \/ Unsaved(x) => x \in 0 .. tokens /\ x # tokens + 1
  BY <1>2 DEF TokenInv, AllIssued
<1>4. AllIssued'
  <2>1. \A x : KnownTokens(x)' => x \in 0 .. tokens
    BY <1>2, <1>3
  <2>2. \A x : Unsaved(x)' => x \in 0 .. tokens + 1
    BY <1>1, <1>2, <1>3
  <2> QED
    BY <1>2, <2>1, <2>2 DEF AllIssued
<1>5. UnsavedLive'
  BY <1>1 DEF TokenInv, UnsavedLive, UnsavedOwn
<1>6. UnsavedOwn'
  <2> SUFFICES ASSUME rotates PROVE UnsavedOwn'
    BY DEF UnsavedOwn
  <2>1. \A x : Unsaved(x)' => ~ KnownTokens(x)'
    <3>1. \A x : Unsaved(x) => ~ KnownTokens(x) /\ x # 0
      BY DEF TokenInv, UnsavedOwn, Unsaved
    <3>2. v # 0 => ~ KnownTokens(v)
      BY <1>3
    <3> QED
      BY <1>1, <3>1, <3>2
  <2>2. v # 0 => /\ \A q \in Resolver : pc[q] = "save" => renewed[q].rt # v
                 /\ \A k \in Callback : cbpc[k] = "save" => won[k].rt # v
    BY <1>2, <1>3 DEF Unsaved
  <2>3. CASE \E r \in Resolver :
                 /\ \A q \in Resolver : pc'[q] = "save" =>
                       IF q = r THEN renewed'[q].rt = v ELSE pc[q] = "save" /\ renewed'[q] = renewed[q]
                 /\ \A k \in Callback : cbpc'[k] = "save" => cbpc[k] = "save" /\ won'[k] = won[k]
    BY <2>1, <2>2, <2>3 DEF TokenInv, UnsavedOwn
  <2>4. CASE \E j \in Callback :
                 /\ \A k \in Callback : cbpc'[k] = "save" =>
                       IF k = j THEN won'[k].rt = v ELSE cbpc[k] = "save" /\ won'[k] = won[k]
                 /\ \A q \in Resolver : pc'[q] = "save" => pc[q] = "save" /\ renewed'[q] = renewed[q]
    BY <2>1, <2>2, <2>4 DEF TokenInv, UnsavedOwn
  <2> QED
    BY <2>3, <2>4
<1> QED
  BY <1>4, <1>5, <1>6 DEF TokenInv

\* The credential of the configuration stays, and so does the service.
LEMMA SameRaw == UNCHANGED setting => Raw' = Raw
BY DEF setting, Raw, NoCredential

LEMMA NextService == CredentialTypeOK /\ ServiceInv /\ [CredentialNext]_credentialVars => ServiceInv'
<1> SUFFICES ASSUME CredentialTypeOK, ServiceInv, [CredentialNext]_credentialVars PROVE ServiceInv'
  OBVIOUS
<1>1. ASSUME UNCHANGED <<setting, begun>>, ~ hasService => UNCHANGED store,
             \A q \in Resolver :
                \/ pc'[q] = pc[q] /\ cred'[q] = cred[q]
                \/ /\ pc'[q] \in {"load", "refresh", "save"} => hasService
                   /\ pc'[q] = "exchange" => cred'[q] = Raw
      PROVE  ServiceInv'
  BY <1>1, SameRaw DEF ServiceInv, setting
<1>2. ASSUME NEW r \in Resolver, Resolve(r) PROVE ServiceInv'
  BY <1>1, <1>2 DEF Resolve, FallThrough, At, Resolved, callbacks, CredentialTypeOK
<1>3. ASSUME NEW r \in Resolver, LoadCached(r) PROVE ServiceInv'
  <2>1. hasService
    BY <1>3 DEF LoadCached, ServiceInv
  <2> QED
    BY <1>1, <1>3, <2>1 DEF LoadCached, FallThrough, At, Resolved, callbacks, CredentialTypeOK
<1>4. ASSUME NEW r \in Resolver, Refresh(r) \/ Exchange(r) PROVE ServiceInv'
  <2>1. \/ \E c : Obtained(r, c)
        \/ Resolved(r, Outcome("error"))
    BY <1>4 DEF Refresh, Exchange, ExchangeOAuth, ExchangeOther
  <2>2. UNCHANGED <<setting, store, begun>>
    BY <1>4 DEF Refresh, Exchange, callbacks
  <2> QED
    BY <1>1, <2>1, <2>2 DEF Obtained, Resolved, CredentialTypeOK
<1>5. ASSUME NEW r \in Resolver, Save(r) PROVE ServiceInv'
  <2>1. hasService
    BY <1>5 DEF Save, ServiceInv
  <2> QED
    BY <1>1, <1>5, <2>1 DEF Save, Resolved, callbacks, CredentialTypeOK
<1>6. ASSUME NEW r \in Resolver, Cut(r) PROVE ServiceInv'
  BY <1>1, <1>6 DEF Cut, Resolved, callbacks, CredentialTypeOK
<1>7. ASSUME NEW k \in Callback, SaveConsented(k) PROVE ServiceInv'
  <2>1. hasService
    BY <1>7 DEF SaveConsented, ServiceInv, CredentialTypeOK
  <2> QED
    BY <1>7, <2>1, SameRaw DEF SaveConsented, ServiceInv, setting, resolves
<1>8. ASSUME NEW k \in Callback,
             \/ \E c \in Code, s \in Flow \cup {"none"} : Redirected(k, c, s)
             \/ LoadPending(k) \/ ExchangeCode(k) \/ DeletePending(k) \/ CutCallback(k)
      PROVE  ServiceInv'
  BY <1>8, SameRaw DEF Redirected, LoadPending, ExchangeCode, DeletePending, CutCallback,
                       ServiceInv, setting, resolves
<1>9. ASSUME NEW t \in 1 .. MaxTokens, Expire(t) PROVE ServiceInv'
  BY <1>9, SameRaw DEF Expire, ServiceInv, setting, resolves, callbacks
<1>10. ASSUME NEW f \in Flow, BeginConsent(f) PROVE ServiceInv'
  BY <1>10, SameRaw DEF BeginConsent, ServiceInv, setting, resolves
<1>11. ASSUME NEW c \in given, Absorb(c) PROVE ServiceInv'
  BY <1>11, SameRaw DEF Absorb, ServiceInv, setting, resolves, callbacks
<1>12. CASE UNCHANGED credentialVars
  BY <1>12, SameRaw DEF credentialVars, ServiceInv, setting, resolves, callbacks
<1> QED
  BY <1>2, <1>3, <1>4, <1>5, <1>6, <1>7, <1>8, <1>9, <1>10, <1>11, <1>12 DEF CredentialNext

\* A call of resolve goes on or returns, and takes up at most a credential that was
\* known to begin with.
LEMMA QuietResolve ==
    ASSUME CredentialTypeOK, TokenInv, NEW r \in Resolver,
           UNCHANGED <<setting, store, authServer, callbacks>>,
           \/ \E a : Resolved(r, a)
           \/ \E place \in {"load", "refresh", "exchange"}, c \in {NoCredential, store, Raw} :
                 At(r, place, c)
    PROVE  TokenInv'
<1>1. Raw' = Raw
  BY SameRaw
<1>2. \A q \in Resolver : pc'[q] = "save" => pc[q] = "save" /\ renewed'[q] = renewed[q]
  BY DEF Resolved, At, CredentialTypeOK
<1>3. \A q \in Resolver : cred'[q] = cred[q] \/ cred'[q] \in {NoCredential, store, Raw}
  BY DEF Resolved, At, CredentialTypeOK
<1>4. UNCHANGED <<rotates, live, tokens, store, given, cbpc, won>>
  BY DEF setting, authServer, callbacks
<1>5. \A x : KnownTokens(x)' => KnownTokens(x) \/ x = 0
  BY <1>1, <1>3, <1>4, CredentialFacts DEF KnownTokens
<1> QED
  BY <1>2, <1>4, <1>5, QuietTokens

\* A resolve that gets a credential from the server: what it holds afterwards is
\* new, or what it had and is still alive.
LEMMA IssuedResolve ==
    ASSUME CredentialTypeOK, TokenInv, NEW r \in Resolver, UNCHANGED <<setting, store, callbacks>>,
           tokens' = tokens + 1, NEW c, Obtained(r, c),
           \A x \in live : x \in live' \/ (rotates /\ KnownTokens(x)),
           c.rt \in {0, tokens + 1} \/ ~ rotates,
           c.rt # 0 => c.rt \in live' /\ c.rt \in 0 .. tokens + 1
    PROVE  TokenInv'
<1>1. Raw' = Raw /\ UNCHANGED <<kind, rotates, store, given, cbpc, won>>
  BY SameRaw DEF setting, callbacks
<1>2. \A q \in Resolver : cred'[q] = cred[q] \/ cred'[q] = NoCredential
  BY DEF Obtained, Resolved, CredentialTypeOK
<1>3. \A x : KnownTokens(x)' => KnownTokens(x) \/ x = 0
  BY <1>1, <1>2, CredentialFacts DEF KnownTokens
<1>4. \A q \in Resolver : pc'[q] = "save" =>
          IF q = r THEN renewed'[q].rt = c.rt ELSE pc[q] = "save" /\ renewed'[q] = renewed[q]
  BY DEF Obtained, Resolved, CredentialTypeOK
<1> QED
  BY <1>1, <1>3, <1>4, IssuedTokens

LEMMA RefreshTokens ==
    ASSUME CredentialTypeOK, ServiceInv, TokenInv, NEW r \in Resolver, Refresh(r)
    PROVE  TokenInv'
<1>1. ServerOK /\ cred[r] \in Credential /\ UNCHANGED <<setting, store, callbacks>> /\ rotates \in BOOLEAN
  BY TypeParts DEF Refresh, ResolvesOK, ConsentOK
<1>2. ASSUME NEW timed \in BOOLEAN, cred[r].rt \in live, Grant(cred[r].rt, timed),
             Obtained(r, Applied(cred[r], rotates, timed))
      PROVE  TokenInv'
  <2> DEFINE c == Applied(cred[r], rotates, timed)
  <2>1. Issue(timed) /\ tokens' = tokens + 1
    BY <1>2 DEF Grant, Issue
  <2>2. c.rt = IF rotates THEN tokens + 1 ELSE cred[r].rt
    BY <1>1, <2>1, AppliedTypes
  <2>3. KnownTokens(cred[r].rt) /\ cred[r].rt \in 0 .. tokens /\ tokens \in Nat
    BY DEF KnownTokens, TokenInv, AllIssued, CredentialTypeOK
  <2>4. \A x \in live : x \in live' \/ (rotates /\ KnownTokens(x))
    BY <1>2, <2>3 DEF Grant
  <2>5. c.rt \in live' /\ c.rt \in 0 .. tokens + 1
    BY <1>2, <2>2, <2>3 DEF Grant
  <2> HIDE DEF c
  <2>6. Obtained(r, c)
    BY <1>2 DEF c
  <2> QED
    BY <1>1, <2>1, <2>2, <2>4, <2>5, <2>6, IssuedResolve
<1>3. ASSUME Resolved(r, Outcome("error")), UNCHANGED authServer PROVE TokenInv'
  BY <1>1, <1>3, QuietResolve
<1> QED
  BY <1>2, <1>3 DEF Refresh

LEMMA ExchangeTokens ==
    ASSUME CredentialTypeOK, ServiceInv, TokenInv, NEW r \in Resolver, Exchange(r)
    PROVE  TokenInv'
<1>1. ServerOK /\ UNCHANGED <<setting, store, callbacks>> /\ rotates \in BOOLEAN /\ tokens \in Nat
  BY TypeParts DEF Exchange, ServerOK, ConsentOK
<1>2. ASSUME NEW granted \in BOOLEAN, NEW timed \in BOOLEAN, kind = "code",
             Redeem(RawCode, granted, timed), Obtained(r, Applied(Raw, granted, timed))
      PROVE  TokenInv'
  <2> DEFINE c == Applied(Raw, granted, timed)
  <2>1. Issue(timed) /\ tokens' = tokens + 1
    BY <1>2 DEF Redeem, Issue
  <2>2. c.rt = IF granted THEN tokens + 1 ELSE 0
    BY <1>1, <1>2, <2>1, AppliedTypes, CredentialFacts
  <2>3. \A x \in live : x \in live'
    BY <1>2 DEF Redeem
  <2>4. c.rt # 0 => c.rt \in live' /\ c.rt \in 0 .. tokens + 1
    BY <1>1, <1>2, <2>2 DEF Redeem
  <2> HIDE DEF c
  <2>5. Obtained(r, c)
    BY <1>2 DEF c
  <2> QED
    BY <1>1, <2>1, <2>2, <2>3, <2>4, <2>5, IssuedResolve
<1>3. ASSUME NEW timed \in BOOLEAN, kind = "token", Raw.rt \in live, Grant(Raw.rt, timed),
             Obtained(r, Applied(Raw, rotates, timed))
      PROVE  TokenInv'
  <2> DEFINE c == Applied(Raw, rotates, timed)
  <2>1. Issue(timed) /\ tokens' = tokens + 1
    BY <1>3 DEF Grant, Issue
  <2>2. c.rt = IF rotates THEN tokens + 1 ELSE Raw.rt
    BY <1>1, <2>1, AppliedTypes, CredentialFacts
  <2>3. KnownTokens(Raw.rt) /\ Raw.rt \in 0 .. tokens
    BY DEF KnownTokens, TokenInv, AllIssued
  <2>4. \A x \in live : x \in live' \/ (rotates /\ KnownTokens(x))
    BY <1>3, <2>3 DEF Grant
  <2>5. c.rt \in live' /\ c.rt \in 0 .. tokens + 1
    BY <1>1, <1>3, <2>2, <2>3 DEF Grant
  <2> HIDE DEF c
  <2>6. Obtained(r, c)
    BY <1>3 DEF c
  <2> QED
    BY <1>1, <2>1, <2>2, <2>4, <2>5, <2>6, IssuedResolve
<1>4. ASSUME NEW timed \in BOOLEAN, kind \in {"service", "custom"}, Issue(timed),
             Obtained(r, Applied(Raw, FALSE, timed)), UNCHANGED <<live, used, expired>>
      PROVE  TokenInv'
  <2> DEFINE c == Applied(Raw, FALSE, timed)
  <2>1. tokens' = tokens + 1
    BY <1>4 DEF Issue
  <2>2. c.rt = 0
    BY <1>1, <1>4, AppliedTypes, CredentialFacts
  <2> HIDE DEF c
  <2>3. Obtained(r, c)
    BY <1>4 DEF c
  <2> QED
    BY <1>1, <1>4, <2>1, <2>2, <2>3, IssuedResolve
<1>5. ASSUME Resolved(r, Outcome("error")), UNCHANGED authServer PROVE TokenInv'
  BY <1>1, <1>5, QuietResolve
<1> QED
  BY <1>2, <1>3, <1>4, <1>5 DEF Exchange, ExchangeOAuth, ExchangeOther

\* The callbacks: what ExchangeCode gets is stored by SaveConsented, and given to
\* the application when the callback is done.
LEMMA CallbackTokens ==
    ASSUME CredentialTypeOK, TokenInv, NEW k \in Callback,
           \/ \E c \in Code, s \in Flow \cup {"none"} : Redirected(k, c, s)
           \/ LoadPending(k) \/ ExchangeCode(k) \/ SaveConsented(k) \/ DeletePending(k) \/ CutCallback(k)
    PROVE  TokenInv'
<1>1. Raw' = Raw /\ UNCHANGED <<kind, rotates, pc, cred, renewed>>
  BY SameRaw DEF setting, resolves, Redirected, LoadPending, ExchangeCode, SaveConsented,
                 DeletePending, CutCallback
<1>2. ASSUME \/ \E c \in Code, s \in Flow \cup {"none"} : Redirected(k, c, s)
             \/ LoadPending(k) \/ DeletePending(k) \/ CutCallback(k)
      PROVE  TokenInv'
  <2>1. UNCHANGED <<store, live, tokens>>
    BY <1>2 DEF authServer, Redirected, LoadPending, DeletePending, CutCallback
  <2>2. \A j \in Callback : cbpc'[j] = "save" => cbpc[j] = "save" /\ won'[j] = won[j]
    BY <1>2 DEF Redirected, LoadPending, DeletePending, CutCallback, CallbackAt, Forget, CredentialTypeOK
  <2>3. \A j \in Callback : cbpc'[j] = "delete" => cbpc[j] = "delete" /\ won'[j] = won[j]
    BY <1>2 DEF Redirected, LoadPending, DeletePending, CutCallback, CallbackAt, Forget, CredentialTypeOK
  <2>4. \A c \in given' : c \in given \/ (cbpc[k] = "delete" /\ c = won[k])
    BY <1>2 DEF Redirected, LoadPending, DeletePending, CutCallback
  <2>5. \A x : KnownTokens(x)' => KnownTokens(x)
    BY <1>1, <2>1, <2>3, <2>4 DEF KnownTokens
  <2> QED
    BY <1>1, <2>1, <2>2, <2>5, QuietTokens
<1>3. CASE SaveConsented(k)
  <2>1. UNCHANGED <<live, tokens, won, given>> /\ store' = won[k] /\ cbpc[k] = "save"
    BY <1>3 DEF SaveConsented, authServer
  <2>2. \A j \in Callback : cbpc'[j] = IF j = k THEN "delete" ELSE cbpc[j]
    BY <1>3 DEF SaveConsented, CallbackAt, CredentialTypeOK
  <2>3. \A x : KnownTokens(x)' => KnownTokens(x) \/ x = won[k].rt
    BY <1>1, <2>1, <2>2 DEF KnownTokens
  <2>4. won[k].rt # 0 => Unsaved(won[k].rt)
    BY <2>1 DEF Unsaved
  <2>5. won[k].rt # 0 /\ rotates => ~ Unsaved(won[k].rt)'
    BY <1>1, <2>1, <2>2 DEF Unsaved, TokenInv, UnsavedOwn
  <2> QED
    BY <1>1, <2>1, <2>2, <2>3, <2>4, <2>5, QuietTokens
<1>4. CASE ExchangeCode(k)
  <2>1. ASSUME NEW granted \in BOOLEAN, NEW timed \in BOOLEAN, Redeem(code[k], granted, timed),
               won' = [won EXCEPT ![k] = Applied(NoCredential, granted, timed)],
               CallbackAt(k, "save")
        PROVE  TokenInv'
    <3> DEFINE v == IF granted THEN tokens + 1 ELSE 0
    <3>1. Issue(timed) /\ tokens' = tokens + 1 /\ tokens \in Nat
      BY <2>1 DEF Redeem, Issue, CredentialTypeOK
    <3>2. Applied(NoCredential, granted, timed).rt = v
      BY <3>1, TypeParts, AppliedTypes, CredentialFacts
    <3>3. \A j \in Callback : cbpc'[j] = IF j = k THEN "save" ELSE cbpc[j]
      BY <2>1 DEF CallbackAt, CredentialTypeOK
    <3>4. \A j \in Callback : IF j = k THEN won'[j].rt = v ELSE won'[j] = won[j]
      BY <2>1, <3>2 DEF CredentialTypeOK
    <3>5. UNCHANGED <<store, given>>
      BY <1>4 DEF ExchangeCode
    <3>6. \A x : KnownTokens(x)' => KnownTokens(x)
      BY <1>1, <3>3, <3>4, <3>5 DEF KnownTokens
    <3>7. \A x \in live : x \in live'
      BY <2>1 DEF Redeem
    <3>8. v # 0 => v \in live' /\ v \in 0 .. tokens + 1
      BY <2>1, <3>1 DEF Redeem
    <3>9. v \in {0, tokens + 1}
      OBVIOUS
    <3> HIDE DEF v
    <3> QED
      BY <1>1, <3>1, <3>3, <3>4, <3>6, <3>7, <3>8, <3>9, IssuedTokens
  <2>2. ASSUME CallbackAt(k, "refused"), UNCHANGED <<won, authServer>> PROVE TokenInv'
    <3>1. UNCHANGED <<live, tokens, store, given>>
      BY <1>4, <2>2 DEF ExchangeCode, authServer
    <3>2. \A j \in Callback : cbpc'[j] \in {cbpc[j], "refused"}
      BY <2>2 DEF CallbackAt, CredentialTypeOK
    <3>3. \A x : KnownTokens(x)' => KnownTokens(x)
      BY <1>1, <2>2, <3>1, <3>2 DEF KnownTokens
    <3> QED
      BY <1>1, <2>2, <3>1, <3>2, <3>3, QuietTokens
  <2> QED
    BY <1>4, <2>1, <2>2 DEF ExchangeCode
<1> QED
  BY <1>2, <1>3, <1>4

\* Every step: what a call holds and nobody else is alive.
LEMMA NextTokens == CredentialTypeOK /\ ServiceInv /\ TokenInv /\ [CredentialNext]_credentialVars => TokenInv'
<1> SUFFICES ASSUME CredentialTypeOK, ServiceInv, TokenInv, [CredentialNext]_credentialVars PROVE TokenInv'
  OBVIOUS
<1>1. ASSUME NEW r \in Resolver, Resolve(r) \/ LoadCached(r) PROVE TokenInv'
  <2>1. UNCHANGED <<setting, store, authServer, callbacks>>
    BY <1>1 DEF Resolve, LoadCached
  <2>2. \/ \E a : Resolved(r, a)
        \/ \E place \in {"load", "refresh", "exchange"}, c \in {NoCredential, store, Raw} :
              At(r, place, c)
    BY <1>1 DEF Resolve, LoadCached, FallThrough
  <2> QED
    BY <2>1, <2>2, QuietResolve
<1>2. ASSUME NEW r \in Resolver, Cut(r) PROVE TokenInv'
  BY <1>2, QuietResolve DEF Cut
<1>3. ASSUME NEW r \in Resolver, Save(r) PROVE TokenInv'
  <2>1. /\ Raw' = Raw /\ store' = renewed[r] /\ pc[r] = "save"
        /\ UNCHANGED <<rotates, live, tokens, given, cbpc, won>>
    BY <1>3, SameRaw DEF Save, setting, authServer, callbacks
  <2>2. \A q \in Resolver : pc'[q] = (IF q = r THEN "idle" ELSE pc[q])
    BY <1>3 DEF Save, Resolved, CredentialTypeOK
  <2>3. \A q \in Resolver : IF q = r THEN cred'[q] = NoCredential ELSE cred'[q] = cred[q] /\ renewed'[q] = renewed[q]
    BY <1>3 DEF Save, Resolved, CredentialTypeOK
  <2>4. \A x : KnownTokens(x)' => KnownTokens(x) \/ x = 0 \/ x = renewed[r].rt
    BY <2>1, <2>3, CredentialFacts DEF KnownTokens
  <2>5. renewed[r].rt # 0 => Unsaved(renewed[r].rt)
    BY <2>1 DEF Unsaved
  <2>6. ASSUME NEW x, x = renewed[r].rt, x # 0, rotates PROVE ~ Unsaved(x)'
    <3>1. \A q \in Resolver : pc'[q] = "save" => renewed'[q].rt # x
      BY <2>1, <2>2, <2>3, <2>6 DEF TokenInv, UnsavedOwn
    <3>2. \A k \in Callback : cbpc'[k] = "save" => won'[k].rt # x
      BY <2>1, <2>6 DEF TokenInv, UnsavedOwn
    <3> QED
      BY <3>1, <3>2 DEF Unsaved
  <2>7. \A q \in Resolver : pc'[q] = "save" => pc[q] = "save" /\ renewed'[q] = renewed[q]
    BY <2>2, <2>3
  <2> QED
    BY <2>1, <2>4, <2>5, <2>6, <2>7, QuietTokens
<1>4. ASSUME NEW r \in Resolver, Refresh(r) \/ Exchange(r) PROVE TokenInv'
  BY <1>4, RefreshTokens, ExchangeTokens
<1>5. ASSUME NEW k \in Callback,
             \/ \E c \in Code, s \in Flow \cup {"none"} : Redirected(k, c, s)
             \/ LoadPending(k) \/ ExchangeCode(k) \/ SaveConsented(k) \/ DeletePending(k) \/ CutCallback(k)
      PROVE  TokenInv'
  BY <1>5, CallbackTokens
<1>6. ASSUME UNCHANGED <<setting, live, tokens, pc, cred, renewed, cbpc, won, given>>,
             store' = store \/ store' \in given
      PROVE  TokenInv'
  <2>1. \A x : KnownTokens(x)' => KnownTokens(x)
    BY <1>6, SameRaw DEF KnownTokens
  <2> QED
    BY <1>6, <2>1, QuietTokens DEF setting
<1>7. ASSUME NEW t \in 1 .. MaxTokens, Expire(t) PROVE TokenInv'
  BY <1>6, <1>7 DEF Expire, resolves, callbacks
<1>8. ASSUME NEW f \in Flow, BeginConsent(f) PROVE TokenInv'
  BY <1>6, <1>8 DEF BeginConsent, authServer, resolves
<1>9. ASSUME NEW c \in given, Absorb(c) PROVE TokenInv'
  BY <1>6, <1>9 DEF Absorb, authServer, resolves, callbacks
<1>10. CASE UNCHANGED credentialVars
  BY <1>6, <1>10 DEF credentialVars, authServer, resolves, callbacks
<1> QED
  BY <1>1, <1>2, <1>3, <1>4, <1>5, <1>7, <1>8, <1>9, <1>10 DEF CredentialNext

LEMMA InitTokens == CredentialInit => ServiceInv /\ TokenInv
<1> SUFFICES ASSUME CredentialInit PROVE ServiceInv /\ TokenInv
  OBVIOUS
<1>1. ServiceInv
  BY DEF CredentialInit, ServiceInv
<1>2. \A x : ~ Unsaved(x)
  BY DEF CredentialInit, Unsaved
<1>3. \A x : KnownTokens(x) => x = 0 \/ x = Raw.rt
  BY CredentialFacts DEF CredentialInit, KnownTokens
<1>4. 0 \in 0 .. tokens /\ Raw.rt \in 0 .. tokens
  BY CredentialFacts DEF CredentialInit
<1>5. \A r \in Resolver : pc[r] # "save"
  BY DEF CredentialInit
<1>6. \A k \in Callback : cbpc[k] # "save"
  BY DEF CredentialInit
<1> QED
  BY <1>1, <1>2, <1>3, <1>4, <1>5, <1>6 DEF TokenInv, AllIssued, UnsavedLive, UnsavedOwn

\* The refresh tokens about to be replaced by a call that stores what it obtained.
InHand == {cred[r].rt : r \in {q \in Resolver : pc[q] = "save"}}

\* What becomes of the stored refresh token in a step that leaves the store alone.
LEMMA StaysStored ==
    ASSUME StoredRefreshTokenLives, UNCHANGED store,
           store.rt # 0 /\ store.rt \in live => store.rt \in live' \cup InHand',
           excused \subseteq excused',
           store.rt # 0 /\ store.rt \in InHand => store.rt \in InHand' \cup excused'
    PROVE  StoredRefreshTokenLives'
BY DEF StoredRefreshTokenLives, InHand

\* A resolve that obtains a credential from the server keeps the refresh token it
\* used in hand, where there is a store.
LEMMA ObtainedInHand ==
    ASSUME CredentialTypeOK, ServiceInv, NEW r \in Resolver, NEW c, Obtained(r, c), pc[r] # "save"
    PROVE  InHand \subseteq InHand' /\ (hasService => cred[r].rt \in InHand')
<1>1. \A q \in Resolver : pc[q] = "save" => pc'[q] = "save" /\ cred'[q] = cred[q]
  BY DEF Obtained, Resolved, CredentialTypeOK
<1>2. hasService => pc'[r] = "save" /\ cred'[r] = cred[r]
  BY DEF Obtained, CredentialTypeOK
<1> QED
  BY <1>1, <1>2 DEF InHand

LEMMA NextStored ==
    CredentialTypeOK /\ ServiceInv /\ TokenInv /\ StoredRefreshTokenLives /\ [CredentialNext]_credentialVars
        => StoredRefreshTokenLives'
<1> SUFFICES ASSUME CredentialTypeOK, ServiceInv, TokenInv, StoredRefreshTokenLives, [CredentialNext]_credentialVars
             PROVE  StoredRefreshTokenLives'
  OBVIOUS
<1>1. ASSUME NEW r \in Resolver, Resolve(r) \/ LoadCached(r) PROVE StoredRefreshTokenLives'
  <2>1. UNCHANGED <<store, live, excused>>
    BY <1>1 DEF Resolve, LoadCached, authServer
  <2>2. \A q \in Resolver : pc[q] = "save" => pc'[q] = "save" /\ cred'[q] = cred[q]
    BY <1>1 DEF Resolve, LoadCached, FallThrough, Resolved, At, CredentialTypeOK
  <2>3. InHand \subseteq InHand'
    BY <2>2 DEF InHand
  <2> QED
    BY <2>1, <2>3, StaysStored
<1>2. ASSUME NEW r \in Resolver, Refresh(r) PROVE StoredRefreshTokenLives'
  <2>1. hasService /\ UNCHANGED <<store, excused>> /\ pc[r] = "refresh"
    BY <1>2 DEF Refresh, ServiceInv
  <2>2. ASSUME NEW timed \in BOOLEAN, Grant(cred[r].rt, timed), NEW c, Obtained(r, c)
        PROVE  StoredRefreshTokenLives'
    <3>1. InHand \subseteq InHand' /\ cred[r].rt \in InHand'
      BY <2>1, <2>2, ObtainedInHand
    <3>2. \A x \in live : x \in live' \/ x = cred[r].rt
      BY <2>2 DEF Grant
    <3> QED
      BY <2>1, <3>1, <3>2, StaysStored
  <2>3. ASSUME Resolved(r, Outcome("error")), UNCHANGED authServer PROVE StoredRefreshTokenLives'
    <3>1. \A q \in Resolver : pc[q] = "save" => pc'[q] = "save" /\ cred'[q] = cred[q]
      BY <2>1, <2>3 DEF Resolved, CredentialTypeOK
    <3>2. InHand \subseteq InHand'
      BY <3>1 DEF InHand
    <3> QED
      BY <2>1, <2>3, <3>2, StaysStored DEF authServer
  <2> QED
    BY <1>2, <2>2, <2>3 DEF Refresh
<1>3. ASSUME NEW r \in Resolver, Exchange(r) PROVE StoredRefreshTokenLives'
  <2>1. /\ UNCHANGED <<store, excused>> /\ pc[r] = "exchange" /\ cred[r] = Raw
        /\ ~ hasService => store.rt = 0
    BY <1>3, CredentialFacts DEF Exchange, ServiceInv
  <2>2. ASSUME NEW c, Obtained(r, c), \A x \in live : x \in live' \/ x = Raw.rt
        PROVE  StoredRefreshTokenLives'
    <3>1. InHand \subseteq InHand' /\ (hasService => Raw.rt \in InHand')
      BY <2>1, <2>2, ObtainedInHand
    <3> QED
      BY <2>1, <2>2, <3>1, StaysStored
  <2>3. ASSUME Resolved(r, Outcome("error")), UNCHANGED authServer PROVE StoredRefreshTokenLives'
    <3>1. \A q \in Resolver : pc[q] = "save" => pc'[q] = "save" /\ cred'[q] = cred[q]
      BY <2>1, <2>3 DEF Resolved, CredentialTypeOK
    <3>2. InHand \subseteq InHand'
      BY <3>1 DEF InHand
    <3> QED
      BY <2>1, <2>3, <3>2, StaysStored DEF authServer
  <2>4. \/ (\E c : Obtained(r, c)) /\ \A x \in live : x \in live' \/ x = Raw.rt
        \/ Resolved(r, Outcome("error")) /\ UNCHANGED authServer
    BY <1>3 DEF Exchange, ExchangeOAuth, ExchangeOther, Redeem, Grant
  <2> QED
    BY <2>2, <2>3, <2>4
<1>4. ASSUME NEW r \in Resolver, Save(r) PROVE StoredRefreshTokenLives'
  <2>1. renewed[r].rt # 0 => renewed[r].rt \in live
    BY <1>4 DEF Save, TokenInv, UnsavedLive, Unsaved
  <2> QED
    BY <1>4, <2>1 DEF Save, authServer, StoredRefreshTokenLives
<1>5. ASSUME NEW r \in Resolver, Cut(r) PROVE StoredRefreshTokenLives'
  <2>1. UNCHANGED <<store, live>> /\ excused \subseteq excused'
    BY <1>5 DEF Cut, authServer
  <2>2. \A q \in Resolver : pc[q] = "save" =>
            (q # r /\ pc'[q] = "save" /\ cred'[q] = cred[q]) \/ cred[q].rt \in excused'
    BY <1>5 DEF Cut, Resolved, CredentialTypeOK
  <2>3. \A x \in InHand : x \in InHand' \cup excused'
    BY <2>2 DEF InHand
  <2> QED
    BY <2>1, <2>3, StaysStored
<1>6. ASSUME UNCHANGED <<store, pc, cred, excused>>, live \subseteq live'
      PROVE  StoredRefreshTokenLives'
  BY <1>6 DEF StoredRefreshTokenLives
<1>7. ASSUME NEW k \in Callback, SaveConsented(k) PROVE StoredRefreshTokenLives'
  <2>1. won[k].rt # 0 => won[k].rt \in live
    BY <1>7 DEF SaveConsented, TokenInv, UnsavedLive, Unsaved
  <2> QED
    BY <1>7, <2>1 DEF SaveConsented, authServer, StoredRefreshTokenLives
<1>8. ASSUME NEW k \in Callback,
             \/ \E c \in Code, s \in Flow \cup {"none"} : Redirected(k, c, s)
             \/ LoadPending(k) \/ ExchangeCode(k) \/ DeletePending(k) \/ CutCallback(k)
      PROVE  StoredRefreshTokenLives'
  BY <1>6, <1>8 DEF Redirected, LoadPending, ExchangeCode, Redeem, DeletePending, CutCallback,
                    authServer, resolves
<1>9. ASSUME NEW t \in 1 .. MaxTokens, Expire(t) PROVE StoredRefreshTokenLives'
  BY <1>6, <1>9 DEF Expire, resolves
<1>10. ASSUME NEW f \in Flow, BeginConsent(f) PROVE StoredRefreshTokenLives'
  BY <1>6, <1>10 DEF BeginConsent, authServer, resolves
<1>11. ASSUME NEW c \in given, Absorb(c) PROVE StoredRefreshTokenLives'
  BY <1>11 DEF Absorb, authServer, StoredRefreshTokenLives
<1>12. CASE UNCHANGED credentialVars
  BY <1>6, <1>12 DEF credentialVars, authServer, resolves
<1> QED
  BY <1>1, <1>2, <1>3, <1>4, <1>5, <1>7, <1>8, <1>9, <1>10, <1>11, <1>12 DEF CredentialNext

\* The refresh token in the store can be used, however many calls refresh, exchange
\* and store at the same time and whatever callbacks do: the one that had it replaced
\* holds the new one until it is stored.  It needs that a refresh token not stored
\* yet is alive (UnsavedLive), which in turn needs that nobody else can have it
\* replaced (UnsavedOwn).
THEOREM StoredTokensWork == CredentialSpec => []StoredRefreshTokenLives
<1>1. CredentialInit => StoredRefreshTokenLives
  BY CredentialFacts DEF CredentialInit, StoredRefreshTokenLives
<1>2. CredentialTypeOK /\ ServiceInv /\ TokenInv /\ [CredentialNext]_credentialVars => ServiceInv' /\ TokenInv'
  BY NextService, NextTokens
<1>3. CredentialSpec => [](ServiceInv /\ TokenInv)
  BY InitTokens, <1>2, CredentialTypeCorrect, PTL DEF CredentialSpec
<1> QED
  BY <1>1, <1>3, NextStored, CredentialTypeCorrect, PTL DEF CredentialSpec

=============================================================================
