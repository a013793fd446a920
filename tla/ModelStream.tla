----------------------------- MODULE ModelStream -----------------------------
(***************************************************************************)
(* A response that is streamed (providers/*/stream.rs): the server sends   *)
(* its blocks in fragments, the decoder of the provider turns them into    *)
(* chunks, and the agent folds each chunk into the response it will keep   *)
(* (merge_stream_chunk of agents/llm_agent.rs).                            *)
(*                                                                         *)
(* The server is external.  A block is a part with a mark: whether its     *)
(* arguments are complete JSON, which they are not when the model ran out  *)
(* of tokens.                                                              *)
(***************************************************************************)
EXTENDS ModelWire

CONSTANTS Providers, \* "anthropic", "openai", "gemini"
          Plans      \* the responses the server may send, as sequences of blocks

ASSUME StreamAssumption == Providers \subseteq {"anthropic", "openai", "gemini"}

VARIABLES
    provider, plan,
    sent,    \* of each block: how many fragments have been sent
    opened,  \* Anthropic: blocks that have started
    closed,  \* blocks the server is through with
    tools,   \* the decoder's accumulated arguments, by index
    sigs,    \* the decoder's signatures, by index
    agg,     \* the aggregated parts
    finish,  \* its finish reason
    status,  \* of the stream, as the agent sees it
    early    \* the connection was closed before the response was over

block   == <<sent, opened, closed>>
decoder == <<tools, sigs>>
vars == <<provider, plan, block, decoder, agg, finish, status, early>>

\* What a provider can send.
Sendable(pr) ==
    CASE pr = "anthropic" -> {"text", "thought", "redacted", "call", "unknown"}
      [] pr = "openai"    -> {"text", "call"}
      [] pr = "gemini"    -> {"text", "thought", "call"}

\* Gemini gives its calls no id but may sign them, and sends each call whole.
Possible(pr, p) ==
    /\ \A i \in DOMAIN p : p[i].kind \in Sendable(pr)
    /\ pr = "gemini" => \A i \in DOMAIN p : p[i].kind = "call" => p[i].whole
    /\ \A i \in DOMAIN p : p[i].kind = "call" => (p[i].id = None <=> pr = "gemini") /\ (p[i].sig # None => pr = "gemini")

\* Every variable has its type, and the decoder holds only what is in flight.
TypeOK ==
    /\ provider \in Providers /\ plan \in Plans
    /\ \A i \in DOMAIN plan : sent[i] \in 0 .. Len(plan[i].body)
    /\ opened \subseteq DOMAIN plan /\ closed \subseteq DOMAIN plan
    /\ \A i \in DOMAIN plan : tools[i] = None \/ IsPrefix(tools[i], plan[i].body)
    /\ sigs \subseteq DOMAIN plan
    /\ \A i \in DOMAIN agg : agg[i].kind \in Kinds
    /\ finish \in {None, "stop", "length"} /\ status \in {"open", "done", "error"} /\ early \in BOOLEAN
    /\ provider = "anthropic" => \A i \in closed : tools[i] = None /\ i \notin sigs

Init ==
    /\ provider \in Providers
    /\ plan \in {p \in Plans : Possible(provider, p)}
    /\ sent = [i \in DOMAIN plan |-> 0] /\ opened = {} /\ closed = {}
    /\ tools = [i \in DOMAIN plan |-> None] /\ sigs = {}
    /\ agg = <<>> /\ finish = None /\ status = "open" /\ early = FALSE

-----------------------------------------------------------------------------
(* merge_stream_chunk.                                                     *)

\* Each delta becomes a part of its own.
MergedApart(parts, p) == Append(parts, p)

\* Deltas without text are skipped, also those that only carry a signature.
MergedTexts(parts, p) ==
    CASE p.kind \in {"text", "thought"} /\ p.body = <<>> -> parts
      [] parts # <<>> /\ p.kind \in {"text", "thought"} /\ Last(parts).kind = p.kind
         -> Append(Front(parts), [Last(parts) EXCEPT !.body = @ \o p.body])
      [] OTHER -> Append(parts, p)

\* Adjacent text and thoughts are joined; a signature is adopted.
Merged(parts, p) ==
    IF parts # <<>> /\ p.kind \in {"text", "thought"} /\ Last(parts).kind = p.kind
    THEN Append(Front(parts), [Last(parts) EXCEPT !.body = @ \o p.body,
                                                  !.sig = IF p.sig = None THEN @ ELSE p.sig])
    ELSE Append(parts, p)

MergedAll(parts, chunk) == FoldLeft(Merged, parts, chunk)

\* The stream yields a chunk, and the agent merges it.
Yields(chunk) == agg' = MergedAll(agg, chunk)

\* The next fragment of a block.
Fragment(i) == plan[i].body[sent[i] + 1]
Left(i) == sent[i] < Len(plan[i].body)
Sends(i) == /\ Left(i) /\ sent' = [sent EXCEPT ![i] = @ + 1]

\* Why the model stopped.
Reason == IF \E i \in DOMAIN plan : ~plan[i].whole THEN "length" ELSE "stop"

Through == closed = DOMAIN plan

-----------------------------------------------------------------------------
(* Anthropic: one block after the other, each started and stopped.         *)

Current(i) == provider = "anthropic" /\ status = "open" /\ \A j \in 1 .. i - 1 : j \in closed

BlockStart(i) ==
    /\ Current(i) /\ i \notin opened /\ opened' = opened \cup {i}
    /\ tools' = IF plan[i].kind = "call" THEN [tools EXCEPT ![i] = <<>>] ELSE tools
    /\ IF plan[i].kind = "redacted" THEN Yields(<<Part("redacted", plan[i].body, None, None)>>) ELSE UNCHANGED agg
    /\ UNCHANGED <<provider, plan, sent, closed, sigs, finish, status, early>>

BlockDelta(i) ==
    /\ Current(i) /\ i \in opened \ closed /\ Sends(i)
    /\ \/ /\ plan[i].kind \in {"text", "thought"}
          /\ Yields(<<Part(plan[i].kind, <<Fragment(i)>>, None, None)>>) /\ UNCHANGED tools
       \/ /\ plan[i].kind = "call" /\ tools' = [tools EXCEPT ![i] = Append(@, Fragment(i))]
          /\ UNCHANGED agg
       \/ plan[i].kind \in {"redacted", "unknown"} /\ UNCHANGED <<agg, tools>>
    /\ UNCHANGED <<provider, plan, opened, closed, sigs, finish, status, early>>

\* The signature comes after the thoughts, and is kept until the block stops.
SignatureDelta(i) ==
    /\ Current(i) /\ i \in opened \ closed /\ ~Left(i) /\ plan[i].kind = "thought"
    /\ plan[i].sig # None /\ i \notin sigs /\ sigs' = sigs \cup {i}
    /\ UNCHANGED <<provider, plan, block, tools, agg, finish, status, early>>

\* A thought is signed by a part of its own; a call is complete, or it is an error.
BlockStop(i) ==
    /\ Current(i) /\ i \in opened \ closed /\ ~Left(i)
    /\ plan[i].kind = "thought" /\ plan[i].sig # None => i \in sigs
    /\ closed' = closed \cup {i} /\ sigs' = sigs \ {i} /\ tools' = [tools EXCEPT ![i] = None]
    /\ \/ /\ plan[i].kind = "call" /\ (plan[i].whole \/ tools[i] = <<>>)
          /\ Yields(<<Part("call", tools[i], None, plan[i].id)>>) /\ UNCHANGED status
       \/ /\ plan[i].kind = "call" /\ ~plan[i].whole /\ tools[i] # <<>>
          /\ status' = "error" /\ UNCHANGED agg
       \/ /\ plan[i].kind # "call" /\ UNCHANGED status
          /\ IF i \in sigs THEN Yields(<<Part("thought", <<>>, plan[i].sig, None)>>) ELSE UNCHANGED agg
    /\ UNCHANGED <<provider, plan, sent, opened, finish, early>>

\* message_delta and message_stop.
MessageStop ==
    /\ provider = "anthropic" /\ status = "open" /\ Through
    /\ finish' = Reason /\ status' = "done"
    /\ UNCHANGED <<provider, plan, block, decoder, agg, early>>

-----------------------------------------------------------------------------
(* OpenAI: text as it comes, fragments of calls by index, and everything   *)
(* that was accumulated in the last chunk.                                 *)

OpenAiText(i) ==
    /\ provider = "openai" /\ status = "open" /\ plan[i].kind = "text" /\ Sends(i)
    /\ \A j \in 1 .. i - 1 : plan[j].kind = "text" => ~Left(j)
    /\ Yields(<<Part("text", <<Fragment(i)>>, None, None)>>)
    /\ UNCHANGED <<provider, plan, opened, closed, decoder, finish, status, early>>

\* The first fragment brings the id; calls may take turns.
OpenAiCall(i) ==
    /\ provider = "openai" /\ status = "open" /\ plan[i].kind = "call"
    /\ \/ tools[i] = None /\ tools' = [tools EXCEPT ![i] = <<>>] /\ UNCHANGED sent
       \/ tools[i] # None /\ Sends(i) /\ tools' = [tools EXCEPT ![i] = Append(@, Fragment(i))]
    /\ UNCHANGED <<provider, plan, opened, closed, sigs, agg, finish, status, early>>

\* Arguments that do not parse are replaced by none.
Accumulated(i) ==
    IF tools[i] = None THEN <<>>
    ELSE <<Part("call", IF plan[i].whole /\ ~Left(i) THEN tools[i] ELSE <<>>, None, plan[i].id)>>

LastChunk == FlattenSeq([i \in DOMAIN plan |-> Accumulated(i)])

AllSent == \A i \in DOMAIN plan : ~Left(i) /\ (plan[i].kind = "call" => tools[i] # None)

\* The finish reason, the usage, [DONE].
OpenAiDone ==
    /\ provider = "openai" /\ status = "open" /\ AllSent
    /\ Yields(LastChunk) /\ finish' = Reason /\ status' = "done"
    /\ UNCHANGED <<provider, plan, block, decoder, early>>

-----------------------------------------------------------------------------
(* Gemini: every event is a response of its own, the last one has the      *)
(* finish reason.                                                          *)

GeminiChunk(i) ==
    /\ provider = "gemini" /\ status = "open" /\ \A j \in 1 .. i - 1 : j \in closed
    /\ i \notin closed
    /\ \/ /\ plan[i].kind = "call" /\ closed' = closed \cup {i} /\ UNCHANGED sent
          /\ Yields(<<Part("call", plan[i].body, plan[i].sig, None)>>)
       \/ /\ plan[i].kind # "call" /\ Sends(i)
          /\ closed' = IF sent'[i] = Len(plan[i].body) THEN closed \cup {i} ELSE closed
          /\ Yields(<<Part(plan[i].kind, <<Fragment(i)>>, IF i \in closed' THEN plan[i].sig ELSE None, None)>>)
       \/ plan[i].kind # "call" /\ plan[i].body = <<>> /\ closed' = closed \cup {i} /\ UNCHANGED <<sent, agg>>
    /\ UNCHANGED <<provider, plan, opened, decoder, finish, status, early>>

GeminiLast ==
    /\ provider = "gemini" /\ status = "open" /\ Through
    /\ finish' = Reason /\ status' = "done"
    /\ UNCHANGED <<provider, plan, block, decoder, agg, early>>

-----------------------------------------------------------------------------
(* Streams that end otherwise.                                             *)

\* An error event, a broken connection, a payload that is not JSON.
StreamFails ==
    /\ status = "open" /\ status' = "error"
    /\ UNCHANGED <<provider, plan, block, decoder, agg, finish, early>>

\* The connection is closed in good order before the response is over.  The
\* decoders end their streams; OpenAI's has its last chunk still to send.
ClosedEarly ==
    /\ status = "open" /\ status' = "done" /\ early' = TRUE
    /\ IF provider = "openai" THEN Yields(LastChunk) /\ finish' = "stop" ELSE UNCHANGED <<agg, finish>>
    /\ UNCHANGED <<provider, plan, block, decoder>>

Next ==
    \/ \E i \in DOMAIN plan :
        \/ BlockStart(i) \/ BlockDelta(i) \/ SignatureDelta(i) \/ BlockStop(i)
        \/ OpenAiText(i) \/ OpenAiCall(i) \/ GeminiChunk(i)
    \/ MessageStop \/ OpenAiDone \/ GeminiLast
    \/ StreamFails \/ ClosedEarly

Spec == Init /\ [][Next]_vars

-----------------------------------------------------------------------------
(* Properties.                                                             *)

\* Text and thoughts as single tokens, calls and encrypted thoughts as they are.
Tokens(p) ==
    IF p.kind \in {"text", "thought"}
    THEN [j \in DOMAIN p.body |-> Part(p.kind, <<p.body[j]>>, None, None)]
    ELSE <<p>>

\* OpenAI streams text as it comes and its calls at the end.
Ordered(parts) ==
    IF provider = "openai" THEN OfKind(parts, {"text"}) \o OfKind(parts, {"call"}) ELSE parts

\* What the agent keeps of a streamed response that has a finish reason is the
\* response as it would have come unstreamed, and no two neighbours are of one
\* run of text.  (An OpenAI stream that is closed early claims to have stopped.)
StreamedIsWhole ==
    status = "done" /\ finish # None /\ ~(provider = "openai" /\ early) =>
        /\ Each(Tokens, agg) = Each(Tokens, Ordered(Whole(provider, plan)))
        /\ \A i \in 1 .. Len(agg) - 1 : agg[i].kind = "text" => agg[i + 1].kind # "text"

\* Nothing of these blocks is streamed.
Silent(i) == plan[i].kind = "unknown" \/ (plan[i].kind = "text" /\ plan[i].body = <<>>)

NextTo(i, j) == /\ i # j /\ plan[j].kind = "thought"
                /\ \A k \in DOMAIN plan : (i < k /\ k < j) \/ (j < k /\ k < i) => Silent(k)

\* A signed thought goes back to its provider as it came: text and signature
\* together ("replayed verbatim", providers/anthropic/stream.rs).  Two thoughts without anything between them
\* are joined, under the signature of the second.
ThoughtsReplayed ==
    status = "done" /\ ~early =>
        \A i \in DOMAIN plan :
            plan[i].kind = "thought" /\ plan[i].sig # None /\ ~(\E j \in DOMAIN plan : NextTo(i, j)) =>
                LET req == Request(provider, History(agg))
                IN  \E k \in DOMAIN req : Contains(req[k].parts, Part("thought", plan[i].body, plan[i].sig, None))

CallIds(msg) == {msg.parts[i].id : i \in {j \in DOMAIN msg.parts : msg.parts[j].kind = "call"}}
ResultIds(msg) == {msg.parts[i].id : i \in {j \in DOMAIN msg.parts : msg.parts[j].kind = "result"}}

\* Whoever answered, the history can be sent to every provider: each call of a
\* request is answered, each answer has its call before it, by an id that tells
\* it from the others, also after the parts have been stored and read back.
AnswersFindTheirCalls ==
    status = "done" =>
        \A pr \in Providers :
            LET stored == [i \in DOMAIN agg |-> Deserialized(Serialized(agg[i]))]
                req == Request(pr, History(stored))
                calls == UNION {CallIds(req[i]) : i \in DOMAIN req}
            IN  /\ stored = agg
                /\ calls = UNION {ResultIds(req[i]) : i \in DOMAIN req}
                /\ Cardinality(calls) = Len(OfKind(agg, {"call"}))
                /\ \A i, j \in DOMAIN req : CallIds(req[i]) # {} /\ ResultIds(req[j]) # {} => i < j

=============================================================================
