------------------------------ MODULE ModelWire ------------------------------
(***************************************************************************)
(* Contents and their three wire formats (providers/*/convert.rs and       *)
(* genai_types/part.rs): the request a history becomes, and the parts of a *)
(* response that arrives whole.                                            *)
(*                                                                         *)
(* A part is a kind, a body (text or arguments, a sequence of tokens), a   *)
(* signature and an id.  Model names, schemas, sampling parameters and the *)
(* bytes of media do not matter here.                                      *)
(***************************************************************************)
EXTENDS Naturals, Sequences, FiniteSets, SequencesExt

CONSTANTS None, \* no value
          Fresh \* an id made up by the crate

Kinds == {"text", "thought", "redacted", "call", "result", "image", "pdf", "code", "unknown"}

Part(kind, body, sig, id) == [kind |-> kind, body |-> body, sig |-> sig, id |-> id]

\* The parts of some kinds, and what f makes of each part, in order.
OfKind(parts, ks) == SelectSeq(parts, LAMBDA p : p.kind \in ks)
Each(f(_), parts) == FlattenSeq([i \in DOMAIN parts |-> f(parts[i])])

\* Text is joined.
Bodies(parts) == FlattenSeq([i \in DOMAIN parts |-> parts[i].body])

-----------------------------------------------------------------------------
(* Part as JSON, which is Gemini's format and the one sessions are stored  *)
(* in: one field names the kind, and a signature goes beside it.           *)

NoFields == [text |-> None, thought |-> None, thoughtSignature |-> None, redactedThought |-> None,
             media |-> None, functionCall |-> None, functionResponse |-> None, code |-> None]

Serialized(p) ==
    CASE p.kind = "text"     -> [NoFields EXCEPT !.text = p.body]
      [] p.kind = "thought"  -> [NoFields EXCEPT !.text = p.body, !.thought = TRUE, !.thoughtSignature = p.sig]
      [] p.kind = "redacted" -> [NoFields EXCEPT !.redactedThought = p.body]
      [] p.kind \in {"image", "pdf"} -> [NoFields EXCEPT !.media = p]
      [] p.kind = "call"     -> [NoFields EXCEPT !.functionCall = [p EXCEPT !.sig = None], !.thoughtSignature = p.sig]
      [] p.kind = "result"   -> [NoFields EXCEPT !.functionResponse = p]
      [] p.kind = "code"     -> [NoFields EXCEPT !.code = p]

\* The first field that is there decides.
Deserialized(w) ==
    CASE w.text # None /\ w.thought = TRUE -> Part("thought", w.text, w.thoughtSignature, None)
      [] w.text # None /\ w.thought # TRUE -> Part("text", w.text, None, None)
      [] w.text = None /\ w.redactedThought # None -> Part("redacted", w.redactedThought, None, None)
      [] w.functionCall # None -> [w.functionCall EXCEPT !.sig = w.thoughtSignature]
      [] OTHER -> (CHOOSE f \in {w.media, w.functionResponse, w.code} : f # None)

-----------------------------------------------------------------------------
(* Requests.  A content is a role and parts; a message of the wire is a    *)
(* role and blocks.                                                        *)

Message(role, parts) == [role |-> role, parts |-> parts]

\* These two formats have no place for a signature of a call.
WithId(p) == <<[p EXCEPT !.id = IF @ = None THEN Fresh ELSE @, !.sig = None]>>

\* Unsigned thoughts cannot be replayed, and empty text is not accepted.
AnthropicBlock(p) ==
    CASE p.kind = "text" /\ p.body = <<>>    -> <<>>
      [] p.kind = "thought" /\ p.sig = None  -> <<>>
      [] p.kind = "call"                     -> WithId(p)
      [] p.kind \in {"code", "unknown"}      -> <<>>
      [] OTHER -> <<p>>

AnthropicMessages(contents) ==
    LET Converted(c) == Message(IF c.role = "model" THEN "assistant" ELSE "user", Each(AnthropicBlock, c.parts))
    IN  SelectSeq([i \in DOMAIN contents |-> Converted(contents[i])], LAMBDA msg : msg.parts # <<>>)

\* One message per content, and per answer of a tool; an assistant's text (its
\* pieces on lines of their own) comes before its calls, thoughts are left out.
OpenAiContent(c) ==
    CASE c.role = "user"  -> <<Message("user", OfKind(c.parts, {"text", "image"}))>>
      [] c.role = "model" ->
            LET text == Bodies(OfKind(c.parts, {"text"}))
            IN  <<Message("assistant", (IF text = <<>> THEN <<>> ELSE <<Part("text", text, None, None)>>)
                                       \o Each(WithId, OfKind(c.parts, {"call"})))>>
      [] c.role = "tool"  ->
            LET results == OfKind(c.parts, {"result"})
            IN  [i \in DOMAIN results |-> Message("tool", <<results[i]>>)]

OpenAiMessages(contents) == Each(OpenAiContent, contents)

\* Gemini takes everything but another provider's encrypted thoughts.
GeminiMessages(contents) ==
    [i \in DOMAIN contents |->
        Message(contents[i].role, SelectSeq(contents[i].parts, LAMBDA p : p.kind # "redacted"))]

Request(provider, contents) ==
    CASE provider = "anthropic" -> AnthropicMessages(contents)
      [] provider = "openai"    -> OpenAiMessages(contents)
      [] provider = "gemini"    -> GeminiMessages(contents)

-----------------------------------------------------------------------------
(* Responses that arrive whole.                                            *)

\* Arguments that are not JSON: an error, or no arguments.
OpenAiArguments(block) == IF block.whole THEN block.body ELSE <<>>

AnthropicWhole(blocks) ==
    Each(LAMBDA b : IF b.kind = "unknown" THEN <<>> ELSE <<Part(b.kind, b.body, b.sig, b.id)>>, blocks)

OpenAiWhole(blocks) ==
    LET text == Bodies(OfKind(blocks, {"text"}))
    IN  (IF text = <<>> THEN <<>> ELSE <<Part("text", text, None, None)>>)
        \o Each(LAMBDA b : <<Part("call", OpenAiArguments(b), None, b.id)>>, OfKind(blocks, {"call"}))

GeminiWhole(blocks) == Each(LAMBDA b : <<Part(b.kind, b.body, b.sig, b.id)>>, blocks)

Whole(provider, blocks) ==
    CASE provider = "anthropic" -> AnthropicWhole(blocks)
      [] provider = "openai"    -> OpenAiWhole(blocks)
      [] provider = "gemini"    -> GeminiWhole(blocks)

-----------------------------------------------------------------------------
(* What the agent does with a response before it goes into the history.    *)

\* Calls keep coming without an id.
EnsureNothing(parts) == parts

\* ensure_function_call_ids: each call without an id gets one of its own.
EnsureIds(parts) ==
    [i \in DOMAIN parts |->
        IF parts[i].kind = "call" /\ parts[i].id = None THEN [parts[i] EXCEPT !.id = <<i>>] ELSE parts[i]]

\* function_response_event: one answer for each call.
Answers(parts) == Each(LAMBDA p : <<Part("result", <<>>, None, p.id)>>, OfKind(parts, {"call"}))

\* The history when the next request is built.
History(parts) ==
    LET calls == OfKind(parts, {"call"})
    IN  <<Message("user", <<Part("text", <<"question">>, None, None), Part("image", <<>>, None, None)>>),
          Message("model", EnsureIds(parts))>>
        \o (IF calls = <<>> THEN <<>> ELSE <<Message("tool", Answers(EnsureIds(parts)))>>)

=============================================================================
