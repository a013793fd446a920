----------------------------- MODULE ModelClient -----------------------------
(***************************************************************************)
(* A call of a model over HTTP (providers/*/client.rs): the body that is   *)
(* sent, the attempts of send_with_retry, and Gemini's explicit cache of   *)
(* the stable prefix of a request, which concurrent calls share.           *)
(*                                                                         *)
(* Time is abstract: a deadline of a slot passes at some moment, and so    *)
(* does the lifetime of an entry at the server.  A backoff has no length   *)
(* of its own.  The server is external.                                    *)
(***************************************************************************)
EXTENDS Naturals, FiniteSets, FiniteSetsExt

CONSTANTS Calls,      \* calls of one client, or of its clones
          Requests,   \* what they may ask
          Asks,       \* [Calls -> which of them a call may ask, of whom, streaming or not]
          None,       \* no value
          MaxRetries, \* RetryConfig::max_retries
          Intervals,  \* ContextCacheConfig::cache_intervals
          MaxNames    \* bound: entries the server creates

ASSUME ClientAssumption ==
    /\ MaxRetries \in Nat /\ Intervals \in Nat /\ MaxNames \in Nat /\ None \notin Nat
    /\ \A c \in Calls : Asks[c] \subseteq [provider : {"gemini", "anthropic", "openai"}, req : Requests, streams : BOOLEAN]

VARIABLES
    call,   \* [Calls -> the local state of a call]
    caches, \* Gemini.caches: [prefixes -> slot]
    held,   \* the server's entries: [names -> prefix or None]
    made    \* how many it has created

modelVars == <<call, caches, held, made>>

Names == 1 .. MaxNames

\* A request: system instruction, tools, cache configuration ("none", "short" or
\* "long" ttl), whether its prefix is large enough to cache, a thinking budget,
\* an explicit max_output_tokens and a temperature (or None).
Prefix(req) == <<req.sys, req.tools>>
Prefixes == {Prefix(req) : req \in Requests}
NoPrefix == <<None, None>>

Empty    == [kind |-> "empty", name |-> None, live |-> FALSE, uses |-> 0]
Active(n) == [kind |-> "active", name |-> n, live |-> TRUE, uses |-> 1]
Disabled == [kind |-> "disabled", name |-> None, live |-> TRUE, uses |-> 0]

\* Of an attempt: 408, 409 or 429 is "busy", another 4xx "refused"; 5xx, no
\* connection and a timeout are "lost"; the rest, a response that cannot be read
\* included, is "broken".
Outcomes == {"ok", "refused", "busy", "lost", "broken"}

ASSUME NoneAssumption == None \notin Outcomes

\* is_retryable_status, and connect errors and timeouts.
Retryable(outcome) == outcome \in {"busy", "lost"}

\* 4xx, the retryable ones included.
ClientError(outcome) == outcome \in {"refused", "busy"}

ModelInit ==
    /\ call \in [Calls -> {[pc |-> "start", provider |-> p, req |-> r, streams |-> s, attempt |-> 0, answer |-> None,
                            took |-> None, ref |-> None, body |-> None, fell |-> FALSE, meta |-> None, read |-> None] :
                               p \in {"gemini", "anthropic", "openai"}, r \in Requests, s \in BOOLEAN}]
    /\ \A c \in Calls : [provider |-> call[c].provider, req |-> call[c].req, streams |-> call[c].streams] \in Asks[c]
    /\ caches = [p \in Prefixes |-> Empty]
    /\ held = [n \in Names |-> None]
    /\ made = 0

-----------------------------------------------------------------------------
(* Bodies.                                                                 *)

\* The end of the stable prefix carries the cache breakpoint; thinking takes its
\* budget from max_tokens and excludes sampling parameters.
AnthropicBody(req) ==
    LET thinks == req.budget # None /\ req.budget > 0
    IN  [prefix |-> Prefix(req), ref |-> None,
         thinking |-> IF thinks THEN req.budget ELSE None,
         maxTokens |-> CASE req.max # None -> req.max
                         [] req.max = None /\ thinks -> req.budget + 2
                         [] OTHER -> 2,
         temperature |-> IF thinks THEN None ELSE req.temperature,
         breakpoints |-> CASE req.cache = "none" -> {}
                           [] req.sys # None -> {"system"}
                           [] req.sys = None /\ req.tools # None -> {"tools"}
                           [] OTHER -> {}]

PlainBody(req) ==
    [prefix |-> Prefix(req), ref |-> None, thinking |-> None, maxTokens |-> req.max,
     temperature |-> req.temperature, breakpoints |-> {}]

\* The prefix is left to the entry.
CachedBody(req, n) == [PlainBody(req) EXCEPT !.prefix = NoPrefix, !.ref = n]

InlineBody(c) == IF call[c].provider = "anthropic" THEN AnthropicBody(call[c].req) ELSE PlainBody(call[c].req)

-----------------------------------------------------------------------------
(* resolve_cache.                                                          *)

Sends(rec, body) == [rec EXCEPT !.pc = "send", !.attempt = 0, !.answer = None, !.body = body]

\* Two requests with the same system instruction share an entry.
FingerprintShort(req) == CHOOSE p \in Prefixes : p[1] = req.sys

Fingerprint(req) == Prefix(req)

\* The lookup, under the lock: an entry that serves one call more.
UsableForever(slot) == slot.kind = "active" /\ slot.live
Usable(slot) == slot.kind = "active" /\ slot.live /\ slot.uses < Intervals

WantsCache(c) ==
    /\ call[c].provider = "gemini" /\ call[c].req.cache # "none"
    /\ Prefix(call[c].req) # NoPrefix /\ call[c].req.big

Slot(c) == caches[Fingerprint(call[c].req)]

Inline(c) ==
    /\ call[c].pc = "start"
    /\ ~WantsCache(c) \/ (Slot(c).kind = "disabled" /\ Slot(c).live)
    /\ call' = [call EXCEPT ![c] = Sends(@, InlineBody(c))]
    /\ UNCHANGED <<caches, held, made>>

Hit(c) ==
    /\ call[c].pc = "start" /\ WantsCache(c) /\ Usable(Slot(c))
    /\ caches' = [caches EXCEPT ![Fingerprint(call[c].req)].uses = @ + 1]
    /\ call' = [call EXCEPT ![c] = [Sends(@, CachedBody(@.req, Slot(c).name)) EXCEPT !.took = Slot(c).name]]
    /\ UNCHANGED <<held, made>>

\* The lock is released before the entry is created.
Miss(c) ==
    /\ call[c].pc = "start" /\ WantsCache(c) /\ ~Usable(Slot(c))
    /\ ~(Slot(c).kind = "disabled" /\ Slot(c).live)
    /\ call' = [call EXCEPT ![c].pc = "create"]
    /\ UNCHANGED <<caches, held, made>>

\* Whatever an earlier creator has put there is replaced.
Created(c) ==
    /\ call[c].pc = "create" /\ call[c].answer = "ok"
    /\ caches' = [caches EXCEPT ![Fingerprint(call[c].req)] = Active(call[c].ref)]
    /\ call' = [call EXCEPT ![c] = [Sends(@, CachedBody(@.req, @.ref)) EXCEPT !.took = call[c].ref, !.ref = None]]
    /\ UNCHANGED <<held, made>>

\* Without an entry for one ttl.
CreateFailed(c) ==
    /\ call[c].pc = "create" /\ call[c].answer \notin {None, "ok"}
    /\ caches' = [caches EXCEPT ![Fingerprint(call[c].req)] = Disabled]
    /\ call' = [call EXCEPT ![c] = Sends(@, InlineBody(c))]
    /\ UNCHANGED <<held, made>>

-----------------------------------------------------------------------------
(* send_with_retry and what follows it.                                    *)

Rejected(rec, outcome) == rec.pc = "send" /\ ClientError(outcome) /\ rec.body.ref # None

\* The metadata of the lookup is reported, whatever was sent.
ConcludedWithLookup(rec, outcome) ==
    [rec EXCEPT !.pc = IF outcome = "ok" THEN "ok" ELSE "failed", !.attempt = 0, !.answer = outcome,
                !.meta = IF outcome = "ok" /\ ~rec.streams THEN rec.took ELSE None]

\* A response, or an error; only a response that came whole tells of the cache.
Concluded(rec, outcome) ==
    [rec EXCEPT !.pc = IF outcome = "ok" THEN "ok" ELSE "failed", !.attempt = 0, !.answer = outcome,
                !.meta = IF outcome = "ok" /\ ~rec.streams THEN rec.body.ref ELSE None]

\* After a backoff the request is sent again; the last answer ends the call,
\* unless more is to be done.
Answered(rec, outcome) ==
    IF Retryable(outcome) /\ rec.attempt < MaxRetries THEN [rec EXCEPT !.attempt = @ + 1]
    ELSE IF rec.pc = "create" \/ Rejected(rec, outcome) THEN [rec EXCEPT !.attempt = 0, !.answer = outcome]
    ELSE Concluded(rec, outcome)

\* invalidate_cache_entry, and once more without the cache.
FallBack(c) ==
    /\ call[c].pc = "send" /\ call[c].answer # None
    /\ caches' = [p \in Prefixes |->
                    IF caches[p].kind = "active" /\ caches[p].name = call[c].body.ref THEN Empty ELSE caches[p]]
    /\ call' = [call EXCEPT ![c] = [Sends(@, PlainBody(@.req)) EXCEPT !.fell = TRUE]]
    /\ UNCHANGED <<held, made>>

-----------------------------------------------------------------------------
(* The server and the network.                                             *)

Waiting(c, pcs) == call[c].pc \in pcs /\ call[c].answer = None

\* The entry is made, though its name may not arrive.
CreateServed(c) ==
    /\ Waiting(c, {"create"}) /\ made < MaxNames
    /\ made' = made + 1 /\ held' = [held EXCEPT ![made + 1] = Prefix(call[c].req)]
    /\ \E o \in {"ok", "lost", "broken"} :
        call' = [call EXCEPT ![c] = [Answered(@, o) EXCEPT !.ref = IF o = "ok" THEN made + 1 ELSE None]]
    /\ UNCHANGED caches

CreateUnserved(c) ==
    /\ Waiting(c, {"create"})
    /\ \E o \in {"refused", "busy"} : call' = [call EXCEPT ![c] = Answered(@, o)]
    /\ UNCHANGED <<caches, held, made>>

Known(body) == IF body.ref = None THEN TRUE ELSE held[body.ref] # None

\* The model answers, with the prefix it was given or finds in the entry.
Served(c) ==
    /\ Waiting(c, {"send"}) /\ Known(call[c].body)
    /\ \E o \in {"ok", "broken"} :
        call' = [call EXCEPT ![c] = [Answered(@, o) EXCEPT !.read = IF call[c].body.ref = None THEN call[c].body.prefix
                                                                    ELSE held[call[c].body.ref]]]
    /\ UNCHANGED <<caches, held, made>>

Unserved(c) ==
    /\ Waiting(c, {"send"})
    /\ \E o \in {"refused", "busy", "lost"} : call' = [call EXCEPT ![c] = Answered(@, o)]
    /\ UNCHANGED <<caches, held, made>>

\* Its lifetime, or the server's memory.
Evicted(n) ==
    /\ held[n] # None /\ held' = [held EXCEPT ![n] = None]
    /\ UNCHANGED <<call, caches, made>>

DeadlinePasses(p) ==
    /\ caches[p].live /\ caches' = [caches EXCEPT ![p].live = FALSE]
    /\ UNCHANGED <<call, held, made>>

ModelNext ==
    \/ \E c \in Calls :
        \/ Inline(c) \/ Hit(c) \/ Miss(c) \/ Created(c) \/ CreateFailed(c) \/ FallBack(c)
        \/ CreateServed(c) \/ CreateUnserved(c) \/ Served(c) \/ Unserved(c)
    \/ \E n \in Names : Evicted(n)
    \/ \E p \in Prefixes : DeadlinePasses(p)

ModelSpec == ModelInit /\ [][ModelNext]_modelVars

-----------------------------------------------------------------------------
(* Properties.                                                             *)

\* Every variable has its type.
ModelTypeOK ==
    /\ \A c \in Calls : /\ call[c].pc \in {"start", "create", "send", "ok", "failed"}
                        /\ call[c].attempt \in 0 .. MaxRetries /\ call[c].answer \in Outcomes \cup {None}
                        /\ {call[c].took, call[c].ref, call[c].meta} \subseteq Names \cup {None}
    /\ \A p \in Prefixes : caches[p].name \in Names \cup {None} /\ caches[p].uses \in 0 .. Max({1, Intervals})
    /\ held \in [Names -> Prefixes \cup {None}] /\ made \in 0 .. MaxNames

\* Whichever entry, of whichever call, serves a request, the model reads the
\* system instruction and the tools of that request (cache_fingerprint: "any
\* change invalidates the cache entry").
ReadsItsPrefix ==
    \A c \in Calls : call[c].read # None => call[c].read = Prefix(call[c].req)

\* One entry serves at most cache_intervals calls, however they race to look it
\* up, create it and give it up (core/cache.rs).
ServesAtMostIntervals ==
    \A n \in Names : Cardinality({c \in Calls : call[c].took = n}) <= Max({1, Intervals})

\* Caching is an optimization (resolve_cache): no call fails with a client error
\* on a request that only referred to its prefix, and what is reported as the
\* entry used is the entry the model read from.
CacheNeverInTheWay ==
    \A c \in Calls :
        /\ call[c].pc = "failed" /\ ClientError(call[c].answer) => call[c].body.ref = None
        /\ call[c].meta # None => ~call[c].fell /\ call[c].body.ref = call[c].meta

=============================================================================
