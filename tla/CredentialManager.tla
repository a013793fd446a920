-------------------------- MODULE CredentialManager --------------------------
(***************************************************************************)
(* Credentials of one tool and one user (auth/manager.rs with its          *)
(* exchangers, refreshers and credential service): resolve, run by each    *)
(* tool call that needs a credential; the consent flow, begin_consent and  *)
(* complete_consent; and the credential a user's message carries.          *)
(*                                                                         *)
(* The authorization server is external: a code buys one token, a refresh  *)
(* token may be replaced when it is used, and then it is dead.  A token is *)
(* a number; a refresh token and an expiry are named by the token they     *)
(* came with.                                                              *)
(***************************************************************************)
EXTENDS Naturals, FiniteSets

CONSTANTS
    Resolver,   \* calls of resolve that may run at the same time
    Callback,   \* callbacks of the redirect
    Flow,       \* consent flows; the flow id is the state of the URL
    Kinds,      \* configurations of the tool
    Provided,   \* those with a custom provider
    Interactive,\* those with an authorization endpoint and a redirect URI
    MaxTokens,  \* bound: tokens of the server
    Faults      \* "cut": a call fails or is dropped; "delete": a deletion fails

OAuth == {"client", "client_credentials", "code", "token"}

ASSUME AuthAssumption ==
    /\ Kinds \subseteq OAuth \cup {"static", "service", "custom"} /\ Provided \subseteq Kinds
    /\ Interactive \subseteq Kinds \cap OAuth
    /\ MaxTokens \in Nat \ {0} /\ Faults \subseteq {"cut", "delete"}
    /\ "none" \notin Resolver \cup Callback \cup Flow

VARIABLES
    kind,       \* the tool's AuthConfig
    hasService, \* there is a credential service
    store,      \* what it holds under the tool's key
    consents,   \* flows with an entry "__pending_consent:<flow>"
    rotates,    \* the server replaces a refresh token when it is used
    tokens, live, used, expired, told,  \* the server: tokens, refresh tokens, codes, expiries
    pc, cred, renewed,     \* of a resolve: the credential it works on, and a new one
    outcome,               \* the answer of the resolve that returned last
    cbpc, flow, code, won, \* of a callback
    begun, given,          \* flows begun; credentials handed to the application
    excused                \* history: refresh tokens that died outside of the manager

resolves   == <<pc, cred, renewed, outcome>>
callbacks  == <<cbpc, flow, code, won, begun, given>>
authServer == <<tokens, live, used, expired, told>>
setting    == <<kind, hasService, rotates>>
credentialVars == <<setting, store, consents, authServer, resolves, callbacks, excused>>

\* A credential: its access token, refresh token, and the token whose expiry it has.
NoCredential == [at |-> 0, rt |-> 0, exp |-> 0]
Credential   == [at : 0 .. MaxTokens, rt : 0 .. MaxTokens, exp : 0 .. MaxTokens]
Code         == Flow \X {1, 2}     \* a user may grant one URL twice
RawCode      == <<"none", 1>>      \* the code in the tool's own configuration

\* ResolveOutcome, or an error.
Outcome(is) == [is |-> is, cred |-> NoCredential]
Ready(c)    == [is |-> "ready", cred |-> c]

\* raw_auth_credential: a key or a token may be in it.
Raw == CASE kind = "static" -> [at |-> 1, rt |-> 0, exp |-> 0]
         [] kind = "token"  -> [at |-> 1, rt |-> 1, exp |-> 1]
         [] OTHER           -> NoCredential

\* is_ready and not is_expired.
Fresh(c) == c.at # 0 /\ ~(c.exp # 0 /\ c.exp \in expired)

\* Every variable has its type.
CredentialTypeOK ==
    /\ kind \in Kinds /\ hasService \in BOOLEAN /\ rotates \in BOOLEAN /\ store \in Credential
    /\ consents \subseteq begun /\ begun \subseteq Flow /\ tokens \in 0 .. MaxTokens
    /\ live \subseteq 1 .. tokens /\ told \subseteq 1 .. tokens /\ expired \subseteq told
    /\ used \subseteq Code \cup {RawCode} /\ given \subseteq Credential
    /\ pc \in [Resolver -> {"idle", "load", "refresh", "exchange", "save"}]
    /\ cred \in [Resolver -> Credential] /\ renewed \in [Resolver -> Credential]
    /\ outcome \in [is : {"none", "error", "consent", "misconfigured", "ready"}, cred : Credential]
    /\ cbpc \in [Callback -> {"new", "load", "exchange", "save", "delete", "done", "kept", "refused"}]
    /\ flow \in [Callback -> Flow \cup {"none"}] /\ code \in [Callback -> Code \cup {RawCode}]
    /\ won \in [Callback -> Credential] /\ \A k \in Callback : cbpc[k] # "new" => flow[k] \in begun
    /\ excused \subseteq 0 .. MaxTokens

CredentialInit ==
    /\ kind \in Kinds /\ hasService \in BOOLEAN /\ rotates \in BOOLEAN
    /\ store = NoCredential /\ consents = {}
    /\ tokens = IF Raw.at = 1 THEN 1 ELSE 0
    /\ live = 1 .. tokens /\ used = {} /\ expired = {} /\ told = 1 .. tokens
    /\ pc = [r \in Resolver |-> "idle"] /\ outcome = Outcome("none")
    /\ cred = [r \in Resolver |-> NoCredential] /\ renewed = cred
    /\ cbpc = [k \in Callback |-> "new"] /\ flow = [k \in Callback |-> "none"]
    /\ code = [k \in Callback |-> RawCode] /\ won = [k \in Callback |-> NoCredential]
    /\ begun = {} /\ given = {} /\ excused = {}

-----------------------------------------------------------------------------
(* The server.                                                             *)

\* apply_to: what the response does not carry stays as it was.
Applied(c, granted, timed) ==
    [at  |-> tokens + 1,
     rt  |-> IF granted THEN tokens + 1 ELSE c.rt,
     exp |-> IF timed THEN tokens + 1 ELSE c.exp]

\* One more token, which may come with an expiry.
Issue(timed) ==
    /\ tokens < MaxTokens /\ tokens' = tokens + 1
    /\ told' = IF timed THEN told \cup {tokens + 1} ELSE told

\* A refresh token that is replaced is dead.
Grant(rt, timed) ==
    /\ Issue(timed)
    /\ live' = IF rotates THEN (live \ {rt}) \cup {tokens + 1} ELSE live
    /\ UNCHANGED <<used, expired>>

\* A code is good for one token.
Redeem(c, granted, timed) ==
    /\ c \notin used /\ used' = used \cup {c}
    /\ Issue(timed)
    /\ live' = IF granted THEN live \cup {tokens + 1} ELSE live
    /\ UNCHANGED expired

\* A token expires (is_expired says so a minute early), not while it is handed out.
Expire(t) ==
    /\ t \in told \ expired /\ kind # "static"
    /\ \A r \in Resolver : pc[r] = "save" => renewed[r].at # t
    /\ expired' = expired \cup {t}
    /\ UNCHANGED <<setting, store, consents, tokens, live, used, told, resolves, callbacks, excused>>

-----------------------------------------------------------------------------
(* CredentialManager::resolve.                                             *)

\* The call returns.
Resolved(r, a) ==
    /\ outcome' = a
    /\ pc' = [pc EXCEPT ![r] = "idle"]
    /\ cred' = [cred EXCEPT ![r] = NoCredential] /\ renewed' = [renewed EXCEPT ![r] = NoCredential]

\* The call goes on, at an await.
At(r, place, c) ==
    /\ pc' = [pc EXCEPT ![r] = place] /\ cred' = [cred EXCEPT ![r] = c]
    /\ outcome' = Outcome("none") /\ UNCHANGED renewed

\* Neither the configuration nor the cache has a credential that can be used:
\* consent before any exchange, then the exchangers, then a custom provider.
FallThrough(r) ==
    \/ /\ kind \in {"client", "client_credentials"}
       /\ Resolved(r, Outcome("consent"))
    \/ /\ kind \in {"code", "token", "service"} \cup (Provided \ {"client", "client_credentials"})
       /\ At(r, "exchange", Raw)
    \/ /\ kind \in {"static", "custom"} \ Provided
       /\ Resolved(r, Outcome("misconfigured"))

\* A raw credential that is ready is the answer.
Resolve(r) ==
    /\ pc[r] = "idle"
    /\ \/ Fresh(Raw) /\ Resolved(r, Ready(Raw))
       \/ ~Fresh(Raw) /\ hasService /\ At(r, "load", NoCredential)
       \/ ~Fresh(Raw) /\ ~hasService /\ FallThrough(r)
    /\ UNCHANGED <<setting, store, consents, authServer, callbacks, excused>>

Refreshable(c) == kind \in OAuth /\ c.rt # 0

\* A cached credential is the answer, or it is refreshed.
LoadCached(r) ==
    /\ pc[r] = "load"
    /\ \/ Fresh(store) /\ Resolved(r, Ready(store))
       \/ ~Fresh(store) /\ Refreshable(store) /\ At(r, "refresh", store)
       \/ ~Fresh(store) /\ ~Refreshable(store) /\ FallThrough(r)
    /\ UNCHANGED <<setting, store, consents, authServer, callbacks, excused>>

\* A new credential: saved where there is a service, and the answer.
Obtained(r, c) ==
    IF hasService
    THEN /\ pc' = [pc EXCEPT ![r] = "save"] /\ renewed' = [renewed EXCEPT ![r] = c]
         /\ outcome' = Outcome("none") /\ UNCHANGED cred
    ELSE Resolved(r, Ready(c))

\* OAuth2Refresher::refresh.  A dead refresh token is an error of resolve.
Refresh(r) ==
    /\ pc[r] = "refresh"
    /\ \/ /\ cred[r].rt \in live
          /\ \E timed \in BOOLEAN :
                Grant(cred[r].rt, timed) /\ Obtained(r, Applied(cred[r], rotates, timed))
       \/ /\ cred[r].rt \notin live /\ Resolved(r, Outcome("error")) /\ UNCHANGED authServer
    /\ UNCHANGED <<setting, store, consents, callbacks, excused>>

\* OAuth2Exchanger::exchange with a code, or with a token that has expired.
ExchangeOAuth(r) ==
    \/ /\ kind = "code"
       /\ \/ \E granted, timed \in BOOLEAN :
                Redeem(RawCode, granted, timed) /\ Obtained(r, Applied(Raw, granted, timed))
          \/ RawCode \in used /\ Resolved(r, Outcome("error")) /\ UNCHANGED authServer
    \/ /\ kind = "token"
       /\ \/ /\ Raw.rt \in live
             /\ \E timed \in BOOLEAN :
                   Grant(Raw.rt, timed) /\ Obtained(r, Applied(Raw, rotates, timed))
          \/ /\ Raw.rt \notin live /\ Resolved(r, Outcome("error")) /\ UNCHANGED authServer

\* A signed assertion, or a custom provider, gives a token without more ado.
ExchangeOther(r) ==
    /\ kind \in {"service", "custom"}
    /\ \E timed \in BOOLEAN :
          /\ Issue(timed) /\ Obtained(r, Applied(Raw, FALSE, timed))
    /\ UNCHANGED <<live, used, expired>>

Exchange(r) ==
    /\ pc[r] = "exchange"
    /\ ExchangeOAuth(r) \/ ExchangeOther(r)
    /\ UNCHANGED <<setting, store, consents, callbacks, excused>>

\* The new credential is handed out and not kept.
SaveForgotten(r) ==
    /\ pc[r] = "save"
    /\ Resolved(r, Ready(renewed[r]))
    /\ UNCHANGED <<setting, store, consents, authServer, callbacks, excused>>

Save(r) ==
    /\ pc[r] = "save"
    /\ store' = renewed[r] /\ Resolved(r, Ready(renewed[r]))
    /\ UNCHANGED <<setting, consents, authServer, callbacks, excused>>

\* The service or the network fails, or the invocation is dropped, at an await.
Cut(r) ==
    /\ "cut" \in Faults /\ pc[r] # "idle"
    /\ Resolved(r, Outcome("error"))
    /\ excused' = IF pc[r] = "save" THEN excused \cup {cred[r].rt} ELSE excused
    /\ UNCHANGED <<setting, store, consents, authServer, callbacks>>

-----------------------------------------------------------------------------
(* Consent.                                                                *)

\* begin_consent: the state and the verifier of a new URL are kept.  It needs
\* a service.
BeginConsent(f) ==
    /\ kind \in Interactive /\ hasService /\ f \notin begun
    /\ begun' = begun \cup {f} /\ consents' = consents \cup {f}
    /\ UNCHANGED <<setting, store, authServer, resolves, cbpc, flow, code, won, given, excused>>

CallbackAt(k, place) == cbpc' = [cbpc EXCEPT ![k] = place]

\* What a callback worked on goes with it.
Forget(k) == /\ code' = [code EXCEPT ![k] = RawCode] /\ won' = [won EXCEPT ![k] = NoCredential]

\* A callback comes back with a code; its state must be the flow's.
Redirected(k, c, state) ==
    /\ cbpc[k] = "new" /\ c[1] \in begun
    /\ flow' = [flow EXCEPT ![k] = c[1]] /\ code' = [code EXCEPT ![k] = c]
    /\ CallbackAt(k, IF state = c[1] THEN "load" ELSE "refused")
    /\ UNCHANGED <<setting, store, consents, authServer, resolves, won, begun, given, excused>>

\* The pending entry is taken out when it is read.
LoadPendingTaking(k) ==
    /\ cbpc[k] = "load"
    /\ CallbackAt(k, IF flow[k] \in consents THEN "exchange" ELSE "refused")
    /\ consents' = consents \ {flow[k]}
    /\ UNCHANGED <<setting, store, authServer, resolves, flow, code, won, begun, given, excused>>

LoadPending(k) ==
    /\ cbpc[k] = "load"
    /\ CallbackAt(k, IF flow[k] \in consents THEN "exchange" ELSE "refused")
    /\ UNCHANGED <<setting, store, consents, authServer, resolves, flow, code, won, begun, given, excused>>

\* The code is exchanged with the verifier that was kept.
ExchangeCode(k) ==
    /\ cbpc[k] = "exchange"
    /\ \/ \E granted, timed \in BOOLEAN :
             /\ Redeem(code[k], granted, timed)
             /\ won' = [won EXCEPT ![k] = Applied(NoCredential, granted, timed)]
             /\ CallbackAt(k, "save")
       \/ code[k] \in used /\ CallbackAt(k, "refused") /\ UNCHANGED <<won, authServer>>
    /\ UNCHANGED <<setting, store, consents, resolves, flow, code, begun, given, excused>>

SaveConsented(k) ==
    /\ cbpc[k] = "save"
    /\ store' = won[k] /\ CallbackAt(k, "delete")
    /\ UNCHANGED <<setting, consents, authServer, resolves, flow, code, won, begun, given, excused>>

\* Single use; a deletion that fails is ignored.
DeletePending(k) ==
    /\ cbpc[k] = "delete"
    /\ \/ CallbackAt(k, "done") /\ consents' = consents \ {flow[k]}
       \/ "delete" \in Faults /\ CallbackAt(k, "kept") /\ UNCHANGED consents
    /\ given' = given \cup {won[k]}
    /\ Forget(k)
    /\ UNCHANGED <<setting, store, authServer, resolves, flow, begun, excused>>

\* A callback fails or is dropped at an await.
CutCallback(k) ==
    /\ "cut" \in Faults /\ cbpc[k] \in {"load", "exchange", "save", "delete"}
    /\ CallbackAt(k, "refused") /\ Forget(k)
    /\ UNCHANGED <<setting, store, consents, authServer, resolves, flow, begun, given, excused>>

\* AuthPreprocessor: a message carries a credential the application was given.
Absorb(c) ==
    /\ c \in given /\ hasService /\ store' = c
    /\ excused' = excused \cup ({c.rt} \ live)
    /\ UNCHANGED <<setting, consents, authServer, resolves, callbacks>>

-----------------------------------------------------------------------------

CredentialNext ==
    \/ \E t \in 1 .. MaxTokens : Expire(t)
    \/ \E r \in Resolver : Resolve(r) \/ LoadCached(r) \/ Refresh(r) \/ Exchange(r) \/ Save(r) \/ Cut(r)
    \/ \E f \in Flow : BeginConsent(f)
    \/ \E k \in Callback :
        \/ \E c \in Code, s \in Flow \cup {"none"} : Redirected(k, c, s)
        \/ LoadPending(k) \/ ExchangeCode(k) \/ SaveConsented(k) \/ DeletePending(k) \/ CutCallback(k)
    \/ \E c \in given : Absorb(c)

CredentialSpec == CredentialInit /\ [][CredentialNext]_credentialVars

-----------------------------------------------------------------------------
(* Properties.                                                             *)

\* A redirect that failed can be tried again as long as none of its codes was
\* used: the verifier of a flow is kept until the server has given a token for it.
RetryPossible ==
    \A f \in begun : {c \in Code : c[1] = f} \cap used = {} => f \in consents

\* The refresh token in the store can be used: when it has been replaced, the
\* call that did so is about to store the new one.  A dropped call and an old
\* credential in a message are the only ways out, and then every resolve fails.
StoredRefreshTokenLives ==
    store.rt # 0 => store.rt \in live \cup excused \cup {cred[r].rt : r \in {q \in Resolver : pc[q] = "save"}}

=============================================================================
