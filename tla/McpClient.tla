----------------------------- MODULE McpClient -----------------------------
(***************************************************************************)
(* The MCP client (mcp/client.rs) over its two transports: JSON lines to a *)
(* child process (mcp/stdio.rs) and POSTs to an endpoint that answers with *)
(* one JSON body or an SSE stream (mcp/http.rs); and McpToolset, which     *)
(* lists the server's tools once (mcp/toolset.rs).                         *)
(*                                                                         *)
(* The first call is the initialize request; the others begin when connect *)
(* has returned.  The server is external: it answers requests in any       *)
(* order, may send requests of its own, stop reading, exit or restart.  An *)
(* answer is the id it answers.                                            *)
(***************************************************************************)
EXTENDS Naturals, Sequences, FiniteSets

CONSTANTS
    Call,      \* requests
    Handshake, \* the call that initialises the connection
    Lists,     \* the calls that are tools/list
    Nobody,    \* no writer, no cached list
    MaxAsked   \* bound: requests of the server's own

ASSUME CallAssumption == IsFiniteSet(Call)
ASSUME HandshakeAssumption == Handshake \in Call \ Lists /\ Lists \subseteq Call
ASSUME MaxAskedAssumption == MaxAsked \in Nat
ASSUME NobodyAssumption == Nobody \notin Call

VARIABLES
    transport,  \* "stdio" or "http"
    conn,       \* connect: opening, notifying, ready or failed
    nextId,     \* the next request id
    id,         \* the id of each call
    cpc,        \* what a call is at
    answer,     \* what it returned: the id that was answered, 0 for null
    pending,    \* stdio: the senders, by id
    writer,     \* stdio: who has the writer's lock
    line,       \* stdio: who has written to the line that is not ended yet
    badLines,   \* stdio: the ended lines that are no request
    early,      \* stdio: the calls whose oneshot holds a result before they wait for it
    sid,        \* http: the session id to echo, 0 for none
    header,     \* http: the one a call was sent with
    cached,     \* McpToolset: the list that was kept, as the call that got it
    got,        \* server: the requests it has read and not answered
    asked,      \* server: the ids it used for requests of its own
    server,     \* server: it reads and answers, is stuck, or has exited
    session     \* server: the session it knows, 0 for none

stdioVars  == <<pending, writer, line, badLines, early>>
httpVars   == <<sid, header>>
serverVars == <<got, asked, server, session>>
vars == <<transport, conn, nextId, id, cpc, answer, stdioVars, httpVars, cached, serverVars>>

Ids   == 1 .. Cardinality(Call)
Ended == {"ok", "error", "dropped"}

\* Over stdio, the places of a call before it waits for its answer.
Writing == {"queued", "writing", "half"}

TypeOK ==
    /\ transport \in {"stdio", "http"}
    /\ conn \in {"opening", "notifying", "ready", "failed"}
    /\ nextId \in 1 .. Cardinality(Call) + 1
    /\ id \in [Call -> Ids \cup {0}]
    /\ cpc \in [Call -> {"new", "queued", "writing", "half", "waiting", "posted", "stream"} \cup Ended]
    /\ answer \in [Call -> Ids \cup {0}]
    /\ pending \subseteq Ids
    /\ writer \in Call \cup {Nobody}
    /\ line \in Seq(Call)
    /\ badLines \subseteq Seq(Call)
    /\ early \subseteq Call
    /\ sid \in 0 .. 2
    /\ header \in [Call -> 0 .. 2]
    /\ cached \in Lists \cup {Nobody}
    /\ got \subseteq Ids
    /\ asked \subseteq Ids
    /\ server \in {"up", "stuck", "exited"}
    /\ session \in 0 .. 2

\* StdioTransport::spawn: nothing is sent, nobody waits and nobody has the writer.
StdioInit == pending = {} /\ writer = Nobody /\ line = <<>> /\ badLines = {} /\ early = {}

\* HttpTransport::new: no session to echo.
HttpInit == sid = 0 /\ header = [c \in Call |-> 0]

\* A server that is up, over HTTP with a session or without.
ServerInit ==
    /\ got = {} /\ asked = {} /\ server = "up"
    /\ session \in IF transport = "http" THEN {0, 1} ELSE {0}

Init ==
    /\ transport \in {"stdio", "http"}
    /\ conn = "opening"
    /\ nextId = 1
    /\ id = [c \in Call |-> 0]
    /\ cpc = [c \in Call |-> "new"]
    /\ answer = [c \in Call |-> 0]
    /\ cached = Nobody
    /\ StdioInit /\ HttpInit /\ ServerInit

CallStep(c, from, to) == cpc[c] = from /\ cpc' = [cpc EXCEPT ![c] = to]

\* call and call_tool once connect has returned, and initialize before;
\* list_tools only while no list is cached.
MayCall(c) ==
    IF c = Handshake THEN conn = "opening"
    ELSE conn = "ready" /\ (c \in Lists => cached = Nobody)

Allocate(c) ==
    /\ id' = [id EXCEPT ![c] = nextId]
    /\ nextId' = nextId + 1

-----------------------------------------------------------------------------
(* StdioTransport::call.                                                   *)

StdioCall(c) ==
    /\ transport = "stdio"
    /\ MayCall(c)
    /\ CallStep(c, "new", "queued")
    /\ Allocate(c)
    /\ pending' = pending \cup {nextId}
    /\ UNCHANGED <<transport, conn, answer, writer, line, badLines, early, httpVars, cached,
                   serverVars>>

\* Mutant: the writer is not locked.
TakeWriterShared(c) ==
    /\ CallStep(c, "queued", "writing")
    /\ writer' = c
    /\ UNCHANGED <<transport, conn, nextId, id, answer, pending, line, badLines, early, httpVars,
                   cached, serverVars>>

\* The lock of the writer, which is waited for without a timeout.
TakeWriter(c) ==
    /\ CallStep(c, "queued", "writing")
    /\ writer = Nobody
    /\ writer' = c
    /\ UNCHANGED <<transport, conn, nextId, id, answer, pending, line, badLines, early, httpVars,
                   cached, serverVars>>

\* write_all of the body, which suspends as long as the pipe is full.
WriteBody(c) ==
    /\ CallStep(c, "writing", "half")
    /\ server # "exited"
    /\ line' = Append(line, c)
    /\ UNCHANGED <<transport, conn, nextId, id, answer, pending, writer, badLines, early, httpVars,
                   cached, serverVars>>

\* write_all of the newline: the server reads the line, which is a request
\* only if nothing else is in it.
WriteNewline(c) ==
    /\ CallStep(c, "half", "waiting")
    /\ server # "exited"
    /\ writer' = Nobody
    /\ line' = <<>>
    /\ IF line = <<c>>
       THEN got' = got \cup {id[c]} /\ UNCHANGED badLines
       ELSE badLines' = badLines \cup {line} /\ UNCHANGED got
    /\ UNCHANGED <<transport, conn, nextId, id, answer, pending, early, httpVars, cached, asked,
                   server, session>>

\* The child is gone.  The sender stays in pending.
WriteFails(c) ==
    /\ cpc[c] \in {"writing", "half"}
    /\ server = "exited"
    /\ cpc' = [cpc EXCEPT ![c] = "error"]
    /\ writer' = Nobody
    /\ UNCHANGED <<transport, conn, nextId, id, answer, pending, line, badLines, early, httpVars,
                   cached, serverVars>>

\* The reader hands a result to the call that waits under the id, if it still
\* does; a sender that is not in pending, or whose receiver is gone, is passed
\* over.
Reply(i, value) ==
    LET waits(c) == id[c] = i /\ i \in pending /\ cpc[c] = "waiting" IN
    /\ cpc' = [c \in Call |-> IF waits(c) THEN "ok" ELSE cpc[c]]
    /\ answer' = [c \in Call |-> IF waits(c) THEN value ELSE answer[c]]

ReplyError(i) ==
    /\ cpc' = [c \in Call |-> IF id[c] = i /\ i \in pending /\ cpc[c] = "waiting" THEN "error"
                              ELSE cpc[c]]
    /\ UNCHANGED answer

\* A line with the answer to a request, or with an error for it.
ReadAnswer(i) ==
    /\ transport = "stdio"
    /\ server = "up"
    /\ i \in got
    /\ got' = got \ {i}
    /\ pending' = pending \ {i}
    /\ Reply(i, i) \/ ReplyError(i)
    /\ UNCHANGED <<transport, conn, nextId, id, writer, line, badLines, early, httpVars, cached,
                   asked, server, session>>

\* A line with a request of the server's own: the reader looks at its id and
\* not at its method, and takes it for an answer without a result.  A call that
\* does not wait yet finds the null in its oneshot.
ReadRequest(i) ==
    /\ transport = "stdio"
    /\ server = "up"
    /\ Cardinality(asked) < MaxAsked
    /\ asked' = asked \cup {i}
    /\ pending' = pending \ {i}
    /\ Reply(i, 0)
    /\ early' = early \cup {c \in Call : id[c] = i /\ i \in pending /\ cpc[c] \in Writing}
    /\ UNCHANGED <<transport, conn, nextId, id, writer, line, badLines, httpVars, cached, got, server,
                   session>>

\* The result is there when the wait begins.
TakeEarly(c) ==
    /\ c \in early
    /\ CallStep(c, "waiting", "ok")
    /\ answer' = [answer EXCEPT ![c] = 0]
    /\ UNCHANGED <<transport, conn, nextId, id, stdioVars, httpVars, cached, serverVars>>

\* The timeout covers the wait for the answer and nothing before it.  The
\* sender stays in pending.  A child that exits fails nobody: the calls that
\* wait for it time out.
TimeOut(c) ==
    /\ c \notin early
    /\ CallStep(c, "waiting", "error")
    /\ UNCHANGED <<transport, conn, nextId, id, answer, stdioVars, httpVars, cached, serverVars>>

\* Mutant: a dropped call keeps the lock.
DropLocked(c) ==
    /\ cpc[c] \notin Ended \cup {"new"}
    /\ c # Handshake
    /\ cpc' = [cpc EXCEPT ![c] = "dropped"]
    /\ line' = IF cpc[c] = "writing" /\ server # "exited" THEN Append(line, c) ELSE line
    /\ UNCHANGED <<transport, conn, nextId, id, answer, pending, writer, badLines, early, httpVars,
                   cached, serverVars>>

\* The caller goes away at an await.  What a writer has written by then, part
\* of its body or all of it, stays in the line without an end.
Drop(c) ==
    /\ cpc[c] \notin Ended \cup {"new"}
    /\ c # Handshake
    /\ cpc' = [cpc EXCEPT ![c] = "dropped"]
    /\ writer' = IF writer = c THEN Nobody ELSE writer
    /\ line' \in IF cpc[c] = "writing" /\ server # "exited" THEN {line, Append(line, c)} ELSE {line}
    /\ UNCHANGED <<transport, conn, nextId, id, answer, pending, badLines, early, httpVars, cached,
                   serverVars>>

-----------------------------------------------------------------------------
(* HttpTransport::call.                                                    *)

\* The request is sent with the session id of the moment.
HttpCall(c) ==
    /\ transport = "http"
    /\ MayCall(c)
    /\ CallStep(c, "new", "posted")
    /\ Allocate(c)
    /\ header' = [header EXCEPT ![c] = sid]
    /\ UNCHANGED <<transport, conn, answer, stdioVars, sid, cached, serverVars>>

Knows(c) == c = Handshake \/ header[c] = session

\* capture_session, of every response of a server that has sessions: the answer
\* to initialize names its session, others may.
Captured == {sid} \cup (IF server = "up" THEN {session} \ {0} ELSE {})

\* No response, or one with an error status, a 202 without a body, or a JSON
\* body that is malformed, has another id or is an error; or the stream ends.
HttpFails(c) ==
    /\ \/ CallStep(c, "posted", "error") /\ sid' \in Captured
       \/ CallStep(c, "stream", "error") /\ UNCHANGED sid
    /\ UNCHANGED <<transport, conn, nextId, id, answer, stdioVars, header, cached, serverVars>>

\* A JSON body, or the head of an SSE stream.
HttpHead(c) ==
    /\ server = "up"
    /\ Knows(c)
    /\ sid' \in Captured
    /\ c = Handshake /\ session # 0 => sid' = session
    /\ \/ CallStep(c, "posted", "ok") /\ answer' = [answer EXCEPT ![c] = id[c]]
       \/ CallStep(c, "posted", "stream") /\ UNCHANGED answer
    /\ UNCHANGED <<transport, conn, nextId, id, stdioVars, header, cached, serverVars>>

\* Mutant: the first answer of the stream is taken.
SseAnyAnswer(c) ==
    /\ server = "up"
    /\ CallStep(c, "stream", "ok")
    /\ \E i \in 1 .. nextId - 1 : answer' = [answer EXCEPT ![c] = i]
    /\ UNCHANGED <<transport, conn, nextId, id, stdioVars, httpVars, cached, serverVars>>

\* consume_sse: notifications and answers to other ids are passed over, and a
\* request of the server's own under this id ends the call with null.
SseAnswer(c) ==
    /\ server = "up"
    /\ CallStep(c, "stream", "ok")
    /\ \/ answer' = [answer EXCEPT ![c] = id[c]] /\ UNCHANGED asked
       \/ /\ Cardinality(asked) < MaxAsked
          /\ answer' = [answer EXCEPT ![c] = 0]
          /\ asked' = asked \cup {id[c]}
    /\ UNCHANGED <<transport, conn, nextId, id, stdioVars, httpVars, cached, got, server, session>>

-----------------------------------------------------------------------------
(* McpClient and McpToolset.                                               *)

\* initialize: the answer is followed by a notification, and connect returns.
Initialized ==
    /\ conn = "opening"
    /\ \/ cpc[Handshake] = "ok" /\ conn' = "notifying"
       \/ cpc[Handshake] = "error" /\ conn' = "failed"
    /\ UNCHANGED <<transport, nextId, id, cpc, answer, stdioVars, httpVars, cached, serverVars>>

\* The notification is written to the child as a call is, if the child reads or
\* the pipe has room, or is POSTed.
Notify ==
    /\ conn = "notifying"
    /\ \/ /\ transport = "stdio"
          /\ conn' = IF server = "exited" THEN "failed" ELSE "ready"
          /\ UNCHANGED sid
       \/ /\ transport = "http"
          /\ conn' \in IF server = "up" /\ sid = session THEN {"ready", "failed"} ELSE {"failed"}
          /\ sid' \in Captured
    /\ UNCHANGED <<transport, nextId, id, cpc, answer, stdioVars, header, cached, serverVars>>

\* list_tools keeps the first list; one that comes second is used once.
KeepList(c) ==
    /\ c \in Lists
    /\ cpc[c] = "ok"
    /\ answer[c] # 0
    /\ cached = Nobody
    /\ cached' = c
    /\ UNCHANGED <<transport, conn, nextId, id, cpc, answer, stdioVars, httpVars, serverVars>>

-----------------------------------------------------------------------------
(* The server.                                                             *)

\* It stops reading and answering, or exits; what it has read is lost.
ServerStops ==
    /\ server = "up"
    /\ server' \in {"stuck", "exited"}
    /\ got' = {}
    /\ UNCHANGED <<transport, conn, nextId, id, cpc, answer, stdioVars, httpVars, cached, asked, session>>

\* An HTTP server restarts, and does not know its old session.  The client
\* keeps echoing it.
ServerRestarts ==
    /\ transport = "http"
    /\ session = 1
    /\ session' = 2
    /\ UNCHANGED <<transport, conn, nextId, id, cpc, answer, stdioVars, httpVars, cached, got, asked, server>>

StdioStep(c) ==
    \/ StdioCall(c) \/ TakeWriter(c) \/ WriteBody(c) \/ WriteNewline(c) \/ WriteFails(c)
    \/ TakeEarly(c) \/ TimeOut(c)
HttpStep(c) == HttpCall(c) \/ HttpFails(c) \/ HttpHead(c) \/ SseAnswer(c)

Next ==
    \/ \E c \in Call : StdioStep(c) \/ HttpStep(c) \/ Drop(c) \/ KeepList(c)
    \/ \E i \in 1 .. nextId - 1 : ReadAnswer(i) \/ ReadRequest(i)
    \/ Initialized \/ Notify
    \/ ServerStops \/ ServerRestarts

\* A child process that does not read.
StuckChild == transport = "stdio" /\ server = "stuck"

\* Futures are polled and timeouts fire.  A write goes on only if the server
\* reads; nothing makes it answer.
Fairness ==
    /\ \A c \in Call :
        WF_vars(\/ TakeWriter(c) \/ WriteFails(c) \/ TakeEarly(c) \/ TimeOut(c) \/ HttpFails(c)
                \/ server = "up" /\ (WriteBody(c) \/ WriteNewline(c)))
    /\ WF_vars(Initialized \/ (Notify /\ ~StuckChild))

Spec == Init /\ [][Next]_vars /\ Fairness

-----------------------------------------------------------------------------
(* Properties.                                                             *)

\* A call that succeeds returns the answer to its own request, however late,
\* out of order or unexpected the answers are, and whichever calls were given
\* up; or null, if the server used the same number for a request of its own
\* (stdio.rs:100-111, http.rs:186-211).
AnswersAreOwn ==
    \A c \in Call : cpc[c] = "ok" =>
        \/ answer[c] = id[c]
        \/ answer[c] = 0 /\ id[c] \in asked

\* A line that is no request has the bytes of one more call than were given up
\* while they wrote: calls do not spoil each other's lines by writing at the
\* same time (stdio.rs:161-170).
OnlyDroppedSpoil ==
    \A l \in badLines :
        /\ Len(l) > 1
        /\ \A i \in 1 .. Len(l) - 1 : cpc[l[i]] = "dropped"

\* A call ends, unless it is over stdio and the server stops reading, which no
\* timeout covers: other calls that fail, time out or are given up do not hold
\* it up (stdio.rs:161-176, http.rs:163-178).
CallEnds ==
    \A c \in Call : cpc[c] \notin Ended \cup {"new"} ~> cpc[c] \in Ended \/ StuckChild
=============================================================================
