----------------------------- MODULE Compaction -----------------------------
(***************************************************************************)
(* Event compaction (runner/compaction.rs, the end of Runner::run) and the *)
(* history agents assemble from a compacted log (core/event.rs).           *)
(*                                                                         *)
(* Invocations of one session append to its log, which the in-memory store *)
(* keeps in the order it got, and to their own copy of it, taken when they *)
(* begin.  An event gets its time when it is made and its place when it is *)
(* stored, later: other branches and other invocations store events in     *)
(* between.  An invocation that ends normally summarises, when enough      *)
(* invocations are in the log since the last marker, a window of its copy, *)
(* and appends a marker: a range of time and what the summary saw.         *)
(***************************************************************************)
EXTENDS EventLog, FiniteSets

CONSTANTS
    Invocation,
    Interval,    \* compaction_interval
    OverlapSize, \* overlap_size
    MaxMade,     \* bound: the events made from which on no agent makes one
    MaxInHand,   \* bound: events of an invocation that wait to be stored
    MaxRunning   \* bound: invocations that run at once

ASSUME IntervalAssumption == Interval \in Nat \ {0}
ASSUME BoundsAssumption == OverlapSize \in Nat /\ {MaxMade, MaxInHand, MaxRunning} \subseteq Nat

VARIABLES
    log,    \* the stored events of the session
    copy,   \* the copy of each invocation, kept after a marker was appended
    hand,   \* its events that are made and not stored
    phase,  \* what an invocation is at
    window, \* what it is summarising
    lastId, \* the id of the event made last, 0 before the first
    now     \* its time

compactionVars == <<log, copy, hand, phase, window, lastId, now>>

-----------------------------------------------------------------------------
(* Events.                                                                 *)

\* now_secs, from the first event on: the clock does not go back between two
\* events; it may give them the same time.
Stamps == IF lastId = 0 THEN {now} ELSE {now, now + 1}

\* of: the id of the call that an answer answers.
NewEvent(i, kind, of, t) ==
    [id |-> lastId + 1, time |-> t, inv |-> i, kind |-> kind, of |-> of, range |-> <<>>, saw |-> {}]

\* The marker of a summarised window w; it has no invocation id in the code,
\* and no content of its own: inv says who appended it.
Marker(i, w, t) ==
    [id |-> lastId + 1, time |-> t, inv |-> i, kind |-> "marker", of |-> 0,
     range |-> <<Head(w).time, Last(w).time>>, saw |-> {e.id : e \in ToSet(w)}]

Stamped(t) == lastId' = lastId + 1 /\ now' = t

IsMarker(e)  == e.kind = "marker"
IsContent(e) == ~IsMarker(e)
Contents(s)  == {e \in ToSet(s) : IsContent(e)}

-----------------------------------------------------------------------------
(* compaction_window                                                       *)

\* The place of the last marker of s, 0 when it has none.
LastMarker(s) == Max({0} \cup {n \in DOMAIN s : IsMarker(s[n])})

\* The events since.
Tail_(s) == SubSeq(s, LastMarker(s) + 1, Len(s))

\* Vec::dedup removes repetitions next to each other, no others.
RunsOfInvocations(t) ==
    Cardinality({n \in DOMAIN t : n = 1 \/ t[n - 1].inv # t[n].inv})

Due(s) == RunsOfInvocations(Tail_(s)) >= Interval

\* A bug: the first events of the session, not the last before the tail.
OverlapFromTheStart(s) ==
    LET before == Selected(SubSeq(s, 1, LastMarker(s)), Contents(s))
        kept   == IF OverlapSize < Len(before) THEN OverlapSize ELSE Len(before)
    IN SubSeq(before, 1, kept)

Overlap(s) ==
    LET before == Selected(SubSeq(s, 1, LastMarker(s)), Contents(s))
        kept   == IF OverlapSize < Len(before) THEN OverlapSize ELSE Len(before)
    IN SubSeq(before, Len(before) - kept + 1, Len(before))

Window(s) == Overlap(s) \o Tail_(s)

-----------------------------------------------------------------------------
(* history_with_compaction                                                 *)

\* A bug: the range without its end.
CoversButTheEnd(m, e) == IsMarker(m) /\ m.range[1] <= e.time /\ e.time < m.range[2]

\* The event's time is in the marker's range.
Covers(m, e) == IsMarker(m) /\ m.range[1] <= e.time /\ e.time <= m.range[2]

\* The places after n of the markers of s that cover the event at n.
CoversOf(s, n) == {k \in n + 1 .. Len(s) : Covers(s[k], s[n])}

\* The newest of them stands for the event in the history.
Cover(s, n) == s[Max(CoversOf(s, n))]

\* The event at n is in the history of s itself, not as a summary.
Raw(s, n) == IsContent(s[n]) /\ CoversOf(s, n) = {}

-----------------------------------------------------------------------------
(* Invocations.                                                            *)

\* Calls in s without an answer.
Pending(s) ==
    {e \in ToSet(s) : e.kind = "call" /\ \A f \in ToSet(s) : f.of # e.id}

CompactionInit ==
    /\ log = <<>>
    /\ copy = [i \in Invocation |-> <<>>]
    /\ hand = [i \in Invocation |-> {}]
    /\ phase = [i \in Invocation |-> "new"]
    /\ window = [i \in Invocation |-> <<>>]
    /\ lastId = 0
    /\ now = 0

Running == {i \in Invocation : phase[i] \in {"starting", "running", "summarising"}}

\* The session is loaded and the user's message made into an event: a text, or
\* the answer to a call that an earlier invocation paused at.
Begin(i) ==
    /\ phase[i] = "new"
    /\ Cardinality(Running) < MaxRunning
    /\ copy' = [copy EXCEPT ![i] = log]
    /\ \E t \in Stamps :
           /\ \E e \in {NewEvent(i, "text", 0, t)} \cup
                       {NewEvent(i, "answer", c.id, t) : c \in {d \in Pending(log) : d.inv \notin Running}} :
                  hand' = [hand EXCEPT ![i] = {e}]
           /\ Stamped(t)
    /\ phase' = [phase EXCEPT ![i] = "starting"]
    /\ UNCHANGED <<log, window>>

\* A branch of the agent makes a text, a call, or the answer of a call it made.
\* An LlmAgent pushes the event to the live session at once; other agents
\* leave that to the runner, and make texts only.
Make(i) ==
    /\ phase[i] = "running"
    /\ lastId < MaxMade
    /\ Cardinality(hand[i]) < MaxInHand
    /\ \E t \in Stamps, pushed \in BOOLEAN :
           /\ \E e \in {NewEvent(i, "text", 0, t), NewEvent(i, "call", 0, t)} \cup
                       {NewEvent(i, "answer", c.id, t) : c \in {d \in Pending(copy[i]) : d.inv = i}} :
                  /\ pushed \/ e.kind = "text"
                  /\ hand' = [hand EXCEPT ![i] = @ \cup {e}]
                  /\ copy' = IF pushed THEN [copy EXCEPT ![i] = Append(@, e)] ELSE copy
           /\ Stamped(t)
    /\ UNCHANGED <<log, phase, window>>

\* An event reaches the runner, through the channels of parallel branches in
\* any order but that of one branch: it is taken out of the copy, and appended
\* to the copy and the store (append_event_locked).
Store(i) ==
    /\ phase[i] \in {"starting", "running"}
    /\ \E e \in hand[i] :
           /\ \A c \in hand[i] : c.id # e.of
           /\ hand' = [hand EXCEPT ![i] = @ \ {e}]
           /\ copy' = [copy EXCEPT ![i] = Append(Selected(@, ToSet(@) \ {e}), e)]
           /\ log' = Append(log, e)
    /\ phase' = [phase EXCEPT ![i] = "running"]
    /\ UNCHANGED <<window, lastId, now>>

\* The agent ended, or paused at its call, and there is something to
\* summarise: the window is computed under the lock of the copy.  Events of
\* branches whose channel was dropped are never stored; those that were pushed
\* stay in the copy.  What such a branch still pushes nobody reads.
End(i) ==
    /\ phase[i] = "running"
    /\ Due(copy[i])
    /\ phase' = [phase EXCEPT ![i] = "summarising"]
    /\ window' = [window EXCEPT ![i] = Window(copy[i])]
    /\ hand' = [hand EXCEPT ![i] = {}]
    /\ UNCHANGED <<log, copy, lastId, now>>

\* The summarizer returns Ok(Some(..)): the marker is made and stored at once.
Summarised(i) ==
    /\ phase[i] = "summarising"
    /\ \E t \in Stamps :
           /\ copy' = [copy EXCEPT ![i] = Append(@, Marker(i, window[i], t))]
           /\ log' = Append(log, Marker(i, window[i], t))
           /\ Stamped(t)
    /\ phase' = [phase EXCEPT ![i] = "summarised"]
    /\ window' = [window EXCEPT ![i] = <<>>]
    /\ UNCHANGED hand

\* The invocation is over without a marker: nothing is due, the preprocessing
\* of the user's event, the agent or a plugin fails, the summarizer returns
\* None or an error, or the invocation is dropped, and its copy with it.
Stop(i) ==
    /\ i \in Running
    /\ phase' = [phase EXCEPT ![i] = "over"]
    /\ window' = [window EXCEPT ![i] = <<>>]
    /\ hand' = [hand EXCEPT ![i] = {}]
    /\ copy' = [copy EXCEPT ![i] = <<>>]
    /\ UNCHANGED <<log, lastId, now>>

CompactionNext ==
    \E i \in Invocation : Begin(i) \/ Make(i) \/ Store(i) \/ End(i) \/ Summarised(i) \/ Stop(i)

CompactionSpec == CompactionInit /\ [][CompactionNext]_compactionVars

-----------------------------------------------------------------------------
(* What an agent that loads the log reads.                                 *)

Events ==
    [id: Nat \ {0}, time: Nat, inv: Invocation, kind: {"text", "call", "answer", "marker"}, of: Nat,
     range: Seq(Nat), saw: SUBSET Nat]

Known == ToSet(log) \cup UNION {ToSet(copy[i]) \cup hand[i] : i \in Invocation}

\* The variables have their types, a marker its range of two times, and no
\* event, stored or not, has an id or a time that was not given yet.
CompactionTypeOK ==
    /\ log \in Seq(Events)
    /\ copy \in [Invocation -> Seq(Events)]
    /\ hand \in [Invocation -> SUBSET Events]
    /\ phase \in [Invocation -> {"new", "starting", "running", "summarising", "summarised", "over"}]
    /\ window \in [Invocation -> Seq(Events)]
    /\ lastId \in Nat /\ now \in Nat
    /\ \A e \in Known :
           /\ e.id <= lastId /\ e.of <= lastId /\ e.time <= now
           /\ IsMarker(e) => Len(e.range) = 2

\* In s, e comes before an event that is not younger: it was made after, or
\* with it, and stored before it.
Overtook(s, e) ==
    \E m, n \in DOMAIN s : m < n /\ s[m] = e /\ IsContent(s[n]) /\ s[n].time <= e.time

\* Nothing a summarising invocation knew is lost: an event that a marker
\* stands for in the history was seen by that marker's summary, whichever
\* markers overlap it, unless it was appended by an invocation that the
\* marker's own did not see (history_with_compaction against
\* compaction_window).  Not promised to an event that overtook another on its
\* way to the log: the range is of the times at the window's ends.
Remembered ==
    \A n \in DOMAIN log :
        (IsContent(log[n]) /\ CoversOf(log, n) # {}) =>
            LET m == Cover(log, n)
            IN log[n] \in ToSet(copy[m.inv]) => log[n].id \in m.saw \/ Overtook(copy[m.inv], log[n])

\* A model refuses an answer without its call: no compaction hides a call
\* and leaves an answer it knew in the history (the overlap may begin
\* between the two, and so may the range of an older marker end), unless the
\* answer overtook an event that ends the range.
AnswersKeepTheirCalls ==
    \A m, n \in DOMAIN log :
        (log[m].kind = "call" /\ log[n].of = log[m].id /\ Raw(log, n) /\ ~Raw(log, m)) =>
            LET s == copy[Cover(log, m).inv]
            IN log[n] \in ToSet(s) => Overtook(s, log[n])

=============================================================================
