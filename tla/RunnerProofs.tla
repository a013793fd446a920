---------------------------- MODULE RunnerProofs ----------------------------
(***************************************************************************)
(* Proofs about modules Runner and Compaction.                             *)
(*                                                                         *)
(* Runner, for every set of calls, sessions and events: type correctness,  *)
(* no event is logged twice, cancel reaches a stream exactly while it is   *)
(* in flight, callers receive the events in the order they are stored, a   *)
(* session's state is that of its last event, and the store implements the *)
(* append-only log of module SessionLog.                                   *)
(*                                                                         *)
(* Compaction, for every number of invocations, interval and overlap:      *)
(* type correctness, no summary loses what its invocation knew, and no     *)
(* answer is left in the history without its call.                         *)
(***************************************************************************)
EXTENDS Runner, Compaction, EventLogProofs, FiniteSetTheorems

-----------------------------------------------------------------------------
(* What the operations on a session record and on a slot return.           *)

\* rposition finds an event that is in the log: the induction on the position
\* is the library's, on the distance from the end.
LEMMA PositionFacts ==
    ASSUME NEW S, NEW evs \in Seq(S), NEW e, Contains(evs, e)
    PROVE  PositionOf(evs, e) \in 1..Len(evs) /\ evs[PositionOf(evs, e)] = e
<1> DEFINE Less == {p \in Nat \X Nat : p[1] < p[2]}
           fromEnd == {n \in Nat : n < Len(evs) /\ evs[Len(evs) - n] = e}
<1>1. Len(evs) \in Nat
  BY LenProperties
<1>2. fromEnd \subseteq Nat /\ fromEnd # {}
  <2>1. PICK i \in 1..Len(evs) : evs[i] = e
    BY DEF Contains
  <2>2. Len(evs) - i \in Nat /\ Len(evs) - i < Len(evs) /\ Len(evs) - (Len(evs) - i) = i
    BY <1>1, <2>1
  <2>3. Len(evs) - i \in fromEnd
    BY <2>1, <2>2
  <2> QED
    BY <2>3
<1>3. PICK n \in fromEnd : \A m \in fromEnd : ~(m < n)
  <2>1. OpToRel(<, Nat) = Less
    BY DEF OpToRel
  <2>2. IsWellFoundedOn(Less, Nat)
    BY <2>1, NatLessThanWellFounded
  <2>3. \E n \in fromEnd : \A m \in fromEnd : <<m, n>> \notin Less
    <3> HIDE DEF fromEnd, Less
    <3> QED
      BY <1>2, <2>2, WFMin
  <2> QED
    BY <1>2, <2>3
<1>4. /\ Len(evs) - n \in 1..Len(evs)
      /\ evs[Len(evs) - n] = e
      /\ \A j \in (Len(evs) - n) + 1 .. Len(evs) : evs[j] # e
  <2>1. n \in Nat /\ n < Len(evs) /\ evs[Len(evs) - n] = e
    BY <1>3
  <2>2. ASSUME NEW j \in (Len(evs) - n) + 1 .. Len(evs), evs[j] = e
        PROVE  FALSE
    <3>1. /\ Len(evs) - j \in Nat
          /\ Len(evs) - j < n
          /\ Len(evs) - j < Len(evs)
          /\ Len(evs) - (Len(evs) - j) = j
      BY <1>1, <2>1
    <3>2. Len(evs) - j \in fromEnd
      BY <2>2, <3>1
    <3> QED
      BY <1>3, <3>1, <3>2
  <2> QED
    BY <1>1, <2>1, <2>2
<1> QED
  BY <1>4 DEF PositionOf

\* The runner takes its event out of the live log before it appends it again:
\* the event is gone afterwards, and nothing else is touched.
LEMMA WithoutEventFacts ==
    ASSUME NEW s \in Session, NEW e
    PROVE  /\ WithoutEvent(s, e) \in Session
           /\ \A x : Contains(WithoutEvent(s, e).events, x) => Contains(s.events, x)
           /\ NoDuplicates(s.events) => /\ NoDuplicates(WithoutEvent(s, e).events)
                                       /\ ~Contains(WithoutEvent(s, e).events, e)
<1> DEFINE evs == s.events
           w   == WithoutEvent(s, e)
<1>1. evs \in Seq(Event) /\ Len(evs) \in Nat
  BY LenProperties DEF Session
<1>2. CASE ~Contains(evs, e)
  BY <1>2 DEF WithoutEvent
<1>3. CASE Contains(evs, e)
  <2> DEFINE p == PositionOf(evs, e)
  <2>1. p \in 1..Len(evs) /\ evs[p] = e
    BY <1>1, <1>3, PositionFacts
  <2>2. w = [s EXCEPT !.events = RemoveAt(@, p)]
    BY <1>3 DEF WithoutEvent
  <2>3. w.events = RemoveAt(evs, p)
    BY <2>2 DEF Session
  <2> HIDE DEF p
  <2>4. /\ w.events \in Seq(Event)
        /\ Len(w.events) = Len(evs) - 1
        /\ \A j \in 1..Len(evs) - 1 : w.events[j] = IF j < p THEN evs[j] ELSE evs[j + 1]
    BY <1>1, <2>1, <2>3, RemoveAtFacts
  <2>5. w \in Session
    BY <2>2, <2>3, <2>4 DEF Session
  <2> HIDE DEF w, evs
  <2>6. \A j \in 1..Len(w.events) :
           \E k \in 1..Len(evs) :
              /\ w.events[j] = evs[k]
              /\ k # p
              /\ k = IF j < p THEN j ELSE j + 1
    BY <1>1, <2>1, <2>4
  <2>7. \A x : Contains(w.events, x) => Contains(evs, x)
    BY <2>6 DEF Contains
  <2>8. ASSUME NoDuplicates(evs)
        PROVE  NoDuplicates(w.events) /\ ~Contains(w.events, e)
    <3>1. \A j, k \in 1..Len(evs) : evs[j] = evs[k] => j = k
      BY <2>8 DEF NoDuplicates
    <3>2. ASSUME NEW j \in 1..Len(w.events), NEW k \in 1..Len(w.events), w.events[j] = w.events[k]
          PROVE  j = k
      <4>1. PICK a \in 1..Len(evs) : w.events[j] = evs[a] /\ a = IF j < p THEN j ELSE j + 1
        BY <2>6
      <4>2. PICK b \in 1..Len(evs) : w.events[k] = evs[b] /\ b = IF k < p THEN k ELSE k + 1
        BY <2>6
      <4>3. a = b
        BY <3>1, <3>2, <4>1, <4>2
      <4> QED
        BY <1>1, <2>1, <2>4, <4>1, <4>2, <4>3
    <3>3. ~Contains(w.events, e)
      BY <2>1, <2>6, <3>1 DEF Contains
    <3> QED
      BY <3>2, <3>3 DEF NoDuplicates
  <2> QED
    BY <2>5, <2>7, <2>8 DEF w, evs
<1> QED
  BY <1>2, <1>3

\* mirror_event merges an event into a slot: at most that event is added to
\* the log the slot held, or to the snapshot that seeds it.
LEMMA MirroredFacts ==
    ASSUME NEW slot \in Slot, NEW snap \in Session, NEW e \in Event
    PROVE  LET m    == Mirrored(slot, snap, e)
               base == IF slot.present THEN slot.session ELSE snap
           IN  /\ m \in Slot
               /\ m.present
               /\ m.session.events = IF Contains(base.events, e) THEN base.events
                                      ELSE Append(base.events, e)
               /\ \A x : Contains(m.session.events, x) => Contains(base.events, x) \/ x = e
               /\ NoDuplicates(base.events) => NoDuplicates(m.session.events)
<1> DEFINE base == IF slot.present THEN slot.session ELSE snap
           kept == IF Contains(base.events, e) THEN base.events ELSE Append(base.events, e)
           m    == Mirrored(slot, snap, e)
<1>1. base.events \in Seq(Event)
  BY DEF Slot, Session
<1>2. m = [present |-> TRUE, session |-> [events |-> kept, state |-> e]]
  BY DEF Mirrored
<1> HIDE DEF base, m
<1>3. /\ kept \in Seq(Event)
      /\ \A x : Contains(kept, x) => Contains(base.events, x) \/ x = e
      /\ NoDuplicates(base.events) => NoDuplicates(kept)
  BY <1>1, AppendFacts
<1> HIDE DEF kept
<1>4. m \in Slot /\ m.present /\ m.session.events = kept
  BY <1>2, <1>3 DEF Slot, Session
<1> QED
  BY <1>3, <1>4 DEF m, base, kept

-----------------------------------------------------------------------------
(* Events.                                                                 *)

\* The events of a handle: one from the user, those of its agent, one from
\* compaction.
LEMMA EventFacts ==
    ASSUME NEW h \in Handle
    PROVE  /\ Emits[h] \in Nat
           /\ UserEvent(h) \in Event
           /\ CompactionEvent(h) \in Event
           /\ AgentEvents(h) \subseteq Event
           /\ \A n \in 0 .. Emits[h] + 1 : <<h, n>> \in Event
           /\ NoEvent \notin AgentEvents(h) \cup {UserEvent(h), CompactionEvent(h)}
<1>1. Emits[h] \in Nat
  BY EmitsAssumption
<1>2. \A n \in 0 .. Emits[h] + 1 : <<h, n>> \in Event
  BY EventAssumption
<1>3. AgentEvents(h) \subseteq Event
  BY <1>1, <1>2 DEF AgentEvents
<1> QED
  BY <1>1, <1>2, <1>3, NoEventAssumption DEF UserEvent, CompactionEvent

\* An agent's event is neither the user's nor compaction's.
LEMMA AgentEventFacts ==
    ASSUME NEW h \in Handle, NEW e \in AgentEvents(h)
    PROVE  e # UserEvent(h) /\ e # CompactionEvent(h)
<1>1. PICK n \in 1 .. Emits[h] : e = <<h, n>>
  BY DEF AgentEvents
<1>2. n # 0 /\ n # Emits[h] + 1
  BY EventFacts
<1> QED
  BY <1>1, <1>2 DEF UserEvent, CompactionEvent

\* Nor is the user's event compaction's.
LEMMA UserIsNotCompaction ==
    ASSUME NEW h \in Handle
    PROVE  UserEvent(h) # CompactionEvent(h)
<1>1. 0 # Emits[h] + 1
  BY EventFacts
<1> QED
  BY <1>1 DEF UserEvent, CompactionEvent

\* A new session and an empty slot hold no event.
LEMMA NewSessionFacts ==
    /\ NewSession \in Session
    /\ NewSession.events = <<>>
    /\ NoSlot \in Slot /\ NoSlot.session = NewSession /\ NoSlot.present = FALSE
    /\ \A e : ~Contains(<<>>, e)
    /\ NoDuplicates(<<>>)
BY DEF NewSession, NoSlot, Session, Slot, Contains, NoDuplicates

-----------------------------------------------------------------------------
(* Type correctness.                                                       *)

TypeInv == TypeOK /\ CurrentEvent

\* What the agent has made so far are events of the agent.
LEMMA MadeFacts ==
    ASSUME TypeInv, NEW h \in Handle
    PROVE  {h} \X (1 .. made[h]) \subseteq AgentEvents(h)
<1>1. made[h] \in Nat /\ made[h] <= Emits[h] /\ Emits[h] \in Nat
  BY EventFacts DEF TypeInv, TypeOK, RunTypeOK, CurrentEvent
<1>2. 1 .. made[h] \subseteq 1 .. Emits[h]
  BY <1>1
<1> QED
  BY <1>2 DEF AgentEvents

\* The initial states are typed and have no event in hand.
LEMMA InitTypeInv == Init => TypeInv
<1> SUFFICES ASSUME Init PROVE TypeInv
  OBVIOUS
<1>1. StoreTypeOK
  <2>1. [NoSlot EXCEPT !.present = TRUE] \in Slot
    BY NewSessionFacts DEF NoSlot, Slot
  <2>2. sessions \in [Sid -> Slot]
    BY <2>1, NewSessionFacts DEF Init, StoreInit
  <2> QED
    BY <2>2 DEF Init, StoreInit, StoreTypeOK
<1>2. RunTypeOK
  BY NewSessionFacts DEF Init, RunTypeOK, Pc, Starting, Cut
<1>3. CurrentEvent
  BY EventFacts DEF Init, CurrentEvent, Appending
<1> QED
  BY <1>1, <1>2, <1>3 DEF TypeInv, TypeOK

\* A handle's variables keep their types when the run is left.
LEMMA ReleaseTypes ==
    ASSUME TypeInv, NEW h \in Handle, Release(h)
    PROVE  /\ live' \in [Handle -> Session]
           /\ token' \in [Handle -> BOOLEAN]
           /\ cur' \in [Handle -> Event \cup {NoEvent}]
           /\ pending' \in [Handle -> SUBSET Event]
           /\ \A g \in Handle : pending'[g] \subseteq pending[g]
           /\ \A g \in Handle \ {h} : cur'[g] = cur[g]
BY NewSessionFacts DEF TypeInv, TypeOK, RunTypeOK, Release

\* Steps that leave the store, the snapshots and the agent's events alone, and
\* move one handle to a place where no event is in hand.
LEMMA ControlStepTypeInv ==
    ASSUME TypeInv, NEW h \in Handle,
           NEW to \in Pc \ (Appending \cup {"hook"}), GoTo(h, to),
           UNCHANGED <<sid, made>>,
           StoreTypeOK',
           token' \in [Handle -> BOOLEAN],
           seed' \in [Handle -> Session],
           yielded' \in [Handle -> Seq(Event)],
           iid' \in [Handle -> Handle],
           active' \in [Handle -> Handle \cup {None}],
           cut' \in [Handle -> Cut],
           live' \in [Handle -> Session],
           \/ Release(h)
           \/ UNCHANGED <<cur, pending>>
           \/ cur' = [cur EXCEPT ![h] = NoEvent] /\ UNCHANGED pending
           \/ pending' = [pending EXCEPT ![h] = {}] /\ UNCHANGED cur
    PROVE  TypeInv'
<1>1. pc' \in [Handle -> Pc] /\ \A g \in Handle \ {h} : pc'[g] = pc[g]
  BY DEF TypeInv, TypeOK, RunTypeOK, GoTo
<1>2. /\ cur' \in [Handle -> Event \cup {NoEvent}]
      /\ pending' \in [Handle -> SUBSET Event]
      /\ \A g \in Handle : pending'[g] \subseteq pending[g]
      /\ \A g \in Handle \ {h} : cur'[g] = cur[g]
  BY ReleaseTypes DEF TypeInv, TypeOK, RunTypeOK
<1>3. pc'[h] \notin Appending \cup {"hook"}
  BY DEF TypeInv, TypeOK, RunTypeOK, GoTo
<1>4. RunTypeOK'
  BY <1>1, <1>2 DEF TypeInv, TypeOK, RunTypeOK
<1>5. CurrentEvent'
  BY <1>1, <1>2, <1>3 DEF TypeInv, CurrentEvent, UserEvent, CompactionEvent
<1> QED
  BY <1>4, <1>5 DEF TypeInv, TypeOK

\* Start: the session is looked up or created and the token registered.
LEMMA StartTypeInv ==
    ASSUME TypeInv, NEW h \in Handle, Start(h)
    PROVE  TypeInv'
<1> USE DEF TypeInv, TypeOK, RunTypeOK
<1>1. CASE Load(h)
  <2>1. StoreTypeOK' /\ sessions[sid[h]].session \in Session
    BY <1>1 DEF Load, StoreTypeOK, Slot, storeVars
  <2>3. live' \in [Handle -> Session]
    BY <1>1, <2>1 DEF Load
  <2>2. PICK to \in {"loaded", "create", "failed"} : GoTo(h, to)
    BY <1>1 DEF Load
  <2> QED
    BY <1>1, <2>1, <2>2, <2>3, ControlStepTypeInv DEF Load, storeVars, Pc, Starting, Ended, Appending
<1>2. CASE CreateCheck(h)
  <2>1. PICK to \in {"failed", "insert"} : GoTo(h, to)
    BY <1>2 DEF CreateCheck
  <2> QED
    BY <1>2, <2>1, ControlStepTypeInv
    DEF CreateCheck, StoreTypeOK, storeVars, Pc, Starting, Ended, Appending
<1>3. CASE CreateInsert(h)
  <2>1. StoreTypeOK'
    BY <1>3, NewSessionFacts DEF CreateInsert, InsertSession, StoreTypeOK, Slot
  <2>2. cut' \in [Handle -> Cut]
    BY <1>3 DEF CreateInsert, Cut
  <2> QED
    BY <1>3, <2>1, <2>2, ControlStepTypeInv DEF CreateInsert, Pc, Starting, Appending
<1>4. CASE Register(h)
  <2>1. PICK g \in Handle : /\ iid' = [iid EXCEPT ![h] = iid[g]]
                            /\ active' = [active EXCEPT ![iid[g]] = h]
    BY <1>4 DEF Register
  <2>2. iid' \in [Handle -> Handle] /\ active' \in [Handle -> Handle \cup {None}]
    BY <2>1
  <2>3. CASE GoTo(h, "live") /\ cur' = [cur EXCEPT ![h] = UserEvent(h)] /\ UNCHANGED <<token, live, pending>>
    <3>1. RunTypeOK' /\ StoreTypeOK'
      BY <1>4, <2>2, <2>3, EventFacts DEF Register, GoTo, StoreTypeOK, storeVars, Pc, Appending
    <3>2. CurrentEvent'
      BY <1>4, <2>3 DEF Register, GoTo, CurrentEvent, UserEvent, CompactionEvent
    <3> QED
      BY <3>1, <3>2
  <2>4. CASE Fail(h)
    <3>1. live' \in [Handle -> Session] /\ token' \in [Handle -> BOOLEAN]
      BY <2>4, ReleaseTypes DEF Fail
    <3> QED
      BY <1>4, <2>2, <2>4, <3>1, ControlStepTypeInv
      DEF Register, Fail, StoreTypeOK, storeVars, Pc, Ended, Appending
  <2>5. CASE GoTo(h, "before_run") /\ UNCHANGED <<token, live, cur, pending>>
    BY <1>4, <2>2, <2>5, ControlStepTypeInv DEF Register, StoreTypeOK, storeVars, Pc, Appending
  <2> QED
    BY <1>4, <2>3, <2>4, <2>5 DEF Register
<1>5. CASE BeforeRun(h)
  <2>1. CASE Fail(h)
    <3>1. live' \in [Handle -> Session] /\ token' \in [Handle -> BOOLEAN]
      BY <2>1, ReleaseTypes DEF Fail
    <3> QED
      BY <1>5, <2>1, <3>1, ControlStepTypeInv
      DEF BeforeRun, Fail, StoreTypeOK, storeVars, Pc, Ended, Appending
  <2>2. CASE GoTo(h, "ready") /\ UNCHANGED <<token, live, cur, pending>>
    BY <1>5, <2>2, ControlStepTypeInv DEF BeforeRun, StoreTypeOK, storeVars, Pc, Appending
  <2> QED
    BY <1>5, <2>1, <2>2 DEF BeforeRun
<1> QED
  BY <1>1, <1>2, <1>3, <1>4, <1>5 DEF Start

\* Finish leaves the run and clears the entry.
LEMMA FinishTypeInv ==
    ASSUME TypeInv, NEW h \in Handle, Finish(h),
           UNCHANGED <<sid, iid, made, cut>>,
           StoreTypeOK',
           seed' \in [Handle -> Session],
           yielded' \in [Handle -> Seq(Event)]
    PROVE  TypeInv'
<1>1. active' \in [Handle -> Handle \cup {None}]
  BY DEF Finish, TypeInv, TypeOK, RunTypeOK
<1>2. live' \in [Handle -> Session] /\ token' \in [Handle -> BOOLEAN]
  BY ReleaseTypes DEF Finish
<1> QED
  BY <1>1, <1>2, ControlStepTypeInv
  DEF Finish, TypeInv, TypeOK, RunTypeOK, Pc, Ended, Appending

\* append_event_locked: the event in hand goes to the live log, to the shared
\* scopes and to the store.
LEMMA AppendStepTypeInv ==
    ASSUME TypeInv, NEW h \in Handle, AppendStep(h)
    PROVE  TypeInv'
<1> USE DEF TypeInv, TypeOK, RunTypeOK
<1>1. pc[h] \in Appending => cur[h] \in Event
  BY MadeFacts, EventFacts DEF CurrentEvent
<1>2. CASE AppendLive(h)
  <2>1. ApplyEvent(live[h], cur[h]) \in Session
    BY <1>1, <1>2, AppendFacts DEF AppendLive, ApplyEvent, Session, Appending
  <2>2. StoreTypeOK' /\ RunTypeOK'
    BY <1>2, <2>1 DEF AppendLive, GoTo, StoreTypeOK, storeVars, Pc, Appending
  <2>3. CurrentEvent'
    BY <1>2 DEF AppendLive, GoTo, CurrentEvent, Appending, UserEvent, CompactionEvent
  <2> QED
    BY <2>2, <2>3
<1>3. CASE AppendScoped(h)
  <2>1. StoreTypeOK' /\ RunTypeOK'
    BY <1>1, <1>3 DEF AppendScoped, ApplyScoped, GoTo, StoreTypeOK, Pc, Appending
  <2>2. CurrentEvent'
    BY <1>3 DEF AppendScoped, GoTo, CurrentEvent, Appending, UserEvent, CompactionEvent
  <2> QED
    BY <2>1, <2>2
<1>4. CASE AppendMirror(h)
  <2>1. Mirrored(sessions[sid[h]], seed[h], cur[h]) \in Slot
    BY <1>1, <1>4, MirroredFacts DEF AppendMirror, StoreTypeOK, Appending
  <2>2. StoreTypeOK' /\ seed' \in [Handle -> Session]
    BY <1>4, <2>1, NewSessionFacts DEF AppendMirror, MirrorEvent, StoreTypeOK
  <2>3. CASE /\ GoTo(h, "before_run")
             /\ cur' = [cur EXCEPT ![h] = NoEvent]
             /\ UNCHANGED <<active, token, live, pending>>
    BY <1>4, <2>2, <2>3, ControlStepTypeInv DEF AppendMirror, Pc, Appending
  <2>4. CASE /\ cur[h] \in AgentEvents(h)
             /\ GoTo(h, "hook")
             /\ UNCHANGED <<active, token, live, cur, pending>>
    <3>1. RunTypeOK'
      BY <1>4, <2>2, <2>4 DEF AppendMirror, GoTo, Pc, Polled
    <3>2. cur[h] \in {h} \X (1 .. made[h])
      <4>1. cur[h] # UserEvent(h) /\ cur[h] # CompactionEvent(h)
        BY <2>4, AgentEventFacts
      <4> QED
        BY <1>4, <4>1 DEF CurrentEvent, AppendMirror, Appending
    <3>3. CurrentEvent'
      BY <1>4, <2>4, <3>2
      DEF AppendMirror, GoTo, CurrentEvent, Appending, UserEvent, CompactionEvent
    <3> QED
      BY <2>2, <3>1, <3>3
  <2>5. CASE Finish(h)
    BY <1>4, <2>2, <2>5, FinishTypeInv DEF AppendMirror
  <2> QED
    BY <1>4, <2>3, <2>4, <2>5 DEF AppendMirror
<1> QED
  BY <1>2, <1>3, <1>4 DEF AppendStep

\* The stream takes events from the agent and yields them.
LEMMA StreamTypeInv ==
    ASSUME TypeInv, NEW h \in Handle, Stream(h)
    PROVE  TypeInv'
<1> USE DEF TypeInv, TypeOK, RunTypeOK
<1>1. CASE Finish(h) /\ UNCHANGED <<storeVars, sid, iid, seed, made, yielded, cut>>
  BY <1>1, FinishTypeInv DEF StoreTypeOK, storeVars
<1>2. CASE FirstPoll(h)
  BY <1>1, <1>2, ControlStepTypeInv
  DEF FirstPoll, StoreTypeOK, storeVars, Pc, Polled, Appending
<1>3. CASE TakeEvent(h)
  <2>1. PICK e \in pending[h] : /\ pending' = [pending EXCEPT ![h] = @ \ {e}]
                                /\ live' = [live EXCEPT ![h] = WithoutEvent(@, e)]
                                /\ cur' = [cur EXCEPT ![h] = e]
    BY <1>3 DEF TakeEvent
  <2>2. live' \in [Handle -> Session]
    BY <2>1, WithoutEventFacts
  <2>3. StoreTypeOK' /\ RunTypeOK'
    BY <1>3, <2>1, <2>2 DEF TakeEvent, GoTo, StoreTypeOK, storeVars, Pc, Appending
  <2>4. CurrentEvent'
    BY <1>3, <2>1 DEF TakeEvent, GoTo, CurrentEvent, UserEvent, CompactionEvent, Appending
  <2> QED
    BY <2>3, <2>4
<1>4. CASE Hook(h)
  <2>1. cur[h] \in Event
    BY <1>4, MadeFacts, EventFacts DEF Hook, CurrentEvent
  <2>2. [yielded EXCEPT ![h] = Append(@, cur[h])] \in [Handle -> Seq(Event)]
    BY <2>1, AppendFacts
  <2>3. CASE /\ GoTo(h, "awaiting")
             /\ yielded' = [yielded EXCEPT ![h] = Append(@, cur[h])]
             /\ cur' = [cur EXCEPT ![h] = NoEvent]
             /\ UNCHANGED <<active, token, live, pending>>
    <3>1. StoreTypeOK' /\ yielded' \in [Handle -> Seq(Event)]
      BY <1>4, <2>2, <2>3 DEF Hook, StoreTypeOK, storeVars
    <3> QED
      BY <1>4, <2>3, <3>1, ControlStepTypeInv DEF Hook, Pc, Polled, Appending
  <2> QED
    BY <1>1, <1>4, <2>3 DEF Hook
<1>5. CASE AgentError(h)
  BY <1>1, <1>5 DEF AgentError
<1>6. CASE AgentEnd(h)
  BY <1>1, <1>6, ControlStepTypeInv
  DEF AgentEnd, StoreTypeOK, storeVars, Pc, Polled, Appending
<1>7. CASE Compact(h)
  <2>1. CASE /\ cur' = [cur EXCEPT ![h] = CompactionEvent(h)]
             /\ GoTo(h, "live")
             /\ UNCHANGED <<active, token, live, pending>>
    <3>1. StoreTypeOK' /\ RunTypeOK'
      BY <1>7, <2>1, EventFacts DEF Compact, GoTo, StoreTypeOK, storeVars, Pc, Appending
    <3>2. CurrentEvent'
      BY <1>7, <2>1 DEF Compact, GoTo, CurrentEvent, UserEvent, CompactionEvent
    <3> QED
      BY <3>1, <3>2
  <2> QED
    BY <1>1, <1>7, <2>1 DEF Compact
<1> QED
  BY <1>2, <1>3, <1>4, <1>5, <1>6, <1>7 DEF Stream

\* Agents, callers that drop or cancel, and clients that delete.
LEMMA OtherTypeInv ==
    ASSUME TypeInv,
           \/ \E h \in Handle : AgentEmit(h) \/ DropUnpolled(h) \/ Drop(h) \/ CancelHandle(h)
           \/ \E i \in Handle : Cancel(i)
           \/ \E s \in Sid : Delete(s)
    PROVE  TypeInv'
<1> USE DEF TypeInv, TypeOK, RunTypeOK
<1>1. ASSUME NEW h \in Handle, AgentEmit(h)
      PROVE  TypeInv'
  <2> DEFINE n == made[h] + 1
  <2>1. /\ n \in Nat /\ n \in 1 .. Emits[h]
        /\ made' = [made EXCEPT ![h] = n]
        /\ pending' = [pending EXCEPT ![h] = @ \cup {<<h, n>>}]
    BY <1>1, EventFacts DEF AgentEmit
  <2>2. <<h, n>> \in Event
    BY <2>1, EventFacts DEF AgentEvents
  <2> HIDE DEF n
  <2>3. PushEvent(live[h], <<h, n>>) \in Session
    <3>1. live[h] \in Session
      OBVIOUS
    <3>2. Append(live[h].events, <<h, n>>) \in Seq(Event)
      BY <2>2, <3>1, AppendFacts DEF Session
    <3> QED
      BY <3>1, <3>2 DEF PushEvent, Session
  <2>4. live' \in [Handle -> Session]
    BY <1>1, <2>3 DEF AgentEmit, n
  <2>5. StoreTypeOK' /\ RunTypeOK'
    <3>1. made' \in [Handle -> Nat]
      BY <2>1
    <3>2. pending' \in [Handle -> SUBSET Event]
      BY <2>1, <2>2
    <3> QED
      BY <1>1, <2>4, <3>1, <3>2 DEF AgentEmit, StoreTypeOK, storeVars
  <2>6. 1 .. made[h] \subseteq 1 .. n /\ n \in 1 .. n
    BY <2>1 DEF n
  <2>7. CurrentEvent'
    <3> SUFFICES ASSUME NEW g \in Handle
                 PROVE  /\ made'[g] <= Emits[g]
                        /\ pending'[g] \subseteq {g} \X (1 .. made'[g])
                        /\ pc[g] \in Appending =>
                              cur[g] \in {UserEvent(g), CompactionEvent(g)}
                                          \cup ({g} \X (1 .. made'[g]))
                        /\ pc[g] = "hook" => cur[g] \in {g} \X (1 .. made'[g])
      BY <1>1 DEF AgentEmit, CurrentEvent, UserEvent, CompactionEvent
    <3>1. CASE g = h
      BY <2>1, <2>6, <3>1, EventFacts DEF CurrentEvent
    <3>2. CASE g # h
      BY <2>1, <3>2 DEF CurrentEvent
    <3> QED
      BY <3>1, <3>2
  <2> QED
    BY <2>5, <2>7
<1>2. ASSUME NEW h \in Handle, DropUnpolled(h)
      PROVE  TypeInv'
  <2>1. live' \in [Handle -> Session] /\ token' \in [Handle -> BOOLEAN]
    BY <1>2, ReleaseTypes DEF DropUnpolled
  <2> QED
    BY <1>2, <2>1, ControlStepTypeInv
    DEF DropUnpolled, StoreTypeOK, storeVars, Pc, Ended, Appending
<1>3. ASSUME NEW h \in Handle, Drop(h)
      PROVE  TypeInv'
  BY <1>3, FinishTypeInv DEF Drop, StoreTypeOK, storeVars
<1>4. ASSUME NEW h \in Handle, CancelHandle(h) \/ Cancel(h)
      PROVE  TypeInv'
  BY <1>4
  DEF CancelHandle, Cancel, StoreTypeOK, storeVars, CurrentEvent, UserEvent, CompactionEvent
<1>5. ASSUME NEW s \in Sid, Delete(s)
      PROVE  TypeInv'
  <2>1. StoreTypeOK' /\ cut' \in [Handle -> Cut]
    BY <1>5, NewSessionFacts DEF Delete, DeleteSession, StoreTypeOK, Cut
  <2> QED
    BY <1>5, <2>1 DEF Delete, CurrentEvent, UserEvent, CompactionEvent
<1> QED
  BY <1>1, <1>2, <1>3, <1>4, <1>5

\* Every step keeps the types.
LEMMA NextTypeInv == TypeInv /\ [Next]_vars => TypeInv'
<1> SUFFICES ASSUME TypeInv, [Next]_vars
             PROVE  TypeInv'
  OBVIOUS
<1>1. CASE UNCHANGED vars
  BY <1>1
  DEF vars, storeVars, runVars, TypeInv, TypeOK, StoreTypeOK, RunTypeOK, CurrentEvent,
      UserEvent, CompactionEvent
<1> QED
  BY <1>1, StartTypeInv, AppendStepTypeInv, StreamTypeInv, OtherTypeInv DEF Next

\* Every variable of the runner and of the store keeps its type, and an append
\* always has an event of its own handle in hand (runner.rs, mem/session.rs).
THEOREM TypeCorrect == Spec => [](TypeOK /\ CurrentEvent)
<1>1. Spec => []TypeInv
  BY InitTypeInv, NextTypeInv, PTL DEF Spec
<1> QED
  BY <1>1, PTL DEF TypeInv

-----------------------------------------------------------------------------
(* The registry of running invocations.                                    *)

\* A handle moves on without touching the registry, ends and clears its entry,
\* or nothing of it changes.
LEMMA RegistryStep ==
    ASSUME TypeOK, RegistryInv, NEW h \in Handle, iid' = iid,
           \/ /\ active' = active
              /\ pc' = pc
           \/ /\ active' = active
              /\ \E to \in Pc \ {"done"} :
                    /\ GoTo(h, to)
                    /\ to \in Starting => pc[h] \in Starting
                    /\ to \in RegisteredPc => pc[h] \in RegisteredPc
           \/ Finish(h)
    PROVE  RegistryInv'
<1> USE DEF TypeOK, RunTypeOK, RegistryInv
<1>1. \A g \in Handle : SoleOwner(g)' <=> SoleOwner(g)
  BY DEF SoleOwner
<1>2. CASE pc' = pc /\ active' = active
  BY <1>1, <1>2
<1>3. CASE active' = active /\ \E to \in Pc \ {"done"} :
             /\ GoTo(h, to)
             /\ to \in Starting => pc[h] \in Starting
             /\ to \in RegisteredPc => pc[h] \in RegisteredPc
  BY <1>1, <1>3 DEF GoTo
<1>4. CASE Finish(h)
  <2>1. /\ pc' = [pc EXCEPT ![h] = "done"]
        /\ active' = [active EXCEPT ![iid[h]] = None]
    BY <1>4 DEF Finish, GoTo
  <2>2. pc'[h] \notin Starting \cup RegisteredPc
    BY <2>1 DEF Starting, RegisteredPc, Appending, Polled
  <2>3. \A g \in Handle \ {h} : SoleOwner(g) => iid[g] # iid[h]
    BY DEF SoleOwner
  <2> QED
    BY <1>1, <2>1, <2>2, <2>3
<1> QED
  BY <1>2, <1>3, <1>4

\* A call registers under its own id or under that of a call that is past its
\* own registration.
LEMMA RegisterRegistry ==
    ASSUME TypeOK, RegistryInv, NEW h \in Handle, Register(h)
    PROVE  RegistryInv'
<1> USE DEF TypeOK, RunTypeOK, RegistryInv
<1>1. PICK g \in Handle : /\ g = h \/ pc[g] \notin Starting
                          /\ iid' = [iid EXCEPT ![h] = iid[g]]
                          /\ active' = [active EXCEPT ![iid[g]] = h]
  BY DEF Register
<1>2. PICK to \in {"live", "failed", "before_run"} : GoTo(h, to)
  BY DEF Register, Fail
<1>3. pc[h] \in Starting /\ pc'[h] \notin Starting \cup {"done"}
  BY <1>2 DEF Register, GoTo, Starting
<1>4. \A k \in Handle \ {h} : pc'[k] = pc[k] /\ iid'[k] = iid[k]
  BY <1>1, <1>2 DEF GoTo
<1>5. ASSUME NEW k \in Handle, pc'[k] \in Starting
      PROVE  iid'[k] = k /\ SoleOwner(k)'
  <2>1. k # h /\ pc[k] \in Starting /\ k # g
    BY <1>1, <1>3, <1>4, <1>5
  <2>2. iid[k] = k /\ \A j \in Handle \ {k} : iid[j] # k
    BY <2>1 DEF SoleOwner
  <2> QED
    BY <1>1, <1>4, <2>1, <2>2 DEF SoleOwner
<1>6. ASSUME NEW k \in Handle \ {h}, SoleOwner(k)'
      PROVE  SoleOwner(k) /\ active'[iid'[k]] = active[iid[k]]
  <2>1. iid[k] # iid[g]
    BY <1>1, <1>4, <1>6 DEF SoleOwner
  <2>2. iid[h] = h /\ iid[k] # h
    BY <1>3 DEF SoleOwner
  <2>3. \A j \in Handle \ {k, h} : iid[j] # iid[k]
    BY <1>4, <1>6 DEF SoleOwner
  <2> QED
    BY <1>1, <1>4, <2>1, <2>2, <2>3 DEF SoleOwner
<1>7. active'[iid'[h]] = h
  BY <1>1
<1> QED
  BY <1>3, <1>4, <1>5, <1>6, <1>7

\* Every step keeps the registry invariant.
LEMMA NextRegistry == TypeOK /\ RegistryInv /\ [Next]_vars => RegistryInv'
<1> SUFFICES ASSUME TypeOK, RegistryInv, [Next]_vars
             PROVE  RegistryInv'
  OBVIOUS
<1> USE DEF Pc, Starting, Appending, Polled, Ended, RegisteredPc
<1>1. ASSUME NEW h \in Handle, Start(h)
      PROVE  RegistryInv'
  <2>1. CASE Register(h)
    BY <2>1, RegisterRegistry
  <2>2. CASE Load(h)
    BY <2>2, RegistryStep DEF Load
  <2>3. CASE CreateCheck(h)
    BY <2>3, RegistryStep DEF CreateCheck
  <2>4. CASE CreateInsert(h)
    BY <2>4, RegistryStep DEF CreateInsert
  <2>5. CASE BeforeRun(h)
    BY <2>5, RegistryStep DEF BeforeRun, Fail
  <2> QED
    BY <1>1, <2>1, <2>2, <2>3, <2>4, <2>5 DEF Start
<1>2. ASSUME NEW h \in Handle, AppendStep(h)
      PROVE  RegistryInv'
  <2>1. CASE AppendLive(h)
    BY <2>1, RegistryStep DEF AppendLive
  <2>2. CASE AppendScoped(h)
    BY <2>2, RegistryStep DEF AppendScoped
  <2>3. CASE AppendMirror(h)
    BY <2>3, RegistryStep DEF AppendMirror
  <2> QED
    BY <1>2, <2>1, <2>2, <2>3 DEF AppendStep
<1>3. ASSUME NEW h \in Handle, Stream(h)
      PROVE  RegistryInv'
  <2>1. CASE FirstPoll(h)
    BY <2>1, RegistryStep DEF FirstPoll
  <2>2. CASE TakeEvent(h)
    BY <2>2, RegistryStep DEF TakeEvent
  <2>3. CASE Hook(h)
    BY <2>3, RegistryStep DEF Hook
  <2>4. CASE AgentError(h)
    BY <2>4, RegistryStep DEF AgentError
  <2>5. CASE AgentEnd(h)
    BY <2>5, RegistryStep DEF AgentEnd
  <2>6. CASE Compact(h)
    BY <2>6, RegistryStep DEF Compact
  <2> QED
    BY <1>3, <2>1, <2>2, <2>3, <2>4, <2>5, <2>6 DEF Stream
<1>4. ASSUME NEW h \in Handle, AgentEmit(h) \/ CancelHandle(h) \/ Cancel(h)
      PROVE  RegistryInv'
  BY <1>4, RegistryStep DEF AgentEmit, CancelHandle, Cancel
<1>5. ASSUME NEW h \in Handle, DropUnpolled(h)
      PROVE  RegistryInv'
  BY <1>5, RegistryStep DEF DropUnpolled
<1>6. ASSUME NEW h \in Handle, Drop(h)
      PROVE  RegistryInv'
  BY <1>6, RegistryStep DEF Drop
<1>7. ASSUME NEW s \in Sid, Delete(s)
      PROVE  RegistryInv'
  BY <1>7 DEF Delete, RegistryInv, SoleOwner
<1>8. CASE UNCHANGED vars
  BY <1>8 DEF vars, runVars, RegistryInv, SoleOwner
<1> QED
  BY <1>1, <1>2, <1>3, <1>4, <1>5, <1>6, <1>7, <1>8 DEF Next

\* Nothing is registered at first, every call has an id of its own.
LEMMA InitRegistry == Init => RegistryInv
BY DEF Init, RegistryInv, SoleOwner, Starting, RegisteredPc, Appending, Polled

\* A stream that was polled is past its registration.
LEMMA InFlightRegistered ==
    ASSUME NEW h \in Handle, InFlight(h)
    PROVE  pc[h] \in RegisteredPc
BY DEF InFlight, RegisteredPc

\* cancel reaches a stream that is alone under its invocation id exactly while
\* it is in flight, for any number of concurrent calls, ends, errors and drops
\* (the ActiveGuard of runner.rs).
THEOREM CancelReachesExactlyInFlight == Spec => []RegisteredWhileInFlight
<1>1. TypeOK /\ RegistryInv => RegisteredWhileInFlight
  BY InFlightRegistered DEF RegisteredWhileInFlight, RegistryInv
<1>2. Spec => []TypeOK
  BY TypeCorrect, PTL
<1> QED
  BY <1>1, <1>2, InitRegistry, NextRegistry, PTL DEF Spec

-----------------------------------------------------------------------------
(* The logs.                                                               *)

HandleStep(h) ==
    \/ Start(h) \/ AppendStep(h) \/ Stream(h) \/ AgentEmit(h)
    \/ DropUnpolled(h) \/ Drop(h) \/ CancelHandle(h)

\* A step of one handle leaves the others where they are.
LEMMA HandleFrame ==
    ASSUME TypeInv, NEW h \in Handle, HandleStep(h)
    PROVE  \A g \in Handle \ {h} :
              /\ pc'[g] = pc[g] /\ cur'[g] = cur[g] /\ made'[g] = made[g]
              /\ live'[g] = live[g] /\ seed'[g] = seed[g]
<1> USE DEF TypeInv, TypeOK, RunTypeOK, GoTo, Release, Fail, Finish
<1>1. CASE Start(h)
  <2>1. CASE Load(h) \/ CreateCheck(h) \/ CreateInsert(h)
    BY <2>1 DEF Load, CreateCheck, CreateInsert
  <2>2. CASE Register(h) \/ BeforeRun(h)
    BY <2>2 DEF Register, BeforeRun
  <2> QED
    BY <1>1, <2>1, <2>2 DEF Start
<1>2. CASE AppendStep(h)
  BY <1>2 DEF AppendStep, AppendLive, AppendScoped, AppendMirror
<1>3. CASE Stream(h)
  BY <1>3 DEF Stream, FirstPoll, TakeEvent, Hook, AgentError, AgentEnd, Compact
<1>4. CASE AgentEmit(h) \/ DropUnpolled(h) \/ Drop(h) \/ CancelHandle(h)
  BY <1>4 DEF AgentEmit, DropUnpolled, Drop, CancelHandle
<1> QED
  BY <1>1, <1>2, <1>3, <1>4 DEF HandleStep

\* What may be in a log stays so: a handle never returns to where its user
\* event, or its compaction event, is still to come.
LEMMA IssuedMonotone ==
    ASSUME TypeInv, NEW h \in Handle, HandleStep(h),
           NEW g \in Handle, NEW n \in 0 .. Emits[g] + 1, Issued(g, n)
    PROVE  Issued(g, n)'
<1> USE DEF TypeInv, TypeOK, RunTypeOK
<1>1. CASE g # h
  BY <1>1, HandleFrame DEF Issued, UserEvent, CompactionEvent
<1>2. CASE g = h
  <2>1. /\ made[h] \in Nat /\ made'[h] \in Nat
        /\ made[h] <= made'[h]
    BY <1>2
    DEF HandleStep, Start, Load, CreateCheck, CreateInsert, Register, BeforeRun,
        AppendStep, AppendLive, AppendScoped, AppendMirror,
        Stream, FirstPoll, TakeEvent, Hook, AgentError, AgentEnd, Compact,
        AgentEmit, DropUnpolled, Drop, CancelHandle
  <2>2. ASSUME n \in 1 .. made[h]
        PROVE  Issued(h, n)'
    BY <2>1, <2>2 DEF Issued
  <2>3. ASSUME n = 0, pc[h] \notin Starting, ~(pc[h] = "live" /\ cur[h] = UserEvent(h))
        PROVE  pc'[h] \notin Starting /\ ~(pc'[h] = "live" /\ cur'[h] = UserEvent(h))
    <3> USE DEF GoTo, Release, Fail, Finish, Starting, Appending, Polled
    <3>1. CASE Start(h)
      BY <2>3, <3>1 DEF Start, Load, CreateCheck, CreateInsert, Register, BeforeRun
    <3>2. CASE AppendStep(h)
      BY <2>3, <3>2 DEF AppendStep, AppendLive, AppendScoped, AppendMirror
    <3>3. CASE TakeEvent(h)
      <4>1. cur'[h] \in AgentEvents(h)
        BY <3>3, MadeFacts DEF TakeEvent, CurrentEvent
      <4> QED
        BY <3>3, <4>1, AgentEventFacts DEF TakeEvent
    <3>4. CASE Compact(h)
      BY <2>3, <3>4, UserIsNotCompaction DEF Compact
    <3>5. CASE FirstPoll(h) \/ Hook(h) \/ AgentError(h) \/ AgentEnd(h)
      BY <2>3, <3>5 DEF FirstPoll, Hook, AgentError, AgentEnd
    <3>6. CASE AgentEmit(h) \/ DropUnpolled(h) \/ Drop(h) \/ CancelHandle(h)
      BY <2>3, <3>6 DEF AgentEmit, DropUnpolled, Drop, CancelHandle
    <3> QED
      BY <3>1, <3>2, <3>3, <3>4, <3>5, <3>6 DEF HandleStep, Stream
  <2>4. ASSUME n = Emits[h] + 1, pc[h] \in Ended
        PROVE  FALSE
    BY <2>4
    DEF HandleStep, Start, Load, CreateCheck, CreateInsert, Register, BeforeRun,
        AppendStep, AppendLive, AppendScoped, AppendMirror,
        Stream, FirstPoll, TakeEvent, Hook, AgentError, AgentEnd, Compact,
        AgentEmit, DropUnpolled, Drop, CancelHandle, InFlight, Ended, Appending, Polled
  <2>5. ASSUME n = Emits[h] + 1, pc[h] \in {"scoped", "mirror"}, cur[h] = CompactionEvent(h)
        PROVE  pc'[h] \in Ended \/ (pc'[h] \in {"scoped", "mirror"} /\ cur'[h] = CompactionEvent(h))
    <3>1. cur[h] # UserEvent(h) /\ cur[h] \notin AgentEvents(h)
      BY <2>5, UserIsNotCompaction, AgentEventFacts
    <3>2. CASE AppendStep(h)
      BY <2>5, <3>1, <3>2 DEF AppendStep, AppendLive, AppendScoped, AppendMirror, GoTo, Finish, Ended
    <3>3. CASE AgentEmit(h) \/ CancelHandle(h)
      BY <2>5, <3>3 DEF AgentEmit, CancelHandle
    <3> QED
      BY <2>5, <3>2, <3>3
      DEF HandleStep, Start, Load, CreateCheck, CreateInsert, Register, BeforeRun,
          Stream, FirstPoll, TakeEvent, Hook, AgentError, AgentEnd, Compact,
          DropUnpolled, Drop, Polled
  <2> QED
    BY <1>2, <2>2, <2>3, <2>4, <2>5 DEF Issued, UserEvent, CompactionEvent
<1> QED
  BY <1>1, <1>2

\* A step that adds no event to a log keeps the log invariant.
LEMMA NoAppendLogInv ==
    ASSUME LogInv,
           \A s \in Sid : \/ sessions'[s].session.events = sessions[s].session.events
                          \/ sessions'[s].session.events = <<>>,
           \A g \in Handle : \/ live'[g].events = live[g].events
                             \/ live'[g].events = <<>>
                             \/ \E s \in Sid : live'[g].events = sessions[s].session.events,
           \A g \in Handle : \/ seed'[g].events = seed[g].events
                             \/ seed'[g].events = <<>>,
           \A g \in Handle : \A n \in 0 .. Emits[g] + 1 : Issued(g, n) => Issued(g, n)',
           CurrentNotLive'
    PROVE  LogInv'
<1>1. \A e : InLogs(e)' => InLogs(e)
  BY NewSessionFacts DEF InLogs
<1>2. LoggedIsIssued'
  BY <1>1 DEF LogInv, LoggedIsIssued
<1>3. NoDuplicateEvents'
  BY NewSessionFacts DEF LogInv, NoDuplicateEvents
<1> QED
  BY <1>2, <1>3 DEF LogInv

\* The same when only the store may have changed: it lost a session.
LEMMA StoreResetLogInv ==
    ASSUME TypeInv, LogInv, NEW h \in Handle, HandleStep(h),
           \A s \in Sid : \/ sessions'[s].session.events = sessions[s].session.events
                          \/ sessions'[s].session.events = <<>>,
           \/ live'[h].events = live[h].events
           \/ live'[h].events = <<>>
           \/ \E s \in Sid : live'[h].events = sessions[s].session.events,
           seed'[h] = seed[h],
           pc'[h] = "live" => ~Contains(live'[h].events, cur'[h])
    PROVE  LogInv'
<1>1. \A g \in Handle : \A n \in 0 .. Emits[g] + 1 : Issued(g, n) => Issued(g, n)'
  BY IssuedMonotone
<1>2. CurrentNotLive'
  BY HandleFrame DEF LogInv, CurrentNotLive
<1> QED
  BY <1>1, <1>2, HandleFrame, NoAppendLogInv

\* start_internal copies and resets logs but appends to none.
LEMMA StartLogInv ==
    ASSUME TypeInv, LogInv, NEW h \in Handle, Start(h)
    PROVE  LogInv'
<1> USE DEF TypeInv, TypeOK, RunTypeOK, StoreTypeOK
<1>1. HandleStep(h)
  BY DEF HandleStep
<1>2. CASE Load(h)
  <2>1. /\ live'[h].events = live[h].events \/ live'[h].events = sessions[sid[h]].session.events
        /\ pc'[h] # "live"
    BY <1>2 DEF Load, GoTo
  <2> QED
    BY <1>1, <1>2, <2>1, StoreResetLogInv DEF Load, storeVars
<1>3. CASE CreateCheck(h)
  BY <1>1, <1>3, StoreResetLogInv DEF CreateCheck, GoTo, storeVars
<1>4. CASE CreateInsert(h)
  <2>1. \A s \in Sid : \/ sessions'[s].session.events = sessions[s].session.events
                      \/ sessions'[s].session.events = <<>>
    BY <1>4, NewSessionFacts DEF CreateInsert, InsertSession
  <2> QED
    BY <1>1, <1>4, <2>1, StoreResetLogInv DEF CreateInsert, GoTo
<1>5. CASE Register(h)
  <2>1. UserEvent(h) = <<h, 0>> /\ 0 \in 0 .. Emits[h] + 1 /\ ~Issued(h, 0)
    <3>1. Emits[h] \in Nat /\ pc[h] \in Starting
      BY <1>5, EventFacts DEF Register, Starting
    <3>2. 0 \in 0 .. Emits[h] + 1 /\ 0 # Emits[h] + 1 /\ 0 \notin 1 .. made[h]
      BY <3>1
    <3> QED
      BY <3>1, <3>2 DEF Issued, UserEvent
  <2>2. ~Contains(live[h].events, UserEvent(h))
    BY <2>1 DEF LogInv, LoggedIsIssued, InLogs
  <2>3. pc'[h] = "live" => cur'[h] = UserEvent(h) /\ live' = live
    BY <1>5 DEF Register, Fail, GoTo
  <2>4. live'[h].events = live[h].events \/ live'[h].events = <<>>
    BY <1>5, NewSessionFacts DEF Register, Fail, Release
  <2> QED
    <3>1. sessions' = sessions /\ seed' = seed
      BY <1>5 DEF Register, storeVars
    <3>2. pc'[h] = "live" => ~Contains(live'[h].events, cur'[h])
      BY <2>2, <2>3
    <3> QED
      BY <1>1, <2>4, <3>1, <3>2, StoreResetLogInv
<1>6. CASE BeforeRun(h)
  BY <1>1, <1>6, StoreResetLogInv, NewSessionFacts DEF BeforeRun, GoTo, Fail, Release, storeVars
<1> QED
  BY <1>2, <1>3, <1>4, <1>5, <1>6 DEF Start

\* A step that adds one event, which may be in a log from now on.
LEMMA OneAppended ==
    ASSUME TypeInv, LogInv, NEW h \in Handle, HandleStep(h),
           NEW m \in 0 .. Emits[h] + 1, Issued(h, m)',
           \A x : InLogs(x)' => InLogs(x) \/ x = <<h, m>>
    PROVE  LoggedIsIssued'
<1> SUFFICES ASSUME NEW g \in Handle, NEW n \in 0 .. Emits[g] + 1, InLogs(<<g, n>>)'
             PROVE  Issued(g, n)'
  BY DEF LoggedIsIssued
<1>1. CASE InLogs(<<g, n>>)
  BY <1>1, IssuedMonotone DEF LogInv, LoggedIsIssued
<1>2. CASE <<g, n>> = <<h, m>>
  BY <1>2
<1> QED
  BY <1>1, <1>2

\* An event that is added to some logs: it may be there, and it was in none of
\* them that keeps the rest of its events.
LEMMA AppendStepLogInv ==
    ASSUME TypeInv, LogInv, NEW h \in Handle, AppendStep(h)
    PROVE  LogInv'
<1> USE DEF TypeInv, TypeOK, RunTypeOK, StoreTypeOK
<1>1. HandleStep(h)
  BY DEF HandleStep
<1>2. PICK m \in 0 .. Emits[h] + 1 : cur[h] = <<h, m>> /\ Issued(h, m)'
  <2> USE DEF AppendStep, AppendLive, AppendScoped, AppendMirror, Finish, GoTo
  <2>1. /\ pc[h] \in Appending
        /\ made' = made
        /\ pc'[h] \in {"scoped", "mirror", "before_run", "hook", "done"}
        /\ pc'[h] \in {"scoped", "mirror"} => cur'[h] = cur[h]
    BY DEF Appending
  <2>2. Emits[h] \in Nat /\ made[h] \in Nat /\ made[h] <= Emits[h]
    BY EventFacts DEF CurrentEvent
  <2>3. CASE cur[h] = UserEvent(h)
    <3>1. Issued(h, 0)'
      BY <2>1 DEF Issued, Starting
    <3> QED
      BY <2>2, <2>3, <3>1 DEF UserEvent
  <2>4. CASE cur[h] = CompactionEvent(h)
    <3>1. cur[h] # UserEvent(h) /\ cur[h] \notin AgentEvents(h)
      BY <2>4, UserIsNotCompaction, AgentEventFacts
    <3>2. pc'[h] \in Ended \/ (pc'[h] \in {"scoped", "mirror"} /\ cur'[h] = CompactionEvent(h))
      BY <2>1, <2>4, <3>1 DEF Ended
    <3>3. Issued(h, Emits[h] + 1)'
      BY <3>2 DEF Issued, CompactionEvent
    <3>4. Emits[h] + 1 \in 0 .. Emits[h] + 1
      BY <2>2
    <3> HIDE DEF AppendStep, TypeOK, RunTypeOK, StoreTypeOK
    <3> QED
      BY <2>4, <3>3, <3>4 DEF CompactionEvent
  <2>5. CASE cur[h] \in {h} \X (1 .. made[h])
    <3>1. PICK k \in 1 .. made[h] : cur[h] = <<h, k>>
      BY <2>5
    <3>2. k \in 0 .. Emits[h] + 1
      BY <2>2
    <3>3. Issued(h, k)'
      BY <2>1 DEF Issued
    <3> QED
      BY <3>1, <3>2, <3>3
  <2> QED
    BY <2>1, <2>3, <2>4, <2>5 DEF CurrentEvent
<1>3. CASE AppendLive(h)
  <2> DEFINE new == ApplyEvent(live[h], cur[h])
  <2>1. new.events = Append(live[h].events, cur[h])
    BY DEF ApplyEvent
  <2>2. /\ live' = [live EXCEPT ![h] = new]
        /\ seed' = [seed EXCEPT ![h] = new]
        /\ sessions' = sessions
    BY <1>3 DEF AppendLive, storeVars
  <2>3. live[h].events \in Seq(Event) /\ cur[h] \in Event
    BY <1>2, EventFacts DEF Session
  <2> HIDE DEF new
  <2>4. \A e : Contains(new.events, e) <=> Contains(live[h].events, e) \/ e = cur[h]
    BY <2>1, <2>3, AppendFacts
  <2>5. NoDuplicates(new.events)
    <3>1. NoDuplicates(live[h].events) /\ ~Contains(live[h].events, cur[h])
      BY <1>3 DEF LogInv, NoDuplicateEvents, CurrentNotLive, AppendLive
    <3> QED
      BY <2>1, <2>3, <3>1, AppendFacts
  <2>6. \A e : InLogs(e)' => InLogs(e) \/ e = cur[h]
    BY <2>2, <2>4 DEF InLogs
  <2>7. CurrentNotLive'
    BY <1>1, <1>3, HandleFrame DEF LogInv, CurrentNotLive, AppendLive, GoTo
  <2>8. NoDuplicateEvents'
    BY <2>2, <2>5 DEF LogInv, NoDuplicateEvents
  <2> QED
    BY <1>1, <1>2, <2>6, <2>7, <2>8, OneAppended DEF LogInv
<1>4. CASE AppendScoped(h)
  BY <1>1, <1>4, StoreResetLogInv DEF AppendScoped, ApplyScoped, GoTo
<1>5. CASE AppendMirror(h)
  <2> DEFINE slot == sessions[sid[h]]
             base == IF slot.present THEN slot.session ELSE seed[h]
             new  == Mirrored(slot, seed[h], cur[h])
  <2>1. /\ sessions' = [sessions EXCEPT ![sid[h]] = new]
        /\ seed' = [seed EXCEPT ![h] = NewSession]
        /\ live'[h] = live[h] \/ live'[h] = NewSession
        /\ pc'[h] # "live"
    BY <1>5 DEF AppendMirror, MirrorEvent, Finish, Release, GoTo
  <2>2. slot \in Slot /\ seed[h] \in Session /\ cur[h] \in Event /\ sid[h] \in Sid
    BY <1>2, EventFacts
  <2>3. /\ \A x : Contains(new.session.events, x) => Contains(base.events, x) \/ x = cur[h]
        /\ NoDuplicates(base.events) => NoDuplicates(new.session.events)
    BY <2>2, MirroredFacts
  <2>4. /\ \A x : Contains(base.events, x) => InLogs(x)
        /\ NoDuplicates(base.events)
    BY <2>2 DEF InLogs, LogInv, NoDuplicateEvents
  <2> HIDE DEF new, base, slot
  <2>5. \A g \in Handle : live'[g] = live[g] \/ live'[g] = NewSession
    BY <1>1, <2>1, HandleFrame
  <2>6. \A x : InLogs(x)' => InLogs(x) \/ x = cur[h]
    BY <2>1, <2>2, <2>3, <2>4, <2>5, NewSessionFacts DEF InLogs
  <2>7. NoDuplicateEvents'
    BY <2>1, <2>2, <2>3, <2>4, <2>5, NewSessionFacts DEF LogInv, NoDuplicateEvents
  <2>8. CurrentNotLive'
    BY <1>1, <2>1, HandleFrame DEF LogInv, CurrentNotLive
  <2> QED
    BY <1>1, <1>2, <2>6, <2>7, <2>8, OneAppended DEF LogInv
<1> QED
  BY <1>3, <1>4, <1>5 DEF AppendStep

\* The stream only takes events out of the live log.
LEMMA StreamLogInv ==
    ASSUME TypeInv, LogInv, NEW h \in Handle, Stream(h)
    PROVE  LogInv'
<1> USE DEF TypeInv, TypeOK, RunTypeOK, StoreTypeOK
<1>1. HandleStep(h)
  BY DEF HandleStep
<1>2. CASE TakeEvent(h)
  <2>1. PICK e \in pending[h] : /\ live' = [live EXCEPT ![h] = WithoutEvent(@, e)]
                                /\ cur' = [cur EXCEPT ![h] = e]
    BY <1>2 DEF TakeEvent
  <2> DEFINE new == WithoutEvent(live[h], e)
  <2>2. /\ \A x : Contains(new.events, x) => Contains(live[h].events, x)
        /\ NoDuplicates(new.events) /\ ~Contains(new.events, e)
    BY WithoutEventFacts DEF LogInv, NoDuplicateEvents
  <2> HIDE DEF new
  <2>3. live' = [live EXCEPT ![h] = new] /\ sessions' = sessions /\ seed' = seed
    BY <1>2, <2>1 DEF TakeEvent, storeVars, new
  <2>4. \A x : InLogs(x)' => InLogs(x)
    BY <2>2, <2>3 DEF InLogs
  <2>5. LoggedIsIssued'
    BY <1>1, <2>4, IssuedMonotone DEF LogInv, LoggedIsIssued
  <2>6. NoDuplicateEvents'
    BY <2>2, <2>3 DEF LogInv, NoDuplicateEvents
  <2>7. CurrentNotLive'
    BY <1>1, <2>1, <2>2, <2>3, HandleFrame DEF LogInv, CurrentNotLive
  <2> QED
    BY <2>5, <2>6, <2>7 DEF LogInv
<1>3. CASE Compact(h)
  <2>1. /\ CompactionEvent(h) = <<h, Emits[h] + 1>>
        /\ Emits[h] + 1 \in 0 .. Emits[h] + 1
        /\ ~Issued(h, Emits[h] + 1)
    <3>1. Emits[h] \in Nat /\ made[h] \in Nat /\ made[h] <= Emits[h] /\ pc[h] = "compact"
      BY <1>3, EventFacts DEF Compact, CurrentEvent
    <3>2. Emits[h] + 1 # 0 /\ Emits[h] + 1 \notin 1 .. made[h]
      BY <3>1
    <3>3. ~Issued(h, Emits[h] + 1)
      BY <3>1, <3>2 DEF Issued, Ended
    <3> QED
      BY <3>1, <3>3 DEF CompactionEvent
  <2>2. ~Contains(live[h].events, CompactionEvent(h))
    BY <2>1 DEF LogInv, LoggedIsIssued, InLogs
  <2>3. pc'[h] = "live" => cur'[h] = CompactionEvent(h) /\ live' = live
    BY <1>3 DEF Compact, Finish, GoTo
  <2>4. live'[h].events = live[h].events \/ live'[h].events = <<>>
    BY <1>3, NewSessionFacts DEF Compact, Finish, Release
  <2> QED
    <3>1. sessions' = sessions /\ seed' = seed
      BY <1>3 DEF Compact, storeVars
    <3>2. pc'[h] = "live" => ~Contains(live'[h].events, cur'[h])
      BY <2>2, <2>3
    <3> QED
      BY <1>1, <2>4, <3>1, <3>2, StoreResetLogInv
<1>4. CASE FirstPoll(h) \/ Hook(h) \/ AgentError(h) \/ AgentEnd(h)
  <2>1. pc'[h] # "live" /\ sessions' = sessions /\ seed' = seed
    BY <1>4 DEF FirstPoll, Hook, AgentError, AgentEnd, Finish, GoTo, storeVars
  <2>2. live'[h].events = live[h].events \/ live'[h].events = <<>>
    BY <1>4, NewSessionFacts DEF FirstPoll, Hook, AgentError, AgentEnd, Finish, Release
  <2> QED
    BY <1>1, <2>1, <2>2, StoreResetLogInv
<1> QED
  BY <1>2, <1>3, <1>4 DEF Stream

\* The agent's next event is new to every log.
LEMMA AgentEmitLogInv ==
    ASSUME TypeInv, LogInv, NEW h \in Handle, AgentEmit(h)
    PROVE  LogInv'
<1> USE DEF TypeInv, TypeOK, RunTypeOK, StoreTypeOK
<1>0. PICK n \in Nat : n = made[h] + 1
  OBVIOUS
<1> DEFINE new == PushEvent(live[h], <<h, n>>)
<1>1. HandleStep(h)
  BY DEF HandleStep
<1>2. /\ made[h] \in Nat /\ Emits[h] \in Nat /\ n \in 1 .. Emits[h]
      /\ n # 0 /\ n \notin 1 .. made[h] /\ n # Emits[h] + 1
  BY <1>0, EventFacts DEF AgentEmit
<1>3. <<h, n>> \in Event
  BY <1>2, EventFacts DEF AgentEvents
<1>4. ~Issued(h, n)
  BY <1>2 DEF Issued
<1>5. ~InLogs(<<h, n>>)
  BY <1>2, <1>4 DEF LogInv, LoggedIsIssued
<1>6. /\ \A x : Contains(new.events, x) => Contains(live[h].events, x) \/ x = <<h, n>>
      /\ NoDuplicates(new.events)
  <2>1. live[h].events \in Seq(Event) /\ new.events = Append(live[h].events, <<h, n>>)
    <3> live[h] \in Session
      OBVIOUS
    <3> QED
      BY DEF Session, PushEvent
  <2>2. NoDuplicates(live[h].events) /\ ~Contains(live[h].events, <<h, n>>)
    BY <1>5 DEF LogInv, NoDuplicateEvents, InLogs
  <2> HIDE DEF new
  <2> QED
    BY <1>3, <2>1, <2>2, AppendFacts
<1>7. /\ live' = [live EXCEPT ![h] = new] \/ live' = live
      /\ sessions' = sessions /\ seed' = seed /\ pc' = pc /\ cur' = cur
      /\ made' = [made EXCEPT ![h] = n]
  BY <1>0 DEF AgentEmit, storeVars
<1>8. Issued(h, n)'
  <2>1. n \in 1 .. made'[h]
    BY <1>2, <1>7
  <2> QED
    BY <2>1 DEF Issued
<1>9. pc[h] = "live" => cur[h] # <<h, n>>
  <2>1. ASSUME pc[h] = "live", cur[h] = <<h, n>>
        PROVE  FALSE
    <3>1. UserEvent(h) # <<h, n>> /\ CompactionEvent(h) # <<h, n>>
      BY <1>2 DEF UserEvent, CompactionEvent
    <3>2. <<h, n>> \notin {h} \X (1 .. made[h])
      BY <1>2
    <3> QED
      BY <2>1, <3>1, <3>2 DEF CurrentEvent, Appending
  <2> QED
    BY <2>1
<1> HIDE DEF new
<1>10. \A x : InLogs(x)' => InLogs(x) \/ x = <<h, n>>
  BY <1>6, <1>7 DEF InLogs
<1>11. n \in 0 .. Emits[h] + 1
  BY <1>2
<1>12. NoDuplicateEvents'
  BY <1>6, <1>7 DEF LogInv, NoDuplicateEvents
<1>13. CurrentNotLive'
  BY <1>6, <1>7, <1>9 DEF LogInv, CurrentNotLive
<1> QED
  BY <1>1, <1>8, <1>10, <1>11, <1>12, <1>13, OneAppended DEF LogInv

\* Every step keeps the log invariant.
LEMMA NextLogInv == TypeInv /\ LogInv /\ [Next]_vars => LogInv'
<1> SUFFICES ASSUME TypeInv, LogInv, [Next]_vars
             PROVE  LogInv'
  OBVIOUS
<1> USE DEF TypeInv, TypeOK, RunTypeOK, StoreTypeOK
<1>1. ASSUME NEW h \in Handle, DropUnpolled(h) \/ Drop(h) \/ CancelHandle(h)
      PROVE  LogInv'
  <2>1. HandleStep(h) /\ sessions' = sessions /\ seed' = seed
    BY <1>1 DEF HandleStep, DropUnpolled, Drop, CancelHandle, storeVars
  <2>2. live'[h].events = live[h].events \/ live'[h].events = <<>>
    BY <1>1, NewSessionFacts DEF DropUnpolled, Drop, CancelHandle, Finish, Release
  <2>3. pc'[h] = "live" => ~Contains(live'[h].events, cur'[h])
    BY <1>1 DEF DropUnpolled, Drop, CancelHandle, Finish, GoTo, LogInv, CurrentNotLive
  <2> QED
    BY <2>1, <2>2, <2>3, StoreResetLogInv
<1>2. ASSUME NEW i \in Handle, Cancel(i)
      PROVE  LogInv'
  BY <1>2
  DEF Cancel, storeVars, LogInv, LoggedIsIssued, InLogs, Issued, NoDuplicateEvents, CurrentNotLive,
      UserEvent, CompactionEvent
<1>3. ASSUME NEW s \in Sid, Delete(s)
      PROVE  LogInv'
  <2>1. \A r \in Sid : \/ sessions'[r].session.events = sessions[r].session.events
                      \/ sessions'[r].session.events = <<>>
    BY <1>3, NewSessionFacts DEF Delete, DeleteSession
  <2>2. UNCHANGED <<pc, cur, made, live, seed>>
    BY <1>3 DEF Delete
  <2>3. \A g \in Handle : \A n \in 0 .. Emits[g] + 1 : Issued(g, n) => Issued(g, n)'
    BY <2>2 DEF Issued, UserEvent, CompactionEvent
  <2>4. CurrentNotLive'
    BY <2>2 DEF LogInv, CurrentNotLive
  <2> QED
    BY <2>1, <2>2, <2>3, <2>4, NoAppendLogInv
<1>4. CASE UNCHANGED vars
  BY <1>4
  DEF vars, runVars, storeVars, LogInv, LoggedIsIssued, InLogs, Issued, NoDuplicateEvents,
      CurrentNotLive, UserEvent, CompactionEvent
<1> QED
  BY <1>1, <1>2, <1>3, <1>4, StartLogInv, AppendStepLogInv, StreamLogInv, AgentEmitLogInv DEF Next

\* All logs start empty.
LEMMA InitLogInv == Init => LogInv
<1> SUFFICES ASSUME Init PROVE LogInv
  OBVIOUS
<1>1. /\ \A s \in Sid : sessions[s].session.events = <<>>
      /\ \A h \in Handle : live[h].events = <<>> /\ seed[h].events = <<>>
  BY NewSessionFacts DEF Init, StoreInit, NoSlot
<1>2. \A e : ~InLogs(e)
  BY <1>1, NewSessionFacts DEF InLogs
<1>3. NoDuplicateEvents
  BY <1>1, NewSessionFacts DEF NoDuplicateEvents
<1> QED
  BY <1>2, <1>3 DEF Init, LogInv, LoggedIsIssued, CurrentNotLive

\* No event is twice in the stored session or in a live one, for any number of
\* invocations that append to the same sessions while others create and delete
\* them, and agents that push before the runner appends.
THEOREM EventsLoggedOnce == Spec => []NoDuplicateEvents
<1>1. Spec => []TypeInv
  BY InitTypeInv, NextTypeInv, PTL DEF Spec
<1>2. Spec => []LogInv
  BY <1>1, InitLogInv, NextLogInv, PTL DEF Spec
<1>3. LogInv => NoDuplicateEvents
  BY DEF LogInv
<1> QED
  BY <1>2, <1>3, PTL

-----------------------------------------------------------------------------
(* What callers have received and what is stored.                          *)

\* Handles that hold a snapshot of their session: those cut when it goes away.
Holding(h) == pc[h] \notin {"new", "create", "insert", "failed"}

\* The agent has not been started.
Early(h) ==
    \/ pc[h] \in Starting \cup {"before_run", "ready", "failed"}
    \/ pc[h] \in Appending /\ cur[h] = UserEvent(h)

StoredLog(h) == sessions[sid[h]].session.events

\* The session of a handle that was not cut is there, what the handle has still to
\* append is not in it, and it has its agent's events as the caller received them,
\* with the one in hand, if it was appended already.
Writes(h) ==
    /\ Early(h) => made[h] = 0 /\ yielded[h] = <<>>
    /\ pc[h] \in Appending \cup {"hook"} => cur[h] \notin pending[h]
    /\ cut[h] = "no" =>
          /\ Holding(h) => Has(sid[h])
          /\ \A e : Contains(StoredLog(h), e) =>
                e \notin pending[h] /\ ~ (pc[h] \in Appending /\ cur[h] = e)
          /\ pc[h] = "hook" => StoredEvents(h) = Append(yielded[h], cur[h])
          /\ pc[h] \notin Ended \cup {"hook"} => StoredEvents(h) = yielded[h]
          /\ pc[h] \in Ended => \/ StoredEvents(h) = yielded[h]
                                \/ \E e \in Event : StoredEvents(h) = Append(yielded[h], e)

WriteInv == \A h \in Handle : Writes(h)

LEMMA WritesGiveOrder == TypeInv /\ WriteInv => PersistedInYieldOrder
<1> SUFFICES ASSUME TypeInv, WriteInv, NEW h \in Handle, cut[h] = "no"
             PROVE  IsPrefix(yielded[h], StoredEvents(h)) /\ Len(StoredEvents(h)) <= Len(yielded[h]) + 1
  BY DEF PersistedInYieldOrder
<1>1. yielded[h] \in Seq(Event) /\ (pc[h] = "hook" => cur[h] \in Event)
  BY MadeFacts, EventFacts DEF TypeInv, TypeOK, RunTypeOK, CurrentEvent
<1>2. \/ StoredEvents(h) = yielded[h]
      \/ \E e \in Event : StoredEvents(h) = Append(yielded[h], e)
  BY <1>1 DEF WriteInv, Writes
<1>3. CASE StoredEvents(h) = yielded[h]
  <2>1. Len(yielded[h]) \in Nat
    BY <1>1
  <2> QED
    BY <1>3, <2>1 DEF IsPrefix
<1>4. ASSUME NEW e \in Event, StoredEvents(h) = Append(yielded[h], e)
      PROVE  IsPrefix(yielded[h], StoredEvents(h)) /\ Len(StoredEvents(h)) <= Len(yielded[h]) + 1
  <2> DEFINE y == yielded[h]
             t == Append(y, e)
  <2>1. y \in Seq(Event) /\ Len(t) = Len(y) + 1 /\ Len(y) \in Nat
        /\ \A i \in 1 .. Len(y) : t[i] = y[i]
    BY <1>1
  <2>2. SubSeq(y, 1, Len(y)) = SubSeq(t, 1, Len(y))
    BY <2>1
  <2>3. IsPrefix(y, t)
    BY <2>1, <2>2 DEF IsPrefix
  <2> QED
    BY <1>4, <2>1, <2>3
<1> QED
  BY <1>2, <1>3, <1>4

\* The events of an agent that was not started are in no log.
LEMMA EarlyStored ==
    ASSUME TypeInv, LogInv, NEW g \in Handle, made[g] = 0,
           NEW evs \in Seq(Event), \A e : Contains(evs, e) => InLogs(e) \/ e \notin AgentEvents(g)
    PROVE  Selected(evs, AgentEvents(g)) = <<>>
<1>1. Emits[g] \in Nat
  BY EventFacts
<1>2. ASSUME NEW n \in 1 .. Emits[g] PROVE ~ InLogs(<<g, n>>)
  <2>1. n \in 0 .. Emits[g] + 1 /\ n # 0 /\ n # Emits[g] + 1 /\ n \notin 1 .. made[g]
    BY <1>1
  <2> QED
    BY <2>1 DEF LogInv, LoggedIsIssued, Issued
<1>3. \A i \in 1 .. Len(evs) : Contains(evs, evs[i])
  BY DEF Contains
<1>4. \A i \in 1 .. Len(evs) : evs[i] \notin AgentEvents(g)
  BY <1>2, <1>3 DEF AgentEvents
<1> QED
  BY <1>4, SelectedNone

\* The variables of a handle that Writes is about.
Own(h) == <<pc[h], cur[h], made[h], pending[h], yielded[h], sid[h]>>

\* What is left of a handle's obligations when its session may have been deleted
\* or replaced: it was cut, or has not appended anything.
LEMMA LostSession ==
    ASSUME TypeInv, WriteInv, NEW g \in Handle, UNCHANGED Own(g),
           cut'[g] = "no" => cut[g] = "no" /\ ~ Holding(g),
           Selected(StoredLog(g)', AgentEvents(g)) = <<>>,
           \A e : Contains(StoredLog(g)', e) => e \notin pending[g]
    PROVE  Writes(g)'
<1>1. /\ pc'[g] = pc[g] /\ cur'[g] = cur[g] /\ made'[g] = made[g] /\ pending'[g] = pending[g]
      /\ yielded'[g] = yielded[g] /\ sid'[g] = sid[g]
  BY DEF Own
<1>2. Early(g)' = Early(g) /\ Holding(g)' = Holding(g)
  BY <1>1 DEF Early, Holding, UserEvent
<1>3. StoredEvents(g)' = <<>>
  BY DEF StoredEvents, StoredLog, AgentEvents
<1>4. ~ Holding(g) => yielded[g] = <<>> /\ pc[g] \notin Appending \cup {"hook"}
  BY DEF WriteInv, Writes, Holding, Early, Starting, Appending
<1> QED
  BY <1>1, <1>2, <1>3, <1>4 DEF WriteInv, Writes

\* The session stays as it is for a handle that does nothing.
LEMMA SameSession ==
    ASSUME WriteInv, NEW g \in Handle, UNCHANGED Own(g), cut'[g] = "no" => cut[g] = "no",
           sessions'[sid[g]] = sessions[sid[g]]
    PROVE  Writes(g)'
<1>1. /\ pc'[g] = pc[g] /\ cur'[g] = cur[g] /\ made'[g] = made[g] /\ pending'[g] = pending[g]
      /\ yielded'[g] = yielded[g] /\ sid'[g] = sid[g]
  BY DEF Own
<1>2. /\ Early(g)' = Early(g) /\ Holding(g)' = Holding(g) /\ StoredLog(g)' = StoredLog(g)
      /\ StoredEvents(g)' = StoredEvents(g) /\ Has(sid[g])' = Has(sid[g])
  BY <1>1 DEF Early, Holding, UserEvent, StoredLog, StoredEvents, Has, AgentEvents
<1> QED
  BY <1>1, <1>2 DEF WriteInv, Writes

\* A step of one handle leaves the others' variables alone.
LEMMA OwnFrame ==
    ASSUME TypeInv, NEW h \in Handle, HandleStep(h)
    PROVE  \A g \in Handle \ {h} : UNCHANGED Own(g)
<1> USE DEF TypeInv, TypeOK, RunTypeOK, GoTo, Release, Fail, Finish, Own
<1>1. CASE Start(h)
  <2>1. CASE Load(h) \/ CreateCheck(h) \/ CreateInsert(h)
    BY <2>1 DEF Load, CreateCheck, CreateInsert
  <2>2. CASE Register(h) \/ BeforeRun(h)
    BY <2>2 DEF Register, BeforeRun
  <2> QED
    BY <1>1, <2>1, <2>2 DEF Start
<1>2. CASE AppendStep(h)
  BY <1>2 DEF AppendStep, AppendLive, AppendScoped, AppendMirror
<1>3. CASE Stream(h)
  BY <1>3 DEF Stream, FirstPoll, TakeEvent, Hook, AgentError, AgentEnd, Compact
<1>4. CASE AgentEmit(h) \/ DropUnpolled(h) \/ Drop(h) \/ CancelHandle(h)
  BY <1>4 DEF AgentEmit, DropUnpolled, Drop, CancelHandle
<1> QED
  BY <1>1, <1>2, <1>3, <1>4 DEF HandleStep

\* A handle's own obligations in a step that does not touch the store.
LEMMA OwnStep ==
    ASSUME TypeInv, LogInv, WriteInv, NEW h \in Handle, HandleStep(h),
           ~ CreateInsert(h), ~ AppendMirror(h), UNCHANGED <<sessions, cut>>
    PROVE  Writes(h)'
<1>1. /\ sid' = sid /\ StoredLog(h)' = StoredLog(h) /\ Has(sid[h])' = Has(sid[h])
      /\ StoredEvents(h)' = StoredEvents(h)
  <2>1. sid' = sid
    BY DEF HandleStep, Start, Load, CreateCheck, CreateInsert, Register, BeforeRun,
           AppendStep, AppendLive, AppendScoped, AppendMirror,
           Stream, FirstPoll, TakeEvent, Hook, AgentError, AgentEnd, Compact,
           AgentEmit, DropUnpolled, Drop, CancelHandle
  <2> QED
    BY <2>1 DEF StoredLog, StoredEvents, Has, AgentEvents
<1>2. /\ made[h] \in Nat /\ made[h] <= Emits[h] /\ Emits[h] \in Nat
      /\ pending[h] \subseteq {h} \X (1 .. made[h])
  BY EventFacts DEF TypeInv, TypeOK, RunTypeOK, CurrentEvent
<1>3. /\ UserEvent(h) \notin pending[h] /\ CompactionEvent(h) \notin pending[h]
      /\ <<h, made[h] + 1>> \notin pending[h] /\ <<h, made[h] + 1>> # UserEvent(h)
  BY <1>2 DEF UserEvent, CompactionEvent
<1>4. \A n \in 0 .. Emits[h] + 1 : ~ Issued(h, n) => ~ Contains(StoredLog(h), <<h, n>>)
  <2>1. sid[h] \in Sid
    BY DEF TypeInv, TypeOK, RunTypeOK
  <2> QED
    BY <2>1 DEF LogInv, LoggedIsIssued, InLogs, StoredLog
<1>5. Writes(h)
  BY DEF WriteInv
<1>6. /\ \A p : pc' = [pc EXCEPT ![h] = p] => pc'[h] = p
      /\ \A p : cur' = [cur EXCEPT ![h] = p] => cur'[h] = p
      /\ \A p : pending' = [pending EXCEPT ![h] = p] => pending'[h] = p
      /\ \A p : yielded' = [yielded EXCEPT ![h] = p] => yielded'[h] = p
      /\ \A p : made' = [made EXCEPT ![h] = p] => made'[h] = p
  BY DEF TypeInv, TypeOK, RunTypeOK
<1> USE <1>1, <1>5, <1>6 DEF Writes, GoTo
\* Places from which the stream is left.
<1>7. ASSUME pc'[h] \in {"done", "dropped"}, Release(h), UNCHANGED <<made, yielded>>,
             pc[h] \in Polled \cup {"ready"}
      PROVE  Writes(h)'
  <2>1. pending'[h] = {} /\ cur'[h] = NoEvent /\ yielded'[h] = yielded[h] /\ made'[h] = made[h]
    BY <1>7 DEF Release
  <2>2. ~ Early(h)' /\ Holding(h) /\ pc'[h] \in Ended /\ pc'[h] \notin Appending \cup {"hook"}
    BY <1>7 DEF Early, Holding, Polled, Appending, Starting, Ended
  <2>3. pc[h] = "hook" => cur[h] \in Event
    BY MadeFacts, EventFacts DEF TypeInv, CurrentEvent
  <2>4. pc[h] \notin Ended
    BY <1>7 DEF Ended, Polled
  <2> QED
    BY <2>1, <2>2, <2>3, <2>4
<1>8. CASE Load(h) \/ CreateCheck(h)
  <2>1. /\ pc[h] \in {"new", "create"} /\ pc'[h] \in {"loaded", "create", "insert", "failed"}
        /\ pc'[h] = "loaded" => Has(sid[h])
        /\ UNCHANGED <<cur, made, pending, yielded>>
    BY <1>8 DEF Load, CreateCheck
  <2>2. Early(h) /\ Early(h)'
    BY <2>1 DEF Early, Starting
  <2> QED
    BY <2>1, <2>2 DEF Appending, Holding, Ended
<1>9. CASE Register(h)
  <2>1. ~ Contains(StoredLog(h), UserEvent(h))
    <3>1. pc[h] \in Starting /\ 0 \in 0 .. Emits[h] + 1 /\ 0 \notin 1 .. made[h] /\ 0 # Emits[h] + 1
      BY <1>2, <1>9 DEF Register, Starting
    <3> QED
      BY <1>4, <3>1 DEF Issued, UserEvent
  <2>2. Early(h) /\ Holding(h) /\ pc[h] = "loaded" /\ UNCHANGED <<made, yielded>>
    BY <1>9 DEF Register, Early, Holding, Starting
  <2>3. \/ pc'[h] = "live" /\ cur'[h] = UserEvent(h) /\ pending' = pending
        \/ pc'[h] = "failed" /\ pending'[h] = {}
        \/ pc'[h] = "before_run" /\ pending' = pending
    BY <1>9 DEF Register, Fail, Release
  <2> QED
    BY <1>3, <2>1, <2>2, <2>3 DEF Early, Starting, Appending, Holding, Ended
<1>10. CASE BeforeRun(h)
  <2>1. Early(h) /\ Holding(h) /\ pc[h] = "before_run" /\ UNCHANGED <<made, yielded>>
    BY <1>10 DEF BeforeRun, Early, Holding
  <2>2. \/ pc'[h] = "failed" /\ pending'[h] = {}
        \/ pc'[h] = "ready" /\ pending' = pending
    BY <1>10 DEF BeforeRun, Fail, Release
  <2> QED
    BY <2>1, <2>2 DEF Early, Starting, Appending, Holding, Ended
<1>11. CASE AppendLive(h) \/ AppendScoped(h)
  BY <1>11 DEF AppendLive, AppendScoped, Early, Starting, Appending, Holding, Ended, UserEvent
<1>12. CASE FirstPoll(h)
  <2>1. CASE Finish(h)
    BY <1>7, <1>12, <2>1 DEF FirstPoll, Finish
  <2>2. CASE ~ Finish(h)
    BY <1>12, <2>2 DEF FirstPoll, Early, Starting, Appending, Holding, Ended
  <2> QED
    BY <2>1, <2>2
<1>13. CASE TakeEvent(h)
  <2>1. PICK e \in pending[h] : cur'[h] = e /\ pending'[h] = pending[h] \ {e}
    BY <1>13 DEF TakeEvent
  <2>2. pc[h] = "awaiting" /\ pc'[h] = "live" /\ UNCHANGED <<made, yielded>>
    BY <1>13 DEF TakeEvent
  <2>3. e # UserEvent(h)
    BY <1>3
  <2> QED
    BY <2>1, <2>2, <2>3 DEF Early, Starting, Appending, Holding, Ended, UserEvent
<1>14. CASE Hook(h)
  <2>1. CASE Finish(h)
    BY <1>7, <1>14, <2>1 DEF Hook, Finish, Polled
  <2>2. CASE ~ Finish(h)
    <3>1. /\ pc[h] = "hook" /\ pc'[h] = "awaiting" /\ yielded'[h] = Append(yielded[h], cur[h])
          /\ UNCHANGED <<made, pending>>
      BY <1>14, <2>2 DEF Hook
    <3> QED
      BY <3>1 DEF Early, Starting, Appending, Holding, Ended
  <2> QED
    BY <2>1, <2>2
<1>15. CASE AgentError(h) \/ Drop(h)
  BY <1>7, <1>15 DEF AgentError, Drop, Finish, Polled
<1>16. CASE AgentEnd(h)
  <2>1. CASE Finish(h)
    BY <1>7, <1>16, <2>1 DEF AgentEnd, Finish, Polled
  <2>2. CASE ~ Finish(h)
    BY <1>16, <2>2 DEF AgentEnd, Early, Starting, Appending, Holding, Ended
  <2> QED
    BY <2>1, <2>2
<1>17. CASE Compact(h)
  <2>1. CASE Finish(h)
    BY <1>7, <1>17, <2>1 DEF Compact, Finish, Polled
  <2>2. CASE ~ Finish(h)
    <3>1. /\ pc[h] = "compact" /\ pc'[h] = "live" /\ cur'[h] = CompactionEvent(h)
          /\ UNCHANGED <<made, pending, yielded>>
      BY <1>17, <2>2 DEF Compact
    <3>2. ~ Contains(StoredLog(h), CompactionEvent(h))
      <4>1. Emits[h] + 1 \in 0 .. Emits[h] + 1 /\ Emits[h] + 1 # 0 /\ Emits[h] + 1 \notin 1 .. made[h]
        BY <1>2
      <4>2. ~ Issued(h, Emits[h] + 1)
        BY <3>1, <4>1 DEF Issued, Ended
      <4> QED
        BY <1>4, <4>1, <4>2 DEF CompactionEvent
    <3> QED
      BY <1>3, <3>1, <3>2, UserIsNotCompaction DEF Early, Starting, Appending, Holding, Ended, UserEvent
  <2> QED
    BY <2>1, <2>2
<1>18. CASE DropUnpolled(h)
  BY <1>7, <1>18 DEF DropUnpolled
<1>19. CASE CancelHandle(h)
  BY <1>19 DEF CancelHandle, Early, Holding, UserEvent
<1>20. CASE AgentEmit(h)
  <2> DEFINE e == <<h, made[h] + 1>>
  <2>1. /\ UNCHANGED <<pc, cur, yielded>> /\ pending'[h] = pending[h] \cup {e}
        /\ made[h] < Emits[h] /\ pc[h] # "hook"
    BY <1>20 DEF AgentEmit, Appending
  <2>2. ~ Early(h) /\ ~ Early(h)'
    <3>1. ~ Early(h)
      BY <1>20 DEF AgentEmit, InFlight, Early, Polled, Appending, Starting
    <3> QED
      BY <2>1, <3>1 DEF Early, UserEvent
  <2>3. ~ Contains(StoredLog(h), e)
    <3>1. /\ made[h] + 1 \in 0 .. Emits[h] + 1 /\ made[h] + 1 # 0 /\ made[h] + 1 # Emits[h] + 1
          /\ made[h] + 1 \notin 1 .. made[h]
      BY <1>2, <2>1
    <3> QED
      BY <1>4, <3>1 DEF Issued
  <2>4. pc[h] \in Appending => cur[h] # e
    <3>1. /\ CompactionEvent(h) # e /\ UserEvent(h) # e /\ e \notin {h} \X (1 .. made[h])
      BY <1>2, <2>1 DEF CompactionEvent, UserEvent
    <3> QED
      BY <3>1 DEF TypeInv, CurrentEvent
  <2> QED
    BY <2>1, <2>2, <2>3, <2>4 DEF Holding
<1> QED
  BY <1>8, <1>9, <1>10, <1>11, <1>12, <1>13, <1>14, <1>15, <1>16, <1>17, <1>18, <1>19, <1>20
  DEF HandleStep, Start, AppendStep, Stream

\* A handle other than the one whose event is mirrored into its session.
LEMMA MirroredElsewhere ==
    ASSUME TypeInv, LogInv, WriteInv, NEW h \in Handle, AppendMirror(h),
           NEW g \in Handle \ {h}, sid[g] = sid[h]
    PROVE  Writes(g)'
<1> DEFINE slot == sessions[sid[h]]
           base == IF slot.present THEN slot.session ELSE seed[h]
           new  == Mirrored(slot, seed[h], cur[h])
<1>1. /\ slot \in Slot /\ seed[h] \in Session /\ cur[h] \in Event /\ sid[h] \in Sid
      /\ cur[h] \in {UserEvent(h), CompactionEvent(h)} \cup ({h} \X (1 .. made[h]))
  BY MadeFacts, EventFacts
  DEF TypeInv, TypeOK, RunTypeOK, StoreTypeOK, CurrentEvent, AppendMirror, Appending
<1>2. HandleStep(h) /\ cut' = cut /\ sessions' = [sessions EXCEPT ![sid[h]] = new]
  BY DEF HandleStep, AppendStep, AppendMirror, MirrorEvent
<1>3. UNCHANGED Own(g) /\ sid'[g] = sid[h]
  BY <1>2, OwnFrame DEF Own
<1>4. StoredLog(g)' = new.session.events /\ Has(sid[g])'
  <2>1. sessions'[sid[h]] = new
    BY <1>1, <1>2 DEF TypeInv, TypeOK, StoreTypeOK
  <2>2. new.present
    BY <1>1, MirroredFacts
  <2> QED
    BY <1>3, <2>1, <2>2 DEF StoredLog, Has
<1>5. /\ new.session.events = IF Contains(base.events, cur[h]) THEN base.events
                              ELSE Append(base.events, cur[h])
      /\ \A x : Contains(new.session.events, x) => Contains(base.events, x) \/ x = cur[h]
      /\ new.session.events \in Seq(Event) /\ base.events \in Seq(Event)
  <2>1. new \in Slot /\ base \in Session
    BY <1>1, MirroredFacts DEF Slot
  <2>2. new.session \in Session /\ base.events \in Seq(Event)
    BY <2>1 DEF Slot, Session
  <2>3. new.session.events \in Seq(Event)
    BY <2>2 DEF Session
  <2>4. new.session.events = IF Contains(base.events, cur[h]) THEN base.events
                             ELSE Append(base.events, cur[h])
    BY DEF Mirrored
  <2>5. \A x : Contains(Append(base.events, cur[h]), x) => Contains(base.events, x) \/ x = cur[h]
    BY <1>1, <2>2, AppendFacts
  <2> QED
    BY <2>2, <2>3, <2>4, <2>5
<1>6. cur[h] \notin AgentEvents(g) /\ cur[h] \notin {g} \X (0 .. Emits[g] + 1)
  BY <1>1 DEF AgentEvents, UserEvent, CompactionEvent
<1>7. /\ pending[g] \subseteq {g} \X (1 .. made[g]) /\ made[g] \in Nat
      /\ pc[g] \in Appending => cur[g] # cur[h]
  <2>1. made[g] \in Nat /\ made[g] <= Emits[g] /\ Emits[g] \in Nat
    BY EventFacts DEF TypeInv, TypeOK, RunTypeOK, CurrentEvent
  <2>2. UserEvent(g) # cur[h] /\ CompactionEvent(g) # cur[h] /\ cur[h] \notin {g} \X (1 .. made[g])
    BY <1>1 DEF UserEvent, CompactionEvent
  <2> QED
    BY <2>1, <2>2 DEF TypeInv, CurrentEvent
<1> HIDE DEF new
<1>8. CASE slot.present
  <2>1. base.events = StoredLog(g)
    BY <1>8 DEF StoredLog
  <2>2. StoredEvents(g)' = StoredEvents(g)
    <3>1. Selected(new.session.events, AgentEvents(g)) = Selected(StoredLog(g), AgentEvents(g))
      BY <1>1, <1>5, <1>6, <2>1, SelectedAppend
    <3> QED
      BY <1>3, <1>4, <3>1 DEF StoredEvents, StoredLog, AgentEvents
  <2>3. /\ pc'[g] = pc[g] /\ cur'[g] = cur[g] /\ made'[g] = made[g] /\ pending'[g] = pending[g]
        /\ yielded'[g] = yielded[g] /\ cut'[g] = cut[g]
    BY <1>2, <1>3 DEF Own
  <2>4. Early(g)' = Early(g) /\ Holding(g)' = Holding(g)
    BY <2>3 DEF Early, Holding, UserEvent
  <2>5. \A x : Contains(StoredLog(g)', x) => Contains(StoredLog(g), x) \/ x = cur[h]
    BY <1>4, <1>5, <2>1
  <2>6. cur[h] \notin pending[g]
    BY <1>1, <1>7 DEF UserEvent, CompactionEvent
  <2> QED
    BY <1>4, <1>7, <2>2, <2>3, <2>4, <2>5, <2>6 DEF WriteInv, Writes
<1>9. CASE ~ slot.present
  <2>1. CASE cut[g] = "no"
    <3>1. ~ Holding(g) /\ made[g] = 0
      BY <1>9, <2>1 DEF WriteInv, Writes, Has, Holding, Early, Starting
    <3>2. \A e : Contains(base.events, e) => InLogs(e)
      BY <1>9 DEF InLogs
    <3>3. Selected(new.session.events, AgentEvents(g)) = <<>>
      BY <1>5, <1>6, <3>1, <3>2, EarlyStored
    <3>4. pending[g] = {}
      BY <1>7, <3>1
    <3> QED
      BY <1>2, <1>3, <1>4, <3>1, <3>3, <3>4, <2>1, LostSession
  <2>2. CASE cut[g] # "no"
    <3>1. /\ pc'[g] = pc[g] /\ cur'[g] = cur[g] /\ made'[g] = made[g] /\ pending'[g] = pending[g]
          /\ yielded'[g] = yielded[g] /\ cut'[g] = cut[g]
      BY <1>2, <1>3 DEF Own
    <3>2. Early(g)' = Early(g)
      BY <3>1 DEF Early, UserEvent
    <3> QED
      BY <2>2, <3>1, <3>2 DEF WriteInv, Writes
  <2> QED
    BY <2>1, <2>2
<1> QED
  BY <1>8, <1>9

\* The handle whose event is mirrored: its log gets the event, once.
LEMMA MirroredOnce ==
    ASSUME TypeInv, WriteInv, NEW h \in Handle, AppendMirror(h), cut[h] = "no"
    PROVE  /\ Has(sid[h]) /\ sessions' = [sessions EXCEPT ![sid[h]] = Mirrored(@, seed[h], cur[h])]
           /\ sessions'[sid[h]] = [present |-> TRUE,
                                   session |-> [events |-> Append(StoredLog(h), cur[h]), state |-> cur[h]]]
           /\ StoredLog(h) \in Seq(Event) /\ cur[h] \in Event
<1>1. /\ sid[h] \in Sid /\ StoredLog(h) \in Seq(Event) /\ cur[h] \in Event
  BY MadeFacts, EventFacts
  DEF TypeInv, TypeOK, RunTypeOK, StoreTypeOK, CurrentEvent, AppendMirror, Appending, Slot, Session,
      StoredLog
<1>2. Has(sid[h]) /\ ~ Contains(StoredLog(h), cur[h])
  BY DEF AppendMirror, WriteInv, Writes, Holding, Appending
<1>3. sessions' = [sessions EXCEPT ![sid[h]] = Mirrored(@, seed[h], cur[h])]
  BY DEF AppendMirror, MirrorEvent
<1>4. sessions'[sid[h]] = Mirrored(sessions[sid[h]], seed[h], cur[h])
  BY <1>1, <1>3 DEF TypeInv, TypeOK, StoreTypeOK
<1> QED
  BY <1>1, <1>2, <1>3, <1>4 DEF Mirrored, StoredLog, Has

LEMMA MirroredOwn ==
    ASSUME TypeInv, WriteInv, NEW h \in Handle, AppendMirror(h)
    PROVE  Writes(h)'
<1>1. /\ pc[h] = "mirror" /\ sid' = sid /\ UNCHANGED <<made, yielded, cut>>
      /\ \/ cur[h] = UserEvent(h) /\ pc'[h] = "before_run" /\ pending'[h] = pending[h]
         \/ /\ cur[h] \in AgentEvents(h) /\ pc'[h] = "hook" /\ pending'[h] = pending[h]
            /\ cur'[h] = cur[h]
         \/ cur[h] = CompactionEvent(h) /\ pc'[h] = "done" /\ pending'[h] = {}
  BY DEF AppendMirror, GoTo, Finish, Release, TypeInv, TypeOK, RunTypeOK
<1>2. Writes(h) /\ cur[h] \notin pending[h]
  BY <1>1 DEF WriteInv, Writes, Appending
<1>3. Early(h)' => Early(h)
  BY <1>1 DEF Early, Starting, Appending
<1>4. CASE cut[h] # "no"
  BY <1>1, <1>2, <1>3, <1>4 DEF Writes, Appending
<1>5. CASE cut[h] = "no"
  <2>1. /\ StoredLog(h)' = Append(StoredLog(h), cur[h]) /\ Has(sid[h])'
        /\ StoredLog(h) \in Seq(Event) /\ cur[h] \in Event
    <3>1. sessions'[sid[h]].session.events = Append(StoredLog(h), cur[h]) /\ sessions'[sid[h]].present
          /\ StoredLog(h) \in Seq(Event) /\ cur[h] \in Event
      <4>1. /\ sessions'[sid[h]] = [present |-> TRUE, session |->
                                       [events |-> Append(StoredLog(h), cur[h]), state |-> cur[h]]]
            /\ StoredLog(h) \in Seq(Event) /\ cur[h] \in Event
        BY <1>5, MirroredOnce
      <4> QED
        BY <4>1
    <3>2. sid'[h] = sid[h]
      BY <1>1
    <3>3. StoredLog(h)' = sessions'[sid'[h]].session.events /\ Has(sid[h])' = sessions'[sid'[h]].present
      BY DEF StoredLog, Has
    <3> QED
      BY <3>1, <3>2, <3>3
  <2>2. /\ StoredEvents(h)' = Selected(StoredLog(h)', AgentEvents(h))
        /\ StoredEvents(h) = Selected(StoredLog(h), AgentEvents(h))
    BY DEF StoredEvents, StoredLog, AgentEvents
  <2>3. StoredEvents(h) = yielded[h]
    BY <1>1, <1>2, <1>5 DEF Writes, Ended
  <2>4. StoredEvents(h)' = IF cur[h] \in AgentEvents(h) THEN Append(yielded[h], cur[h]) ELSE yielded[h]
    <3> DEFINE kept == StoredLog(h)
               A == AgentEvents(h)
    <3>1. kept \in Seq(Event) /\ cur[h] \in Event
      BY <2>1
    <3>2. Selected(Append(kept, cur[h]), A)
              = IF cur[h] \in A THEN Append(Selected(kept, A), cur[h]) ELSE Selected(kept, A)
      <4> HIDE DEF kept, A
      <4> QED
        BY <3>1, SelectedAppend
    <3> QED
      BY <2>1, <2>2, <2>3, <3>2
  <2>5. \A e : Contains(StoredLog(h)', e) => e \notin pending[h]
    BY <1>1, <1>2, <1>5, <2>1, AppendFacts DEF Writes
  <2>6. UserEvent(h) \notin AgentEvents(h) /\ CompactionEvent(h) \notin AgentEvents(h)
    BY AgentEventFacts
  <2> QED
    BY <1>1, <1>2, <1>3, <2>1, <2>4, <2>5, <2>6 DEF Writes, Appending, Ended, Holding
<1> QED
  BY <1>4, <1>5

\* The session is replaced by a new one, or deleted.
LEMMA ClearedSession ==
    ASSUME TypeInv, WriteInv, NEW s \in Sid, NEW slot, slot.session.events = <<>>,
           sessions' = [sessions EXCEPT ![s] = slot],
           NEW g \in Handle, UNCHANGED Own(g), cut'[g] = "no" => cut[g] = "no",
           sid[g] = s /\ Holding(g) => cut'[g] # "no"
    PROVE  Writes(g)'
<1>1. CASE sid[g] # s
  BY <1>1, SameSession
<1>2. CASE sid[g] = s
  <2>1. StoredLog(g)' = <<>>
    BY <1>2 DEF StoredLog, Own, TypeInv, TypeOK, StoreTypeOK
  <2>2. <<>> \in Seq(Event) /\ Len(<<>>) = 0 /\ \A e : ~ Contains(<<>>, e)
    BY NewSessionFacts
  <2>3. Selected(<<>>, AgentEvents(g)) = <<>>
    BY SelectedOfNothing
  <2> QED
    BY <1>2, <2>1, <2>2, <2>3, LostSession
<1> QED
  BY <1>1, <1>2

LEMMA NextWrites == TypeInv /\ LogInv /\ WriteInv /\ [Next]_vars => WriteInv'
<1> SUFFICES ASSUME TypeInv, LogInv, WriteInv, [Next]_vars PROVE WriteInv'
  OBVIOUS
<1>1. ASSUME NEW h \in Handle, HandleStep(h), ~ CreateInsert(h), ~ AppendMirror(h) PROVE WriteInv'
  <2>1. UNCHANGED <<sessions, cut>>
    BY <1>1 DEF HandleStep, Start, Load, CreateCheck, Register, BeforeRun,
                AppendStep, AppendLive, AppendScoped, ApplyScoped,
                Stream, FirstPoll, TakeEvent, Hook, AgentError, AgentEnd, Compact,
                AgentEmit, DropUnpolled, Drop, CancelHandle, storeVars
  <2>2. \A g \in Handle \ {h} : Writes(g)'
    BY <1>1, <2>1, OwnFrame, SameSession
  <2> QED
    BY <1>1, <2>1, <2>2, OwnStep DEF WriteInv
<1>2. ASSUME NEW h \in Handle, AppendMirror(h) PROVE WriteInv'
  <2>1. HandleStep(h) /\ cut' = cut
    BY <1>2 DEF HandleStep, AppendStep, AppendMirror
  <2>2. ASSUME NEW g \in Handle \ {h}, sid[g] # sid[h] PROVE Writes(g)'
    <3>1. sessions'[sid[g]] = sessions[sid[g]]
      BY <1>2, <2>2 DEF AppendMirror, MirrorEvent, TypeInv, TypeOK, RunTypeOK, StoreTypeOK
    <3> QED
      BY <2>1, <3>1, OwnFrame, SameSession
  <2> QED
    BY <1>2, <2>2, MirroredElsewhere, MirroredOwn DEF WriteInv
<1>3. ASSUME NEW h \in Handle, CreateInsert(h) PROVE WriteInv'
  <2> DEFINE slot == [present |-> TRUE, session |-> NewSession]
  <2>1. /\ HandleStep(h) /\ sessions' = [sessions EXCEPT ![sid[h]] = slot]
        /\ slot.session.events = <<>> /\ slot.present /\ sid[h] \in Sid
        /\ \A g \in Handle : cut'[g] = IF g \in Holders(sid[h]) /\ cut[g] = "no" THEN "replaced" ELSE cut[g]
    BY <1>3 DEF HandleStep, Start, CreateInsert, InsertSession, NewSession, TypeInv, TypeOK, RunTypeOK
  <2> HIDE DEF slot
  <2>2. ASSUME NEW g \in Handle \ {h} PROVE Writes(g)'
    <3>1. UNCHANGED Own(g)
      BY <2>1, OwnFrame
    <3>2. sid[g] = sid[h] /\ Holding(g) => cut'[g] # "no"
      BY <2>1 DEF Holders, Holding
    <3>3. cut'[g] = "no" => cut[g] = "no"
      BY <2>1
    <3> QED
      BY <2>1, <3>1, <3>2, <3>3, ClearedSession
  <2>3. Writes(h)'
    <3>1. /\ pc[h] = "insert" /\ pc'[h] = "loaded" /\ UNCHANGED <<sid, cur, made, pending, yielded>>
      BY <1>3 DEF CreateInsert, GoTo, TypeInv, TypeOK, RunTypeOK
    <3>2. sessions'[sid[h]] = slot
      BY <2>1 DEF TypeInv, TypeOK, StoreTypeOK
    <3>3. StoredLog(h)' = <<>> /\ Has(sid[h])'
      BY <2>1, <3>1, <3>2 DEF StoredLog, Has
    <3>4. <<>> \in Seq(Event) /\ Len(<<>>) = 0 /\ \A e : ~ Contains(<<>>, e)
      BY NewSessionFacts
    <3>5. StoredEvents(h)' = <<>>
      <4>1. Selected(<<>>, AgentEvents(h)) = <<>>
        BY SelectedOfNothing
      <4>2. StoredEvents(h)' = Selected(StoredLog(h)', AgentEvents(h))
        BY DEF StoredEvents, StoredLog, AgentEvents
      <4> QED
        BY <3>3, <4>1, <4>2
    <3>6. Early(h) /\ Early(h)'
      BY <3>1 DEF Early, Starting
    <3> QED
      BY <3>1, <3>3, <3>4, <3>5, <3>6 DEF WriteInv, Writes, Appending, Ended
  <2> QED
    BY <2>2, <2>3 DEF WriteInv
<1>4. ASSUME NEW s \in Sid, Delete(s) PROVE WriteInv'
  <2>1. /\ sessions' = [sessions EXCEPT ![s] = NoSlot] /\ NoSlot.session.events = <<>>
        /\ \A g \in Handle : cut'[g] = IF g \in Holders(s) THEN "deleted" ELSE cut[g]
        /\ UNCHANGED <<pc, cur, made, pending, yielded, sid>>
    BY <1>4, NewSessionFacts DEF Delete, DeleteSession
  <2>2. ASSUME NEW g \in Handle PROVE Writes(g)'
    <3>1. UNCHANGED Own(g)
      BY <2>1 DEF Own
    <3>2. (sid[g] = s /\ Holding(g) => cut'[g] # "no") /\ (cut'[g] = "no" => cut[g] = "no")
      BY <2>1 DEF Holders, Holding
    <3> QED
      BY <2>1, <3>1, <3>2, ClearedSession
  <2> QED
    BY <2>2 DEF WriteInv
<1>5. ASSUME UNCHANGED <<sessions, pc, cur, made, pending, yielded, sid, cut>> PROVE WriteInv'
  <2>1. \A g \in Handle : UNCHANGED Own(g)
    BY <1>5 DEF Own
  <2> QED
    BY <1>5, <2>1, SameSession DEF WriteInv
<1>6. ASSUME NEW i \in Handle, Cancel(i) PROVE WriteInv'
  BY <1>5, <1>6 DEF Cancel, storeVars
<1>7. CASE UNCHANGED vars
  BY <1>5, <1>7 DEF vars, runVars, storeVars
<1> QED
  BY <1>1, <1>2, <1>3, <1>4, <1>6, <1>7 DEF Next, HandleStep

LEMMA InitWrites == Init => WriteInv
<1> SUFFICES ASSUME Init, NEW h \in Handle PROVE Writes(h)
  BY DEF WriteInv
<1>1. StoredLog(h) = <<>>
  BY NewSessionFacts DEF Init, StoreInit, StoredLog, NoSlot
<1>2. <<>> \in Seq(Event) /\ Len(<<>>) = 0 /\ \A e : ~ Contains(<<>>, e)
  BY NewSessionFacts
<1>3. StoredEvents(h) = <<>>
  BY <1>1, SelectedOfNothing DEF StoredEvents, StoredLog
<1> QED
  BY <1>1, <1>2, <1>3 DEF Init, Writes, Holding, Appending, Ended

\* Unless the session was deleted or replaced under it, what a call's caller has
\* received is in the store, in that order, and at most one event more, however many
\* calls append to the session and whatever agents push before the runner appends
\* (runner.rs:349-375, session.rs:55-64).  It needs that an event still to be
\* appended is not in the store (WriteInv): else mirror_event would keep it where it
\* is.  That the selection from a longer log is what one expects is proved by
\* induction (SelectedAppend).
THEOREM ReceivedInStoredOrder == Spec => []PersistedInYieldOrder
<1>1. Spec => [](TypeInv /\ LogInv)
  BY InitTypeInv, NextTypeInv, InitLogInv, NextLogInv, PTL DEF Spec
<1>2. Spec => [](TypeInv /\ WriteInv)
  BY <1>1, InitWrites, NextWrites, PTL DEF Spec
<1> QED
  BY <1>2, WritesGiveOrder, PTL

LEMMA NextReplay == TypeInv /\ WriteInv /\ StateIsReplay /\ [Next]_vars => StateIsReplay'
<1> SUFFICES ASSUME TypeInv, WriteInv, StateIsReplay, [Next]_vars,
                    NEW s \in Sid, \A h \in Handle : sid'[h] = s => cut'[h] = "no",
                    sessions'[s].session.events # <<>>
             PROVE  sessions'[s].session.state = Last(sessions'[s].session.events)
  BY DEF StateIsReplay
<1>1. sid' = sid /\ \A h \in Handle : cut'[h] = "no" => cut[h] = "no"
  BY DEF Next, Start, Load, CreateCheck, CreateInsert, Register, BeforeRun,
         AppendStep, AppendLive, AppendScoped, AppendMirror,
         Stream, FirstPoll, TakeEvent, Hook, AgentError, AgentEnd, Compact,
         AgentEmit, DropUnpolled, Drop, CancelHandle, Cancel, Delete, vars, runVars
<1>2. ASSUME sessions'[s] = sessions[s]
      PROVE  sessions'[s].session.state = Last(sessions'[s].session.events)
  BY <1>1, <1>2 DEF StateIsReplay
<1>3. ASSUME NEW h \in Handle, AppendMirror(h)
      PROVE  sessions'[s].session.state = Last(sessions'[s].session.events)
  <2>1. CASE sid[h] = s
    <3>1. cut[h] = "no"
      BY <1>1, <2>1
    <3> DEFINE more == Append(StoredLog(h), cur[h])
    <3>2. /\ sessions'[s].session.events = more /\ sessions'[s].session.state = cur[h]
          /\ StoredLog(h) \in Seq(Event) /\ cur[h] \in Event
      <4>1. /\ sessions'[sid[h]] = [present |-> TRUE, session |-> [events |-> more, state |-> cur[h]]]
            /\ StoredLog(h) \in Seq(Event) /\ cur[h] \in Event
        BY <1>3, <3>1, MirroredOnce
      <4> QED
        BY <2>1, <4>1
    <3>3. Last(more) = cur[h]
      <4>1. Len(more) = Len(StoredLog(h)) + 1 /\ more[Len(StoredLog(h)) + 1] = cur[h]
        BY <3>2
      <4> QED
        BY <4>1 DEF Last
    <3> QED
      BY <3>2, <3>3
  <2>2. CASE sid[h] # s
    BY <1>2, <1>3, <2>2 DEF AppendMirror, MirrorEvent, TypeInv, TypeOK, RunTypeOK, StoreTypeOK
  <2> QED
    BY <2>1, <2>2
<1>4. ASSUME NEW r \in Sid, NEW slot, slot.session.events = <<>>, sessions' = [sessions EXCEPT ![r] = slot]
      PROVE  sessions'[s].session.state = Last(sessions'[s].session.events)
  BY <1>2, <1>4 DEF TypeInv, TypeOK, StoreTypeOK
<1>5. ASSUME NEW h \in Handle, CreateInsert(h)
      PROVE  sessions'[s].session.state = Last(sessions'[s].session.events)
  <2> DEFINE slot == [present |-> TRUE, session |-> NewSession]
  <2>1. sessions' = [sessions EXCEPT ![sid[h]] = slot] /\ slot.session.events = <<>> /\ sid[h] \in Sid
    BY <1>5 DEF CreateInsert, InsertSession, NewSession, TypeInv, TypeOK, RunTypeOK
  <2> QED
    BY <1>4, <2>1
<1>6. ASSUME NEW r \in Sid, Delete(r)
      PROVE  sessions'[s].session.state = Last(sessions'[s].session.events)
  BY <1>4, <1>6, NewSessionFacts DEF Delete, DeleteSession
<1>7. \/ sessions' = sessions
      \/ \E h \in Handle : AppendMirror(h) \/ CreateInsert(h)
      \/ \E r \in Sid : Delete(r)
  BY DEF Next, Start, Load, CreateCheck, Register, BeforeRun,
         AppendStep, AppendLive, AppendScoped, ApplyScoped,
         Stream, FirstPoll, TakeEvent, Hook, AgentError, AgentEnd, Compact,
         AgentEmit, DropUnpolled, Drop, CancelHandle, Cancel, vars, storeVars
<1> QED
  BY <1>2, <1>3, <1>5, <1>6, <1>7

\* A stored session that was not deleted or replaced under a call has the state its
\* log gives: the delta that is applied is that of the event appended last
\* (session.rs:65-82), because an event still to be appended is not there (WriteInv).
THEOREM StateFollowsTheLog == Spec => []StateIsReplay
<1>1. Init => StateIsReplay
  BY NewSessionFacts DEF Init, StoreInit, StateIsReplay, NoSlot
<1>2. Spec => [](TypeInv /\ LogInv)
  BY InitTypeInv, NextTypeInv, InitLogInv, NextLogInv, PTL DEF Spec
<1>3. Spec => []WriteInv
  BY <1>2, InitWrites, NextWrites, PTL DEF Spec
<1> QED
  BY <1>1, <1>2, <1>3, NextReplay, PTL DEF Spec

-----------------------------------------------------------------------------
(* The store implements SessionLog.                                        *)

\* No call is creating a session at first.
LEMMA InitCreate == Init => CreateInv
BY DEF Init, CreateInv

\* Only a runner that may create sessions on demand gets there.
LEMMA NextCreate == TypeOK /\ CreateInv /\ [Next]_vars => CreateInv'
<1> SUFFICES ASSUME TypeOK, CreateInv, [Next]_vars, NEW g \in Handle, pc'[g] \in {"create", "insert"}
             PROVE  AutoCreate
  BY DEF CreateInv
<1> USE DEF TypeOK, RunTypeOK, CreateInv, GoTo, Fail, Finish
<1>1. ASSUME NEW h \in Handle, Start(h)
      PROVE  AutoCreate
  BY <1>1 DEF Start, Load, CreateCheck, CreateInsert, Register, BeforeRun
<1>2. ASSUME NEW h \in Handle, AppendStep(h)
      PROVE  AutoCreate
  BY <1>2 DEF AppendStep, AppendLive, AppendScoped, AppendMirror
<1>3. ASSUME NEW h \in Handle, Stream(h)
      PROVE  AutoCreate
  BY <1>3 DEF Stream, FirstPoll, TakeEvent, Hook, AgentError, AgentEnd, Compact
<1>4. ASSUME NEW h \in Handle,
             AgentEmit(h) \/ DropUnpolled(h) \/ Drop(h) \/ CancelHandle(h) \/ Cancel(h)
      PROVE  AutoCreate
  BY <1>4 DEF AgentEmit, DropUnpolled, Drop, CancelHandle, Cancel
<1>5. ASSUME NEW s \in Sid, Delete(s)
      PROVE  AutoCreate
  BY <1>5 DEF Delete
<1>6. CASE UNCHANGED vars
  BY <1>6 DEF vars, runVars
<1> QED
  BY <1>1, <1>2, <1>3, <1>4, <1>5, <1>6 DEF Next

\* The refinement mapping.
PresentOf == [s \in Sid |-> sessions[s].present]
LogOf     == [s \in Sid |-> sessions[s].session.events]

\* Initial states map to initial states.
LEMMA InitRefines == Init => Log!Init
<1> SUFFICES ASSUME Init PROVE Log!Init
  OBVIOUS
<1>1. PresentOf \in [Sid -> BOOLEAN]
  BY InitTypeInv DEF TypeInv, TypeOK, StoreTypeOK, Slot, PresentOf
<1>2. LogOf = [s \in Sid |-> <<>>]
  BY NewSessionFacts DEF Init, StoreInit, NoSlot, LogOf
<1> QED
  BY <1>1, <1>2 DEF Log!Init, PresentOf, LogOf

\* Only three actions touch the store.
LEMMA StoreWriters ==
    ASSUME [Next]_vars
    PROVE  \/ sessions' = sessions
           \/ \E h \in Handle : CreateInsert(h) \/ AppendMirror(h)
           \/ \E s \in Sid : Delete(s)
BY DEF Next, vars, storeVars, Start, Load, CreateCheck, Register, BeforeRun,
       AppendStep, AppendLive, AppendScoped, ApplyScoped,
       Stream, FirstPoll, TakeEvent, Hook, AgentError, AgentEnd, Compact,
       AgentEmit, DropUnpolled, Drop, CancelHandle, Cancel

\* A step maps to a step of the log or to a stutter.
LEMMA NextRefines ==
    TypeInv /\ LogInv /\ CreateInv /\ [Next]_vars => [Log!Next]_(Log!logVars)
<1> SUFFICES ASSUME TypeInv, LogInv, CreateInv, [Next]_vars
             PROVE  [Log!Next]_(Log!logVars)
  OBVIOUS
<1> USE DEF TypeInv, TypeOK, RunTypeOK, StoreTypeOK
<1>1. CASE sessions' = sessions
  BY <1>1 DEF Log!logVars
<1>2. ASSUME NEW s \in Sid, Delete(s)
      PROVE  Log!Next
  <2>1. /\ PresentOf[s]
        /\ PresentOf' = [PresentOf EXCEPT ![s] = FALSE]
        /\ LogOf' = [LogOf EXCEPT ![s] = <<>>]
    BY <1>2, NewSessionFacts DEF Delete, DeleteSession, Has, PresentOf, LogOf
  <2>2. Log!Delete(s)
    BY <2>1 DEF Log!Delete, PresentOf, LogOf
  <2> QED
    BY <2>2 DEF Log!Next
<1>3. ASSUME NEW h \in Handle, CreateInsert(h)
      PROVE  Log!Next
  <2> PICK s \in Sid : s = sid[h]
    OBVIOUS
  <2>1. AutoCreate
    BY <1>3 DEF CreateInsert, CreateInv
  <2>2. /\ PresentOf' = [PresentOf EXCEPT ![s] = TRUE]
        /\ LogOf' = [LogOf EXCEPT ![s] = <<>>]
    BY <1>3, NewSessionFacts DEF CreateInsert, InsertSession, PresentOf, LogOf
  <2>3. Log!Create(s)
    BY <2>1, <2>2 DEF Log!Create, PresentOf, LogOf
  <2> QED
    BY <2>3 DEF Log!Next
<1>4. ASSUME NEW h \in Handle, AppendMirror(h)
      PROVE  [Log!Next]_(Log!logVars)
  <2> PICK s \in Sid : s = sid[h]
    OBVIOUS
  <2>1. PICK e \in Event : e = cur[h]
    BY <1>4, MadeFacts, EventFacts DEF AppendMirror, CurrentEvent, Appending
  <2> DEFINE slot == sessions[s]
             base == IF slot.present THEN slot.session ELSE seed[h]
             new  == Mirrored(slot, seed[h], e)
             kept == new.session.events
  <2>2. sessions' = [sessions EXCEPT ![s] = new]
    BY <1>4, <2>1 DEF AppendMirror, MirrorEvent
  <2>3. slot \in Slot /\ seed[h] \in Session
    OBVIOUS
  <2>4. NoDuplicates(base.events)
    BY DEF LogInv, NoDuplicateEvents
  <2>5. /\ new \in Slot
        /\ new.present
        /\ kept = IF Contains(base.events, e) THEN base.events ELSE Append(base.events, e)
        /\ NoDuplicates(kept)
    BY <2>1, <2>3, <2>4, MirroredFacts
  <2>6. kept \in Seq(Event)
    BY <2>5 DEF Slot, Session
  <2> HIDE DEF kept, new
  <2>7. /\ PresentOf' = [PresentOf EXCEPT ![s] = TRUE]
        /\ LogOf' = [LogOf EXCEPT ![s] = kept]
    BY <2>2, <2>3, <2>5 DEF PresentOf, LogOf, kept
  <2>8. CASE ~slot.present
    <3>1. ~PresentOf[s] /\ LogOf'[s] = kept
      BY <2>3, <2>7, <2>8 DEF PresentOf, LogOf
    <3>2. /\ LogOf'[s] \in Seq(Event)
          /\ NoDuplicates(LogOf'[s])
          /\ LogOf' = [LogOf EXCEPT ![s] = LogOf'[s]]
      BY <2>5, <2>6, <2>7, <3>1
    <3>3. Log!Restore(s)
      BY <2>7, <3>1, <3>2 DEF Log!Restore, Log!NoDuplicates, NoDuplicates, PresentOf, LogOf
    <3>4. Log!Next
      BY <3>3 DEF Log!Next
    <3> QED
      BY <3>4
  <2>9. CASE slot.present /\ Contains(slot.session.events, e)
    <3>1. PresentOf[s] = TRUE /\ LogOf[s] = kept
      BY <2>3, <2>5, <2>9 DEF PresentOf, LogOf, Slot
    <3>2. PresentOf' = PresentOf /\ LogOf' = LogOf
      <4>1. PresentOf = [PresentOf EXCEPT ![s] = TRUE] /\ LogOf = [LogOf EXCEPT ![s] = kept]
        BY <3>1 DEF PresentOf, LogOf
      <4> QED
        BY <2>7, <4>1
    <3> QED
      BY <3>2 DEF Log!logVars, PresentOf, LogOf
  <2>10. CASE slot.present /\ ~Contains(slot.session.events, e)
    <3>0. PresentOf[s] = TRUE /\ LogOf[s] = slot.session.events
      BY <2>3, <2>10 DEF PresentOf, LogOf, Slot
    <3>1. /\ PresentOf' = PresentOf
          /\ LogOf' = [LogOf EXCEPT ![s] = Append(LogOf[s], e)]
      <4>1. kept = Append(LogOf[s], e)
        BY <2>5, <2>10, <3>0
      <4>2. PresentOf = [PresentOf EXCEPT ![s] = TRUE]
        BY <3>0 DEF PresentOf
      <4> QED
        BY <2>7, <4>1, <4>2
    <3>2. Log!AppendNew(s, e)
      BY <2>10, <3>0, <3>1 DEF Log!AppendNew, Log!Holds, Contains, PresentOf, LogOf
    <3>3. Log!Next
      BY <2>1, <3>2 DEF Log!Next
    <3> QED
      BY <3>3
  <2> QED
    BY <2>8, <2>9, <2>10
<1> QED
  BY <1>1, <1>2, <1>3, <1>4, StoreWriters

\* Whatever invocations, deletes and racing creations do to it, the in-memory
\* store is an append-only log per session (mem/session.rs).
THEOREM StoreImplementsLog == Spec => ImplementsSessionLog
<1>1. Spec => []TypeInv
  BY InitTypeInv, NextTypeInv, PTL DEF Spec
<1>2. Spec => []LogInv
  BY <1>1, InitLogInv, NextLogInv, PTL DEF Spec
<1>3. TypeInv => TypeOK
  BY DEF TypeInv
<1>4. Spec => []CreateInv
  BY <1>1, <1>3, InitCreate, NextCreate, PTL DEF Spec
<1>5. Spec => Log!Spec
  BY <1>1, <1>2, <1>4, InitRefines, NextRefines, PTL DEF Spec, Log!Spec
<1> QED
  BY <1>5 DEF ImplementsSessionLog

-----------------------------------------------------------------------------
(* Event compaction: type correctness.                                     *)

\* No event is older than the call it answers.
AnswersOK == \A a, c \in Known : a.of = c.id => c.time <= a.time

CompactionTypes == CompactionTypeOK /\ AnswersOK

LEMMA MemberFacts ==
    /\ \A s \in Seq(Events) : \A e : e \in ToSet(s) <=> \E n \in 1 .. Len(s) : s[n] = e
    /\ \A s \in Seq(Events), e \in Events : ToSet(Append(s, e)) = ToSet(s) \cup {e}
    /\ \A s \in Seq(Events), e \in Events :
           Contents(Append(s, e)) = Contents(s) \cup (IF IsMarker(e) THEN {} ELSE {e})
<1>1. ASSUME NEW s \in Seq(Events), NEW e PROVE e \in ToSet(s) <=> \E n \in 1 .. Len(s) : s[n] = e
  BY DEF ToSet
<1>2. ASSUME NEW s \in Seq(Events), NEW e \in Events PROVE ToSet(Append(s, e)) = ToSet(s) \cup {e}
  <2> DEFINE r == Append(s, e)
  <2>1. r \in Seq(Events) /\ Len(r) = Len(s) + 1 /\ Len(s) \in Nat /\ r[Len(s) + 1] = e
        /\ \A n \in 1 .. Len(s) : r[n] = s[n]
    BY <1>2
  <2> HIDE DEF r
  <2>2. \A x : (\E n \in 1 .. Len(r) : r[n] = x) <=> (\E n \in 1 .. Len(s) : s[n] = x) \/ x = e
    BY <2>1
  <2>3. \A x : (x \in ToSet(s) <=> \E n \in 1 .. Len(s) : s[n] = x)
              /\ (x \in ToSet(r) <=> \E n \in 1 .. Len(r) : r[n] = x)
    BY <1>1, <1>2, <2>1
  <2> QED
    BY <2>2, <2>3 DEF r
<1> QED
  BY <1>1, <1>2 DEF Contents, IsContent

\* The last marker is a place of the log, or none.
LEMMA LastMarkerType == \A s \in Seq(Events) : LastMarker(s) \in 0 .. Len(s)
<1> SUFFICES ASSUME NEW s \in Seq(Events) PROVE LastMarker(s) \in 0 .. Len(s)
  OBVIOUS
<1> DEFINE M == {0} \cup {n \in DOMAIN s : IsMarker(s[n])}
<1>1. Len(s) \in Nat /\ M \subseteq 0 .. Len(s) /\ M # {}
  OBVIOUS
<1>2. Max(M) \in M
  <2> HIDE DEF M
  <2> QED
    BY <1>1, MaxFacts
<1> QED
  BY <1>1, <1>2 DEF LastMarker

\* After the last marker there is none.
LEMMA NoMarkerAfter == \A s \in Seq(Events) : \A n \in LastMarker(s) + 1 .. Len(s) : IsContent(s[n])
<1> SUFFICES ASSUME NEW s \in Seq(Events), NEW n \in LastMarker(s) + 1 .. Len(s), IsMarker(s[n]) PROVE FALSE
  BY DEF IsContent
<1> DEFINE M == {0} \cup {m \in DOMAIN s : IsMarker(s[m])}
<1>1. Len(s) \in Nat /\ M \subseteq 0 .. Len(s) /\ M # {}
  OBVIOUS
<1>2. LastMarker(s) \in 0 .. Len(s) /\ n \in M
  BY LastMarkerType
<1>3. \A x \in M : x <= Max(M)
  <2> HIDE DEF M
  <2> QED
    BY <1>1, MaxFacts
<1> QED
  BY <1>2, <1>3 DEF LastMarker

\* In s, e is stored before an event of the time t.
Before(s, e, t) == \E m, n \in 1 .. Len(s) : m < n /\ s[m] = e /\ IsContent(s[n]) /\ s[n].time = t

\* What a summary that saw the events saw, and whose range is first to last, knows of s.
Spans(first, last, saw, s) ==
    \A e \in Contents(s) : /\ e.id \in saw \/ Before(s, e, first)
                           /\ e.time = last \/ Before(s, e, last)

\* The last events of a log, from a place on.
LEMMA LastEvents ==
    ASSUME NEW b \in Seq(Events), NEW kept \in 0 .. Len(b)
    PROVE  LET o == SubSeq(b, Len(b) - kept + 1, Len(b))
           IN  /\ o \in Seq(Events) /\ Len(o) = kept
               /\ \A n \in 1 .. kept : o[n] = b[Len(b) - kept + n]
<1>1. Len(b) \in Nat
  OBVIOUS
<1> QED
  BY <1>1

\* What a window is made of, and what it leaves out: nothing after its first event.
LEMMA WindowFacts ==
    ASSUME NEW s \in Seq(Events), Due(s)
    PROVE  LET w == Window(s)
           IN  /\ w \in Seq(Events) /\ w # <<>>
               /\ Spans(Head(w).time, Last(w).time, {e.id : e \in ToSet(w)}, s)
<1> DEFINE k == LastMarker(s)
           first == SubSeq(s, 1, k)
           before == Selected(first, Contents(s))
           kept == IF OverlapSize < Len(before) THEN OverlapSize ELSE Len(before)
           over == SubSeq(before, Len(before) - kept + 1, Len(before))
           tail == SubSeq(s, k + 1, Len(s))
           Older == {p \in Events \X Events : \E i, j \in 1 .. k : i < j /\ s[i] = p[1] /\ s[j] = p[2]}
<1>1. /\ k \in 0 .. Len(s) /\ Len(s) \in Nat /\ OverlapSize \in Nat
      /\ \A n \in k + 1 .. Len(s) : IsContent(s[n])
  BY LastMarkerType, NoMarkerAfter, BoundsAssumption
<1>2. \A n \in 1 .. Len(s) : s[n] \in Events
  OBVIOUS
<1> HIDE DEF k
<1>3. first \in Seq(Events) /\ Len(first) = k /\ \A n \in 1 .. k : first[n] = s[n]
  BY <1>1
<1>4. tail \in Seq(Events) /\ Len(tail) = Len(s) - k /\ \A n \in 1 .. Len(s) - k : tail[n] = s[k + n]
  BY <1>1
<1> HIDE DEF first, tail
<1>5. tail # <<>>
  <2> SUFFICES ASSUME tail = <<>> PROVE FALSE
    OBVIOUS
  <2>1. {n \in DOMAIN tail : n = 1 \/ tail[n - 1].inv # tail[n].inv} = {}
    OBVIOUS
  <2>2. RunsOfInvocations(tail) = 0
    BY <2>1, FS_EmptySet DEF RunsOfInvocations
  <2> QED
    BY <2>2, IntervalAssumption DEF Due, Tail_, tail, k
<1>6. \A i, j \in 1 .. Len(first) : i < j => <<first[i], first[j]>> \in Older
  <2> SUFFICES ASSUME NEW i \in 1 .. Len(first), NEW j \in 1 .. Len(first), i < j
               PROVE  <<first[i], first[j]>> \in Older
    OBVIOUS
  <2>1. i \in 1 .. k /\ j \in 1 .. k /\ first[i] = s[i] /\ first[j] = s[j]
    BY <1>3
  <2>2. s[i] \in Events /\ s[j] \in Events
    BY <1>1, <1>2, <2>1
  <2> QED
    BY <2>1, <2>2
<1>7. /\ before \in Seq(Events)
      /\ \A x : (\E n \in 1 .. Len(before) : before[n] = x)
                    <=> x \in Contents(s) /\ \E n \in 1 .. Len(first) : first[n] = x
      /\ \A i, j \in 1 .. Len(before) : i < j => <<before[i], before[j]>> \in Older
  <2> HIDE DEF Older
  <2> QED
    BY <1>3, <1>6, SelectedKeeps
<1> HIDE DEF before
<1>8. kept \in 0 .. Len(before) /\ Len(before) \in Nat
  BY <1>1, <1>7
<1> HIDE DEF kept
<1> DEFINE from == Len(before) - kept
<1>9. over \in Seq(Events) /\ Len(over) = kept /\ \A n \in 1 .. kept : over[n] = before[from + n]
  BY <1>7, <1>8, LastEvents
<1>10. from \in 0 .. Len(before) /\ kept = Len(before) - from
  BY <1>8
<1> HIDE DEF over, from
<1> DEFINE w == over \o tail
<1>11. Window(s) = w
  BY DEF Window, Overlap, Tail_, over, kept, before, first, tail, k
<1>12. over \in Seq(Events) /\ tail \in Seq(Events)
  BY <1>4, <1>9
<1>13. w \in Seq(Events) /\ Len(w) = Len(over) + Len(tail)
  BY <1>12
<1>14. \A n \in 1 .. Len(over) : w[n] = over[n]
  BY <1>12
<1>15. \A n \in 1 .. Len(tail) : w[Len(over) + n] = tail[n]
  BY <1>12
<1> HIDE DEF w
<1>16. Len(tail) \in Nat \ {0} /\ Len(over) \in Nat /\ k < Len(s) /\ k \in Nat
  BY <1>1, <1>4, <1>5, <1>8, <1>9
<1>17. Last(w) = s[Len(s)] /\ Head(w) = w[1] /\ w # <<>>
  <2>1. Last(w) = w[Len(w)] /\ w # <<>>
    BY <1>13, <1>16 DEF Last
  <2>2. Len(tail) \in 1 .. Len(tail)
    BY <1>16
  <2>4. w[Len(over) + Len(tail)] = tail[Len(tail)]
    BY <1>15, <2>2
  <2>5. tail[Len(tail)] = s[k + (Len(s) - k)]
    BY <1>4, <2>2
  <2>3. k + (Len(s) - k) = Len(s)
    BY <1>1
  <2> QED
    BY <1>13, <2>1, <2>3, <2>4, <2>5
<1> DEFINE saw == {e.id : e \in ToSet(w)}
<1>18. ASSUME NEW e \in Contents(s) PROVE e.id \in saw \/ Before(s, e, Head(w).time)
  <2>1. PICK n \in 1 .. Len(s) : s[n] = e
    BY <1>18, MemberFacts DEF Contents
  <2>2. ASSUME NEW m \in 1 .. Len(w), w[m] = e PROVE e.id \in saw
    <3>1. e \in ToSet(w)
      BY <1>13, <2>2, MemberFacts
    <3> QED
      BY <3>1
  <2>3. CASE n > k
    <3>1. n - k \in 1 .. Len(tail) /\ tail[n - k] = s[k + (n - k)] /\ k + (n - k) = n
      BY <1>1, <1>4, <2>1, <2>3
    <3>2. w[Len(over) + (n - k)] = e
      BY <1>15, <2>1, <3>1
    <3>3. Len(over) + (n - k) \in 1 .. Len(w)
      BY <1>13, <1>16, <3>1
    <3> QED
      BY <2>2, <3>2, <3>3
  <2>4. CASE ~ (n > k)
    <3>1. n \in 1 .. Len(first) /\ first[n] = e
      BY <1>1, <1>3, <2>1, <2>4
    <3>2. PICK j \in 1 .. Len(before) : before[j] = e
      BY <1>7, <1>18, <3>1
    <3>3. CASE j > from
      <4>1. j - from \in 1 .. kept /\ from + (j - from) = j
        BY <1>8, <1>10, <3>3
      <4>2. over[j - from] = before[j] /\ j - from \in 1 .. Len(over)
        BY <1>9, <4>1
      <4>3. w[j - from] = e
        BY <1>14, <3>2, <4>2
      <4>4. j - from \in 1 .. Len(w)
        BY <1>13, <1>16, <4>2
      <4> QED
        BY <2>2, <4>3, <4>4
    <3>4. CASE ~ (j > from)
      <4>1. CASE Len(over) = 0
        <5>1. 1 \in 1 .. Len(tail) /\ w[Len(over) + 1] = tail[1] /\ tail[1] = s[k + 1] /\ Len(over) + 1 = 1
          BY <1>4, <1>15, <1>16, <4>1
        <5>2. k + 1 \in 1 .. Len(s) /\ n < k + 1 /\ IsContent(s[k + 1])
          BY <1>1, <1>16, <2>1, <2>4
        <5> QED
          BY <1>17, <2>1, <5>1, <5>2 DEF Before
      <4>2. CASE Len(over) # 0
        <5>1. 1 \in 1 .. kept /\ w[1] = over[1] /\ over[1] = before[from + 1]
          BY <1>8, <1>9, <1>14, <1>16, <4>2
        <5>2. from + 1 \in 1 .. Len(before) /\ j < from + 1
          BY <1>8, <1>10, <3>4, <5>1
        <5>3. <<before[j], before[from + 1]>> \in Older
          BY <1>7, <5>2
        <5>4. PICK i1 \in 1 .. k, i2 \in 1 .. k : i1 < i2 /\ s[i1] = before[j] /\ s[i2] = before[from + 1]
          BY <5>3
        <5>5. IsContent(before[from + 1])
          BY <1>7, <5>2 DEF Contents
        <5>6. i1 \in 1 .. Len(s) /\ i2 \in 1 .. Len(s)
          BY <1>1
        <5> QED
          BY <1>17, <3>2, <5>1, <5>4, <5>5, <5>6 DEF Before
      <4> QED
        BY <4>1, <4>2
    <3> QED
      BY <1>10, <3>3, <3>4
  <2> QED
    BY <2>3, <2>4
<1>19. ASSUME NEW e \in Contents(s) PROVE e.time = Last(w).time \/ Before(s, e, Last(w).time)
  <2>1. PICK n \in 1 .. Len(s) : s[n] = e
    BY <1>19, MemberFacts DEF Contents
  <2>2. Len(s) \in 1 .. Len(s) /\ Len(s) \in k + 1 .. Len(s) /\ (n = Len(s) \/ n < Len(s))
    BY <1>1, <1>16, <2>1
  <2>3. IsContent(s[Len(s)])
    BY <1>1, <2>2
  <2> QED
    BY <1>17, <2>1, <2>2, <2>3 DEF Before
<1> QED
  BY <1>11, <1>13, <1>17, <1>18, <1>19 DEF Spans

-----------------------------------------------------------------------------
(* Event compaction: what the invocations know of the log.                 *)

\* What waits to be stored is content, an invocation's own, and in no log yet.
HandsOK ==
    \A i \in Invocation : \A e \in hand[i] : e.inv = i /\ IsContent(e) /\ e \notin ToSet(log)

\* An invocation knows stored events and its own.
CopiesOK ==
    \A i \in Invocation : \A e \in ToSet(copy[i]) : e.inv = i \/ e \in ToSet(log)

WindowsOK ==
    \A i \in Invocation : phase[i] = "summarising" => Due(copy[i]) /\ window[i] = Window(copy[i])

\* An invocation that appended a marker knows nothing that was stored after it.
MarkersOK ==
    \A n \in 1 .. Len(log) : IsMarker(log[n]) =>
        LET m == log[n]
        IN  /\ phase[m.inv] = "summarised"
            /\ Spans(m.range[1], m.range[2], m.saw, copy[m.inv])
            /\ \A k \in n + 1 .. Len(log) : log[k] \notin ToSet(copy[m.inv])

CompactionInv == CompactionTypes /\ HandsOK /\ CopiesOK /\ WindowsOK /\ MarkersOK

Phases == {"new", "starting", "running", "summarising", "summarised", "over"}

\* A step after which i knows nothing new but e, and the others what they knew.
LEMMA KnownAfter ==
    ASSUME NEW i \in Invocation, NEW E,
           hand \in [Invocation -> SUBSET Events], copy \in [Invocation -> Seq(Events)],
           NEW h, hand' = [hand EXCEPT ![i] = h], h \subseteq Known \cup E,
           NEW c, copy' = [copy EXCEPT ![i] = c], ToSet(c) \subseteq Known \cup E,
           ToSet(log') \subseteq Known \cup E
    PROVE  Known' \subseteq Known \cup E
<1> SUFFICES ASSUME NEW e \in Known', e \notin ToSet(log') PROVE e \in Known \cup E
  OBVIOUS
<1>1. PICK j \in Invocation : e \in ToSet(copy'[j]) \cup hand'[j]
  BY DEF Known
<1>2. CASE j = i
  BY <1>1, <1>2
<1>3. CASE j # i
  <2>1. copy'[j] = copy[j] /\ hand'[j] = hand[j]
    BY <1>3
  <2> QED
    BY <1>1, <2>1 DEF Known
<1> QED
  BY <1>2, <1>3

\* A step that makes nothing keeps what is so of all that was made.
LEMMA NothingMade ==
    ASSUME CompactionTypes, Known' \subseteq Known, UNCHANGED <<lastId, now>>
    PROVE  /\ AnswersOK'
           /\ \A e \in Known' : /\ e.id <= lastId' /\ e.of <= lastId' /\ e.time <= now'
                                /\ IsMarker(e) => Len(e.range) = 2
BY DEF CompactionTypes, CompactionTypeOK, AnswersOK

\* So does a step that makes one event.
LEMMA OneMade ==
    ASSUME CompactionTypes, Known \subseteq Events, NEW e \in Events, Known' \subseteq Known \cup {e},
           NEW t \in Stamps, e.id = lastId + 1, e.time = t, e.of \in 0 .. lastId,
           IsMarker(e) => Len(e.range) = 2, Stamped(t)
    PROVE  /\ AnswersOK' /\ lastId' \in Nat /\ now' \in Nat /\ e \notin Known
           /\ \A x \in Known' : /\ x.id <= lastId' /\ x.of <= lastId' /\ x.time <= now'
                                /\ IsMarker(x) => Len(x.range) = 2
<1>1. lastId \in Nat /\ now \in Nat /\ \A x \in Known : x.id <= lastId /\ x.of <= lastId /\ x.time <= now
                                                       /\ (IsMarker(x) => Len(x.range) = 2)
  BY DEF CompactionTypes, CompactionTypeOK
<1>2. \A x \in Known : x.id \in Nat \ {0} /\ x.of \in Nat /\ x.time \in Nat
  BY DEF Events
<1>3. t \in Nat /\ now <= t /\ lastId' = lastId + 1 /\ now' = t
  BY <1>1 DEF Stamps, Stamped
<1>4. e.id # e.of /\ e.id \in Nat /\ e.of \in Nat /\ e.of <= lastId /\ e.time \in Nat
  BY <1>1, <1>3
<1>5. AnswersOK'
  <2> SUFFICES ASSUME NEW a \in Known', NEW c \in Known', a.of = c.id PROVE c.time <= a.time
    BY DEF AnswersOK
  <2>1. CASE a \in Known /\ c \in Known
    BY <2>1 DEF CompactionTypes, AnswersOK
  <2>2. CASE a = e /\ c \in Known
    BY <1>1, <1>2, <1>3, <2>2
  <2>3. CASE a \in Known /\ c = e
    BY <1>1, <1>2, <2>3
  <2>4. CASE a = e /\ c = e
    BY <1>4, <2>4
  <2> QED
    BY <2>1, <2>2, <2>3, <2>4
<1>6. e \notin Known
  BY <1>1, <1>2
<1>7. ASSUME NEW x \in Known' PROVE x.id <= lastId' /\ x.of <= lastId' /\ x.time <= now' /\ (IsMarker(x) => Len(x.range) = 2)
  <2>1. CASE x \in Known
    BY <1>1, <1>2, <1>3, <2>1
  <2>2. CASE x = e
    BY <1>1, <1>3, <1>4, <2>2
  <2> QED
    BY <2>1, <2>2
<1> QED
  BY <1>1, <1>3, <1>5, <1>6, <1>7

LEMMA KnownTypes ==
    ASSUME CompactionTypeOK
    PROVE  /\ Known \subseteq Events /\ ToSet(log) \subseteq Known
           /\ \A i \in Invocation : ToSet(copy[i]) \subseteq Known /\ hand[i] \subseteq Known
<1>1. log \in Seq(Events) /\ \A i \in Invocation : copy[i] \in Seq(Events) /\ hand[i] \subseteq Events
  BY DEF CompactionTypeOK
<1>2. ToSet(log) \subseteq Events /\ \A i \in Invocation : ToSet(copy[i]) \subseteq Events
  BY <1>1, MemberFacts
<1> QED
  BY <1>1, <1>2 DEF Known

LEMMA NewEventType ==
    ASSUME CompactionTypeOK, NEW i \in Invocation, NEW kind \in {"text", "call", "answer"},
           NEW of \in 0 .. lastId, NEW t \in Stamps
    PROVE  LET e == NewEvent(i, kind, of, t)
           IN  /\ e \in Events /\ e.id = lastId + 1 /\ e.time = t /\ e.of \in 0 .. lastId /\ e.inv = i
               /\ IsContent(e) /\ e.kind = kind
<1>1. <<>> \in Seq(Nat) /\ lastId + 1 \in Nat \ {0} /\ {} \in SUBSET Nat /\ t \in Nat /\ of \in Nat
  BY DEF CompactionTypeOK, Stamps
<1> QED
  BY <1>1 DEF NewEvent, Events, IsContent, IsMarker

LEMMA MarkerType ==
    ASSUME CompactionTypeOK, NEW i \in Invocation, NEW t \in Stamps, NEW w \in Seq(Events), w # <<>>
    PROVE  LET m == Marker(i, w, t)
           IN  /\ m \in Events /\ m.id = lastId + 1 /\ m.time = t /\ m.of \in 0 .. lastId /\ m.inv = i
               /\ IsMarker(m) /\ Len(m.range) = 2
               /\ m.range[1] = Head(w).time /\ m.range[2] = Last(w).time
               /\ m.saw = {e.id : e \in ToSet(w)}
<1>1. Len(w) \in Nat /\ lastId \in Nat /\ lastId + 1 \in Nat \ {0} /\ t \in Nat
  BY DEF CompactionTypeOK, Stamps
<1>2. Head(w) \in Events /\ Last(w) \in Events /\ \A e \in ToSet(w) : e \in Events
  BY <1>1, MemberFacts DEF Last
<1>3. \A e \in Events : e.time \in Nat /\ e.id \in Nat
  BY DEF Events
<1>4. <<Head(w).time, Last(w).time>> \in Seq(Nat) /\ {e.id : e \in ToSet(w)} \in SUBSET Nat
  BY <1>2, <1>3
<1> DEFINE m == Marker(i, w, t)
<1>5. m.id = lastId + 1 /\ m.time = t /\ m.inv = i /\ m.kind = "marker" /\ m.of = 0
      /\ m.range = <<Head(w).time, Last(w).time>> /\ m.saw = {e.id : e \in ToSet(w)}
  BY DEF Marker
<1>6. m \in Events
  BY <1>1, <1>4 DEF Marker, Events
<1>7. m.of \in 0 .. lastId
  BY <1>1, <1>5
<1> HIDE DEF m
<1>8. IsMarker(m) /\ Len(m.range) = 2 /\ m.range[1] = Head(w).time /\ m.range[2] = Last(w).time
  BY <1>5 DEF IsMarker
<1> QED
  BY <1>5, <1>6, <1>7, <1>8 DEF m

\* A call without an answer was made: its id was given.
LEMMA PendingFacts ==
    ASSUME CompactionTypeOK, NEW s \in Seq(Events), ToSet(s) \subseteq Known
    PROVE  \A c \in Pending(s) : c.id \in 0 .. lastId
<1>1. \A c \in Known : c.id \in Nat /\ c.id <= lastId
  BY KnownTypes DEF CompactionTypeOK, Events
<1> QED
  BY <1>1 DEF Pending, CompactionTypeOK

\* What is appended to a log leaves what came before what.
LEMMA BeforeAppended ==
    ASSUME NEW s \in Seq(Events), NEW e, NEW t, NEW m \in Events, Before(s, e, t)
    PROVE  Before(Append(s, m), e, t)
<1>1. PICK a \in 1 .. Len(s), b \in 1 .. Len(s) : a < b /\ s[a] = e /\ IsContent(s[b]) /\ s[b].time = t
  BY DEF Before
<1> DEFINE r == Append(s, m)
<1>2. Len(s) \in Nat /\ Len(r) = Len(s) + 1 /\ \A n \in 1 .. Len(s) : r[n] = s[n]
  OBVIOUS
<1> HIDE DEF r
<1>3. a \in 1 .. Len(r) /\ b \in 1 .. Len(r) /\ r[a] = s[a] /\ r[b] = s[b]
  BY <1>2
<1>4. Before(r, e, t)
  BY <1>1, <1>3 DEF Before
<1> QED
  BY <1>4 DEF r

\* What is taken out of a copy and appended to it.
LEMMA MovedToTheEnd ==
    ASSUME NEW s \in Seq(Events), NEW e \in Events
    PROVE  LET r == Append(Selected(s, ToSet(s) \ {e}), e)
           IN  r \in Seq(Events) /\ ToSet(r) \subseteq ToSet(s) \cup {e}
<1> DEFINE A == ToSet(s) \ {e}
           q == Selected(s, A)
           Pairs == Events \X Events
<1>1. \A i, j \in 1 .. Len(s) : i < j => <<s[i], s[j]>> \in Pairs
  OBVIOUS
<1>2. /\ q \in Seq(Events)
      /\ \A x : (\E i \in 1 .. Len(q) : q[i] = x) <=> x \in A /\ \E i \in 1 .. Len(s) : s[i] = x
      /\ \A i, j \in 1 .. Len(q) : i < j => <<q[i], q[j]>> \in Pairs
  <2> HIDE DEF Pairs, A
  <2> QED
    BY <1>1, SelectedKeeps
<1> HIDE DEF q
<1>3. ToSet(q) \subseteq ToSet(s)
  BY <1>2, MemberFacts
<1>4. Append(q, e) \in Seq(Events) /\ ToSet(Append(q, e)) = ToSet(q) \cup {e}
  BY <1>2, MemberFacts
<1> QED
  BY <1>3, <1>4 DEF q

\* An invocation other than the one of the step keeps what it summarises.
LEMMA WindowsKept ==
    ASSUME WindowsOK, NEW i \in Invocation,
           \A j \in Invocation \ {i} : phase'[j] = phase[j] /\ window'[j] = window[j] /\ copy'[j] = copy[j],
           phase'[i] = "summarising" => Due(copy'[i]) /\ window'[i] = Window(copy'[i])
    PROVE  WindowsOK'
<1> SUFFICES ASSUME NEW j \in Invocation, phase'[j] = "summarising"
             PROVE  Due(copy'[j]) /\ window'[j] = Window(copy'[j])
  BY DEF WindowsOK
<1>1. CASE j = i
  BY <1>1
<1>2. CASE j # i
  BY <1>2 DEF WindowsOK
<1> QED
  BY <1>1, <1>2

\* Markers stay what they are in a step of an invocation that has appended none, and that
\* appends no more than an event that no marker's invocation knows.
LEMMA MarkersKept ==
    ASSUME CompactionInv, NEW i \in Invocation, phase[i] # "summarised",
           \A j \in Invocation \ {i} : phase'[j] = phase[j] /\ copy'[j] = copy[j],
           \/ log' = log
           \/ \E e \in Events :
                  /\ log' = Append(log, e) /\ \A j \in Invocation \ {i} : e \notin ToSet(copy[j])
                  /\ IsMarker(e) => /\ phase'[e.inv] = "summarised"
                                    /\ Spans(e.range[1], e.range[2], e.saw, copy'[e.inv])
    PROVE  MarkersOK'
<1>1. log \in Seq(Events) /\ Len(log) \in Nat
  BY DEF CompactionInv, CompactionTypes, CompactionTypeOK
<1>2. ASSUME NEW n \in 1 .. Len(log), IsMarker(log[n])
      PROVE  /\ log[n].inv \in Invocation \ {i} /\ phase'[log[n].inv] = "summarised"
             /\ Spans(log[n].range[1], log[n].range[2], log[n].saw, copy'[log[n].inv])
             /\ \A k \in n + 1 .. Len(log) : log[k] \notin ToSet(copy'[log[n].inv])
             /\ copy'[log[n].inv] = copy[log[n].inv]
  <2>1. log[n].inv \in Invocation
    <3>1. log[n] \in Events
      BY <1>1
    <3> QED
      BY <3>1 DEF Events
  <2>2. /\ phase[log[n].inv] = "summarised"
        /\ Spans(log[n].range[1], log[n].range[2], log[n].saw, copy[log[n].inv])
        /\ \A k \in n + 1 .. Len(log) : log[k] \notin ToSet(copy[log[n].inv])
    BY <1>2 DEF CompactionInv, MarkersOK
  <2>3. log[n].inv \in Invocation \ {i}
    BY <2>1, <2>2
  <2> QED
    BY <2>2, <2>3
<1>3. CASE log' = log
  BY <1>2, <1>3 DEF MarkersOK
<1>4. CASE log' # log
  <2>1. PICK e \in Events :
                  /\ log' = Append(log, e) /\ \A j \in Invocation \ {i} : e \notin ToSet(copy[j])
                  /\ IsMarker(e) => /\ phase'[e.inv] = "summarised"
                                    /\ Spans(e.range[1], e.range[2], e.saw, copy'[e.inv])
    BY <1>4
  <2>2. /\ Len(log') = Len(log) + 1 /\ log'[Len(log) + 1] = e
        /\ \A n \in 1 .. Len(log) : log'[n] = log[n]
    BY <1>1, <2>1
  <2> SUFFICES ASSUME NEW n \in 1 .. Len(log'), IsMarker(log'[n])
               PROVE  /\ phase'[log'[n].inv] = "summarised"
                      /\ Spans(log'[n].range[1], log'[n].range[2], log'[n].saw, copy'[log'[n].inv])
                      /\ \A k \in n + 1 .. Len(log') : log'[k] \notin ToSet(copy'[log'[n].inv])
    BY DEF MarkersOK
  <2>3. CASE n \in 1 .. Len(log)
    <3>1. log'[n] = log[n]
      BY <2>2, <2>3
    <3>2. ASSUME NEW k \in n + 1 .. Len(log') PROVE log'[k] \notin ToSet(copy'[log[n].inv])
      <4>1. CASE k = Len(log) + 1
        <5>1. log'[k] = e
          BY <2>2, <4>1
        <5> QED
          BY <1>2, <2>1, <2>3, <3>1, <5>1
      <4>2. CASE k # Len(log) + 1
        <5>1. k \in n + 1 .. Len(log) /\ k \in 1 .. Len(log)
          BY <1>1, <2>2, <2>3, <4>2
        <5>2. log'[k] = log[k]
          BY <2>2, <5>1
        <5> QED
          BY <1>2, <2>3, <3>1, <5>1, <5>2
      <4> QED
        BY <4>1, <4>2
    <3> QED
      BY <1>2, <2>3, <3>1, <3>2
  <2>4. CASE n = Len(log) + 1
    <3>1. log'[n] = e /\ n + 1 .. Len(log') = {}
      BY <1>1, <2>2, <2>4
    <3>2. IsMarker(e)
      BY <3>1
    <3> QED
      BY <2>1, <3>1, <3>2
  <2>5. n \in 1 .. Len(log) \/ n = Len(log) + 1
    <3>1. n \in 1 .. Len(log) + 1
      BY <2>2
    <3> QED
      BY <1>1, <3>1
  <2> QED
    BY <2>3, <2>4, <2>5
<1> QED
  BY <1>3, <1>4

LEMMA CompactionInvInit == CompactionInit => CompactionInv
<1> SUFFICES ASSUME CompactionInit PROVE CompactionInv
  OBVIOUS
<1>1. <<>> \in Seq(Events) /\ Len(<<>>) = 0 /\ ToSet(<<>>) = {}
  BY DEF ToSet
<1>2. /\ log = <<>> /\ lastId = 0 /\ now = 0
      /\ \A i \in Invocation : copy[i] = <<>> /\ hand[i] = {} /\ phase[i] = "new"
  BY DEF CompactionInit
<1>3. Known = {}
  BY <1>1, <1>2 DEF Known
<1>4. CompactionTypeOK
  <2>1. /\ copy \in [Invocation -> Seq(Events)] /\ hand \in [Invocation -> SUBSET Events]
        /\ phase \in [Invocation -> Phases] /\ window \in [Invocation -> Seq(Events)]
    BY <1>1 DEF CompactionInit, Phases
  <2> QED
    BY <1>1, <1>2, <1>3, <2>1 DEF CompactionTypeOK, Phases
<1>5. CompactionTypes
  BY <1>3, <1>4 DEF CompactionTypes, AnswersOK
<1>6. HandsOK /\ CopiesOK /\ WindowsOK
  BY <1>1, <1>2 DEF HandsOK, CopiesOK, WindowsOK
<1>7. MarkersOK
  BY <1>1, <1>2 DEF MarkersOK
<1> QED
  BY <1>5, <1>6, <1>7 DEF CompactionInv

\* What Begin does, with its types.
LEMMA BeginKeeps == ASSUME CompactionInv, NEW i \in Invocation, Begin(i) PROVE CompactionInv'
<1>1. CompactionTypeOK /\ CompactionTypes /\ HandsOK /\ CopiesOK /\ WindowsOK
  BY DEF CompactionInv, CompactionTypes
<1> DEFINE Chosen(t, e) ==
             /\ \/ e = NewEvent(i, "text", 0, t)
                \/ \E c \in Pending(log) : e = NewEvent(i, "answer", c.id, t)
             /\ hand' = [hand EXCEPT ![i] = {e}] /\ Stamped(t)
<1>0. PICK t \in Stamps : \E e : Chosen(t, e)
  BY DEF Begin
<1>2. PICK e : Chosen(t, e)
  BY <1>0
<1>3. /\ phase[i] = "new" /\ phase' = [phase EXCEPT ![i] = "starting"] /\ log' = log /\ window' = window
      /\ copy' = [copy EXCEPT ![i] = log]
  BY DEF Begin
<1>4. /\ log \in Seq(Events) /\ lastId \in Nat /\ copy \in [Invocation -> Seq(Events)]
      /\ hand \in [Invocation -> SUBSET Events] /\ phase \in [Invocation -> Phases]
      /\ window \in [Invocation -> Seq(Events)]
  BY <1>1 DEF CompactionTypeOK, Phases
<1>5. /\ e \in Events /\ e.id = lastId + 1 /\ e.time = t /\ e.of \in 0 .. lastId /\ e.inv = i /\ IsContent(e)
  <2>1. \A c \in Pending(log) : c.id \in 0 .. lastId
    <3>1. ToSet(log) \subseteq Known
      BY <1>1, KnownTypes
    <3> QED
      BY <1>1, <1>4, <3>1, PendingFacts
  <2>2. 0 \in 0 .. lastId
    BY <1>4
  <2> QED
    BY <1>1, <1>2, <2>1, <2>2, NewEventType
<1>6. Known' \subseteq Known \cup {e}
  <2>1. ToSet(log) \subseteq Known \cup {e} /\ {e} \subseteq Known \cup {e}
    BY <1>1, KnownTypes
  <2> QED
    BY <1>2, <1>3, <1>4, <2>1, KnownAfter
<1>7. /\ AnswersOK' /\ lastId' \in Nat /\ now' \in Nat /\ e \notin Known
      /\ \A x \in Known' : /\ x.id <= lastId' /\ x.of <= lastId' /\ x.time <= now'
                           /\ IsMarker(x) => Len(x.range) = 2
  BY <1>1, <1>2, <1>5, <1>6, KnownTypes, OneMade DEF IsContent
<1>8. CompactionTypes'
  <2>1. /\ copy' \in [Invocation -> Seq(Events)] /\ hand' \in [Invocation -> SUBSET Events]
        /\ phase' \in [Invocation -> Phases]
    BY <1>2, <1>3, <1>4, <1>5 DEF Phases
  <2> QED
    BY <1>3, <1>4, <1>7, <2>1 DEF CompactionTypes, CompactionTypeOK, Phases
<1>9. \A j \in Invocation \ {i} : /\ phase'[j] = phase[j] /\ window'[j] = window[j] /\ copy'[j] = copy[j]
                                  /\ hand'[j] = hand[j]
  BY <1>2, <1>3, <1>4
<1>10. phase'[i] = "starting" /\ copy'[i] = log /\ hand'[i] = {e}
  BY <1>2, <1>3, <1>4
<1>11. HandsOK'
  <2>1. e \notin ToSet(log)
    BY <1>1, <1>7, KnownTypes
  <2> QED
    BY <1>1, <1>3, <1>5, <1>9, <1>10, <2>1 DEF HandsOK
<1>12. CopiesOK'
  BY <1>1, <1>3, <1>9, <1>10 DEF CopiesOK
<1>13. WindowsOK'
  BY <1>1, <1>9, <1>10, WindowsKept
<1>14. MarkersOK'
  BY <1>3, <1>9, MarkersKept
<1> QED
  BY <1>8, <1>11, <1>12, <1>13, <1>14 DEF CompactionInv

LEMMA MakeKeeps == ASSUME CompactionInv, NEW i \in Invocation, Make(i) PROVE CompactionInv'
<1>1. CompactionTypeOK /\ CompactionTypes /\ HandsOK /\ CopiesOK /\ WindowsOK
  BY DEF CompactionInv, CompactionTypes
<1> DEFINE Chosen(t, pushed, e) ==
             /\ \/ e \in {NewEvent(i, "text", 0, t), NewEvent(i, "call", 0, t)}
                \/ \E c \in Pending(copy[i]) : e = NewEvent(i, "answer", c.id, t)
             /\ hand' = [hand EXCEPT ![i] = @ \cup {e}]
             /\ copy' = IF pushed THEN [copy EXCEPT ![i] = Append(@, e)] ELSE copy
             /\ Stamped(t)
<1>0. PICK t \in Stamps, pushed \in BOOLEAN : \E e : Chosen(t, pushed, e)
  BY DEF Make
<1>2. PICK e : Chosen(t, pushed, e)
  BY <1>0
<1>3. phase[i] = "running" /\ phase' = phase /\ log' = log /\ window' = window
  BY DEF Make
<1>4. /\ log \in Seq(Events) /\ lastId \in Nat /\ copy \in [Invocation -> Seq(Events)]
      /\ hand \in [Invocation -> SUBSET Events] /\ phase \in [Invocation -> Phases]
      /\ window \in [Invocation -> Seq(Events)]
  BY <1>1 DEF CompactionTypeOK, Phases
<1>5. /\ e \in Events /\ e.id = lastId + 1 /\ e.time = t /\ e.of \in 0 .. lastId /\ e.inv = i /\ IsContent(e)
  <2>1. \A c \in Pending(copy[i]) : c.id \in 0 .. lastId
    <3>1. ToSet(copy[i]) \subseteq Known /\ copy[i] \in Seq(Events)
      BY <1>1, <1>4, KnownTypes
    <3> QED
      BY <1>1, <3>1, PendingFacts
  <2>2. 0 \in 0 .. lastId
    BY <1>4
  <2> QED
    BY <1>1, <1>2, <2>1, <2>2, NewEventType
<1> DEFINE c2 == IF pushed THEN Append(copy[i], e) ELSE copy[i]
<1>6. /\ c2 \in Seq(Events) /\ copy' = [copy EXCEPT ![i] = c2] /\ ToSet(c2) \subseteq ToSet(copy[i]) \cup {e}
  <2>1. copy[i] \in Seq(Events) /\ copy = [copy EXCEPT ![i] = copy[i]]
    BY <1>4
  <2>2. Append(copy[i], e) \in Seq(Events) /\ ToSet(Append(copy[i], e)) = ToSet(copy[i]) \cup {e}
    BY <1>5, <2>1, MemberFacts
  <2> QED
    BY <1>2, <2>1, <2>2
<1> HIDE DEF c2
<1>7. Known' \subseteq Known \cup {e}
  <2>1. ToSet(log) \subseteq Known \cup {e} /\ hand[i] \cup {e} \subseteq Known \cup {e} /\ ToSet(c2) \subseteq Known \cup {e}
    BY <1>1, <1>6, KnownTypes
  <2>2. hand' = [hand EXCEPT ![i] = hand[i] \cup {e}]
    BY <1>2
  <2> QED
    BY <1>3, <1>4, <1>6, <2>1, <2>2, KnownAfter
<1>8. /\ AnswersOK' /\ lastId' \in Nat /\ now' \in Nat /\ e \notin Known
      /\ \A x \in Known' : /\ x.id <= lastId' /\ x.of <= lastId' /\ x.time <= now'
                           /\ IsMarker(x) => Len(x.range) = 2
  BY <1>1, <1>2, <1>5, <1>7, KnownTypes, OneMade DEF IsContent
<1>9. CompactionTypes'
  <2>1. copy' \in [Invocation -> Seq(Events)] /\ hand' \in [Invocation -> SUBSET Events]
    BY <1>2, <1>4, <1>5, <1>6
  <2> QED
    BY <1>3, <1>4, <1>8, <2>1 DEF CompactionTypes, CompactionTypeOK, Phases
<1>10. \A j \in Invocation \ {i} : /\ phase'[j] = phase[j] /\ window'[j] = window[j] /\ copy'[j] = copy[j]
                                   /\ hand'[j] = hand[j]
  BY <1>2, <1>3, <1>4, <1>6
<1>11. phase'[i] = "running" /\ copy'[i] = c2 /\ hand'[i] = hand[i] \cup {e}
  BY <1>2, <1>3, <1>4, <1>6
<1>12. HandsOK'
  <2>1. e \notin ToSet(log)
    BY <1>1, <1>8, KnownTypes
  <2> QED
    BY <1>1, <1>3, <1>5, <1>10, <1>11, <2>1 DEF HandsOK
<1>13. CopiesOK'
  BY <1>1, <1>3, <1>5, <1>6, <1>10, <1>11 DEF CopiesOK
<1>14. WindowsOK'
  BY <1>1, <1>10, <1>11, WindowsKept
<1>15. MarkersOK'
  BY <1>3, <1>10, MarkersKept
<1> QED
  BY <1>9, <1>12, <1>13, <1>14, <1>15 DEF CompactionInv

LEMMA StoreKeeps == ASSUME CompactionInv, NEW i \in Invocation, Store(i) PROVE CompactionInv'
<1>1. CompactionTypeOK /\ CompactionTypes /\ HandsOK /\ CopiesOK /\ WindowsOK
  BY DEF CompactionInv, CompactionTypes
<1>2. PICK e \in hand[i] :
          /\ hand' = [hand EXCEPT ![i] = @ \ {e}]
          /\ copy' = [copy EXCEPT ![i] = Append(Selected(@, ToSet(@) \ {e}), e)]
          /\ log' = Append(log, e)
  BY DEF Store
<1>3. /\ phase[i] \in {"starting", "running"} /\ phase' = [phase EXCEPT ![i] = "running"]
      /\ UNCHANGED <<window, lastId, now>>
  BY DEF Store
<1>4. /\ log \in Seq(Events) /\ lastId \in Nat /\ copy \in [Invocation -> Seq(Events)]
      /\ hand \in [Invocation -> SUBSET Events] /\ phase \in [Invocation -> Phases]
      /\ window \in [Invocation -> Seq(Events)]
  BY <1>1 DEF CompactionTypeOK, Phases
<1>5. e \in Events /\ e.inv = i /\ IsContent(e) /\ e \notin ToSet(log) /\ e \in Known
  BY <1>1, <1>4, KnownTypes DEF HandsOK
<1> DEFINE c2 == Append(Selected(copy[i], ToSet(copy[i]) \ {e}), e)
<1>6. c2 \in Seq(Events) /\ copy' = [copy EXCEPT ![i] = c2] /\ ToSet(c2) \subseteq ToSet(copy[i]) \cup {e}
  BY <1>2, <1>4, <1>5, MovedToTheEnd
<1> HIDE DEF c2
<1>7. log' \in Seq(Events) /\ ToSet(log') = ToSet(log) \cup {e}
  BY <1>2, <1>4, <1>5, MemberFacts
<1>8. Known' \subseteq Known
  <2>1. hand[i] \ {e} \subseteq Known \cup {} /\ ToSet(c2) \subseteq Known \cup {} /\ ToSet(log') \subseteq Known \cup {}
    BY <1>1, <1>5, <1>6, <1>7, KnownTypes
  <2>2. hand' = [hand EXCEPT ![i] = hand[i] \ {e}]
    BY <1>2
  <2>3. Known' \subseteq Known \cup {}
    BY <1>4, <1>6, <2>1, <2>2, KnownAfter
  <2> QED
    BY <2>3
<1>9. CompactionTypes'
  <2>1. /\ copy' \in [Invocation -> Seq(Events)] /\ hand' \in [Invocation -> SUBSET Events]
        /\ phase' \in [Invocation -> Phases]
    BY <1>2, <1>3, <1>4, <1>6 DEF Phases
  <2>2. lastId' \in Nat /\ now' \in Nat /\ window' \in [Invocation -> Seq(Events)]
    BY <1>1, <1>3 DEF CompactionTypeOK
  <2>3. /\ AnswersOK'
        /\ \A x \in Known' : /\ x.id <= lastId' /\ x.of <= lastId' /\ x.time <= now'
                             /\ IsMarker(x) => Len(x.range) = 2
    BY <1>1, <1>3, <1>8, NothingMade
  <2> QED
    BY <1>7, <2>1, <2>2, <2>3 DEF CompactionTypes, CompactionTypeOK, Phases
<1>10. \A j \in Invocation \ {i} : /\ phase'[j] = phase[j] /\ window'[j] = window[j] /\ copy'[j] = copy[j]
                                   /\ hand'[j] = hand[j]
  BY <1>2, <1>3, <1>4, <1>6
<1>11. phase'[i] = "running" /\ copy'[i] = c2 /\ hand'[i] = hand[i] \ {e}
  BY <1>2, <1>3, <1>4, <1>6
<1>12. HandsOK'
  BY <1>1, <1>5, <1>7, <1>10, <1>11 DEF HandsOK
<1>13. CopiesOK'
  BY <1>1, <1>5, <1>6, <1>7, <1>10, <1>11 DEF CopiesOK
<1>14. WindowsOK'
  BY <1>1, <1>10, <1>11, WindowsKept
<1>15. MarkersOK'
  <2>1. \A j \in Invocation \ {i} : e \notin ToSet(copy[j])
    BY <1>1, <1>5 DEF CopiesOK
  <2> QED
    BY <1>2, <1>3, <1>5, <1>10, <2>1, MarkersKept DEF IsContent
<1> QED
  BY <1>9, <1>12, <1>13, <1>14, <1>15 DEF CompactionInv

\* A step that stores and makes nothing, of an invocation that is then summarising or over.
LEMMA EndKeeps ==
    ASSUME CompactionInv, NEW i \in Invocation, phase[i] # "summarised",
           NEW p \in {"summarising", "over"}, phase' = [phase EXCEPT ![i] = p],
           NEW w \in Seq(Events), window' = [window EXCEPT ![i] = w],
           NEW c \in {copy[i], <<>>}, copy' = [copy EXCEPT ![i] = c],
           hand' = [hand EXCEPT ![i] = {}], UNCHANGED <<log, lastId, now>>,
           p = "summarising" => Due(c) /\ w = Window(c)
    PROVE  CompactionInv'
<1>1. CompactionTypeOK /\ CompactionTypes /\ HandsOK /\ CopiesOK /\ WindowsOK
  BY DEF CompactionInv, CompactionTypes
<1>2. /\ log \in Seq(Events) /\ lastId \in Nat /\ now \in Nat /\ copy \in [Invocation -> Seq(Events)]
      /\ hand \in [Invocation -> SUBSET Events] /\ phase \in [Invocation -> Phases]
      /\ window \in [Invocation -> Seq(Events)]
  BY <1>1 DEF CompactionTypeOK, Phases
<1>3. c \in Seq(Events) /\ ToSet(c) \subseteq ToSet(copy[i])
  <2>1. <<>> \in Seq(Events) /\ ToSet(<<>>) = {}
    BY DEF ToSet
  <2> QED
    BY <1>2, <2>1
<1>4. Known' \subseteq Known
  <2>1. {} \subseteq Known \cup {} /\ ToSet(c) \subseteq Known \cup {} /\ ToSet(log') \subseteq Known \cup {}
    BY <1>1, <1>3, KnownTypes
  <2>2. Known' \subseteq Known \cup {}
    BY <1>2, <2>1, KnownAfter
  <2> QED
    BY <2>2
<1>5. CompactionTypes'
  <2>1. /\ copy' \in [Invocation -> Seq(Events)] /\ hand' \in [Invocation -> SUBSET Events]
        /\ phase' \in [Invocation -> Phases] /\ window' \in [Invocation -> Seq(Events)]
    BY <1>2, <1>3 DEF Phases
  <2>2. /\ AnswersOK'
        /\ \A x \in Known' : /\ x.id <= lastId' /\ x.of <= lastId' /\ x.time <= now'
                             /\ IsMarker(x) => Len(x.range) = 2
    BY <1>1, <1>4, NothingMade
  <2> QED
    BY <1>2, <2>1, <2>2 DEF CompactionTypes, CompactionTypeOK, Phases
<1>6. \A j \in Invocation \ {i} : /\ phase'[j] = phase[j] /\ window'[j] = window[j] /\ copy'[j] = copy[j]
                                  /\ hand'[j] = hand[j]
  BY <1>2
<1>7. phase'[i] = p /\ copy'[i] = c /\ hand'[i] = {} /\ window'[i] = w
  BY <1>2
<1>8. HandsOK' /\ CopiesOK'
  BY <1>1, <1>3, <1>6, <1>7 DEF HandsOK, CopiesOK
<1>9. WindowsOK'
  BY <1>1, <1>6, <1>7, WindowsKept
<1>10. MarkersOK'
  BY <1>6, MarkersKept
<1> QED
  BY <1>5, <1>8, <1>9, <1>10 DEF CompactionInv

LEMMA SummarisedKeeps == ASSUME CompactionInv, NEW i \in Invocation, Summarised(i) PROVE CompactionInv'
<1>1. CompactionTypeOK /\ CompactionTypes /\ HandsOK /\ CopiesOK /\ WindowsOK
  BY DEF CompactionInv, CompactionTypes
<1>0. PICK t \in Stamps :
          /\ copy' = [copy EXCEPT ![i] = Append(@, Marker(i, window[i], t))]
          /\ log' = Append(log, Marker(i, window[i], t)) /\ Stamped(t)
  BY DEF Summarised
<1>2. PICK m :
          /\ m = Marker(i, window[i], t)
          /\ copy' = [copy EXCEPT ![i] = Append(@, m)] /\ log' = Append(log, m) /\ Stamped(t)
  BY <1>0
<1>3. /\ phase[i] = "summarising" /\ phase' = [phase EXCEPT ![i] = "summarised"]
      /\ window' = [window EXCEPT ![i] = <<>>] /\ hand' = hand
  BY DEF Summarised
<1>4. /\ log \in Seq(Events) /\ lastId \in Nat /\ copy \in [Invocation -> Seq(Events)]
      /\ hand \in [Invocation -> SUBSET Events] /\ phase \in [Invocation -> Phases]
      /\ window \in [Invocation -> Seq(Events)] /\ copy[i] \in Seq(Events)
  BY <1>1 DEF CompactionTypeOK, Phases
<1>5. /\ window[i] \in Seq(Events) /\ window[i] # <<>>
      /\ Spans(Head(window[i]).time, Last(window[i]).time, {e.id : e \in ToSet(window[i])}, copy[i])
  <2>1. Due(copy[i]) /\ window[i] = Window(copy[i])
    BY <1>1, <1>3 DEF WindowsOK
  <2> QED
    BY <1>4, <2>1, WindowFacts
<1>6. /\ m \in Events /\ m.id = lastId + 1 /\ m.time = t /\ m.of \in 0 .. lastId /\ m.inv = i
      /\ IsMarker(m) /\ Len(m.range) = 2
      /\ m.range[1] = Head(window[i]).time /\ m.range[2] = Last(window[i]).time
      /\ m.saw = {e.id : e \in ToSet(window[i])}
  BY <1>1, <1>2, <1>5, MarkerType
<1> DEFINE c2 == Append(copy[i], m)
<1>7. /\ c2 \in Seq(Events) /\ ToSet(c2) = ToSet(copy[i]) \cup {m} /\ Contents(c2) = Contents(copy[i])
  <2>1. Contents(c2) = Contents(copy[i]) \cup {}
    BY <1>4, <1>6, MemberFacts
  <2> QED
    BY <1>4, <1>6, <2>1, MemberFacts
<1>8. log' \in Seq(Events) /\ ToSet(log') = ToSet(log) \cup {m}
  BY <1>2, <1>4, <1>6, MemberFacts
<1>9. Known' \subseteq Known \cup {m}
  <2>1. hand[i] \subseteq Known \cup {m} /\ ToSet(c2) \subseteq Known \cup {m} /\ ToSet(log') \subseteq Known \cup {m}
    BY <1>1, <1>7, <1>8, KnownTypes
  <2>2. hand' = [hand EXCEPT ![i] = hand[i]] /\ copy' = [copy EXCEPT ![i] = c2]
    BY <1>2, <1>3, <1>4
  <2> HIDE DEF c2
  <2> QED
    BY <1>4, <2>1, <2>2, KnownAfter
<1>10. /\ AnswersOK' /\ lastId' \in Nat /\ now' \in Nat /\ m \notin Known
       /\ \A x \in Known' : /\ x.id <= lastId' /\ x.of <= lastId' /\ x.time <= now'
                            /\ IsMarker(x) => Len(x.range) = 2
  BY <1>1, <1>2, <1>6, <1>9, KnownTypes, OneMade
<1>11. /\ copy' = [copy EXCEPT ![i] = c2] /\ copy'[i] = c2 /\ phase'[i] = "summarised"
       /\ \A j \in Invocation \ {i} : phase'[j] = phase[j] /\ window'[j] = window[j] /\ copy'[j] = copy[j]
  BY <1>2, <1>3, <1>4
<1> HIDE DEF c2
<1>12. CompactionTypes'
  <2>1. <<>> \in Seq(Events)
    OBVIOUS
  <2>2. /\ copy' \in [Invocation -> Seq(Events)] /\ phase' \in [Invocation -> Phases]
        /\ window' \in [Invocation -> Seq(Events)]
    BY <1>3, <1>4, <1>7, <1>11, <2>1 DEF Phases
  <2> QED
    BY <1>3, <1>4, <1>8, <1>10, <2>2 DEF CompactionTypes, CompactionTypeOK, Phases
<1>13. HandsOK'
  <2>1. \A j \in Invocation : m \notin hand[j]
    BY <1>1, <1>10, KnownTypes
  <2> QED
    BY <1>1, <1>3, <1>8, <2>1 DEF HandsOK
<1>14. CopiesOK'
  <2>1. ASSUME NEW j \in Invocation, NEW e \in ToSet(copy'[j]) PROVE e.inv = j \/ e \in ToSet(log')
    <3>1. CASE j = i
      BY <1>1, <1>7, <1>8, <1>11, <2>1, <3>1 DEF CopiesOK
    <3>2. CASE j # i
      BY <1>1, <1>8, <1>11, <2>1, <3>2 DEF CopiesOK
    <3> QED
      BY <3>1, <3>2
  <2> QED
    BY <2>1 DEF CopiesOK
<1>15. WindowsOK'
  BY <1>1, <1>11, WindowsKept
<1>16. Spans(m.range[1], m.range[2], m.saw, copy'[i])
  <2>1. ASSUME NEW e, NEW u, Before(copy[i], e, u) PROVE Before(c2, e, u)
    BY <1>4, <1>6, <2>1, BeforeAppended DEF c2
  <2> QED
    BY <1>5, <1>6, <1>7, <1>11, <2>1 DEF Spans
<1>17. MarkersOK'
  <2>1. \A j \in Invocation \ {i} : m \notin ToSet(copy[j])
    BY <1>1, <1>10, KnownTypes
  <2>2. \E e \in Events :
                  /\ log' = Append(log, e) /\ \A j \in Invocation \ {i} : e \notin ToSet(copy[j])
                  /\ IsMarker(e) => /\ phase'[e.inv] = "summarised"
                                    /\ Spans(e.range[1], e.range[2], e.saw, copy'[e.inv])
    <3>1. phase'[m.inv] = "summarised" /\ Spans(m.range[1], m.range[2], m.saw, copy'[m.inv])
      BY <1>6, <1>11, <1>16
    <3> QED
      BY <1>2, <1>6, <2>1, <3>1
  <2> QED
    BY <1>3, <1>11, <2>2, MarkersKept
<1> QED
  BY <1>12, <1>13, <1>14, <1>15, <1>17 DEF CompactionInv

LEMMA CompactionInvStep == CompactionInv /\ [CompactionNext]_compactionVars => CompactionInv'
<1> SUFFICES ASSUME CompactionInv, [CompactionNext]_compactionVars PROVE CompactionInv'
  OBVIOUS
<1>1. CASE UNCHANGED compactionVars
  <2>1. Known' = Known
    BY <1>1 DEF compactionVars, Known
  <2>2. CompactionTypes'
    BY <1>1, <2>1 DEF compactionVars, CompactionInv, CompactionTypes, CompactionTypeOK, AnswersOK
  <2>3. HandsOK' /\ CopiesOK' /\ WindowsOK' /\ MarkersOK'
    BY <1>1 DEF compactionVars, CompactionInv, HandsOK, CopiesOK, WindowsOK, MarkersOK
  <2> QED
    BY <2>2, <2>3 DEF CompactionInv
<1> SUFFICES ASSUME NEW i \in Invocation,
                    Begin(i) \/ Make(i) \/ Store(i) \/ End(i) \/ Summarised(i) \/ Stop(i)
             PROVE  CompactionInv'
  BY <1>1 DEF CompactionNext
<1>2. /\ CompactionTypeOK /\ copy[i] \in Seq(Events) /\ <<>> \in Seq(Events)
      /\ copy = [copy EXCEPT ![i] = copy[i]]
  BY DEF CompactionInv, CompactionTypes, CompactionTypeOK
<1>3. CASE End(i)
  <2>1. Due(copy[i]) /\ Window(copy[i]) \in Seq(Events)
    BY <1>2, <1>3, WindowFacts DEF End
  <2>2. /\ phase[i] # "summarised" /\ phase' = [phase EXCEPT ![i] = "summarising"]
        /\ window' = [window EXCEPT ![i] = Window(copy[i])] /\ copy' = [copy EXCEPT ![i] = copy[i]]
        /\ hand' = [hand EXCEPT ![i] = {}] /\ UNCHANGED <<log, lastId, now>>
    BY <1>2, <1>3 DEF End
  <2> QED
    BY <2>1, <2>2, EndKeeps
<1>4. CASE Stop(i)
  <2>1. /\ phase[i] # "summarised" /\ phase' = [phase EXCEPT ![i] = "over"]
        /\ window' = [window EXCEPT ![i] = <<>>] /\ copy' = [copy EXCEPT ![i] = <<>>]
        /\ hand' = [hand EXCEPT ![i] = {}] /\ UNCHANGED <<log, lastId, now>>
    BY <1>4 DEF Stop, Running
  <2> QED
    BY <1>2, <2>1, EndKeeps
<1> QED
  BY <1>3, <1>4, BeginKeeps, MakeKeeps, StoreKeeps, SummarisedKeeps

LEMMA CompactionInvHolds == CompactionSpec => []CompactionInv
BY CompactionInvInit, CompactionInvStep, PTL DEF CompactionSpec

\* Compaction type correctness: for any number of invocations, interval and overlap the
\* variables have their types, and no event, stored or not, has an id or a time that was
\* not given yet (Event::new, now_secs).
THEOREM CompactionTypeCorrect == CompactionSpec => []CompactionTypeOK
<1>1. CompactionInv => CompactionTypeOK
  BY DEF CompactionInv, CompactionTypes
<1> QED
  BY <1>1, CompactionInvHolds, PTL

\* The newest cover of a covered event is a marker after it that covers it, and what its
\* invocation knew of the log.
LEMMA CoverFacts ==
    ASSUME CompactionInv, NEW n \in 1 .. Len(log), CoversOf(log, n) # {}
    PROVE  LET m == Cover(log, n)
           IN  /\ m \in Events /\ Covers(m, log[n]) /\ m.range[1] \in Nat /\ m.range[2] \in Nat
               /\ Spans(m.range[1], m.range[2], m.saw, copy[m.inv])
               /\ copy[m.inv] \in Seq(Events)
               /\ \E k \in 1 .. Len(log) :
                     /\ log[k] = m
                     /\ \A x \in 1 .. Len(log) : log[x] \in ToSet(copy[m.inv]) => x <= k
<1> DEFINE C == CoversOf(log, n)
<1>1. log \in Seq(Events) /\ Len(log) \in Nat /\ copy \in [Invocation -> Seq(Events)]
  BY DEF CompactionInv, CompactionTypes, CompactionTypeOK
<1>2. C \subseteq 0 .. Len(log) /\ C # {}
  BY <1>1 DEF CoversOf
<1>3. Max(C) \in C
  <2> HIDE DEF C
  <2> QED
    BY <1>1, <1>2, MaxFacts
<1>4. PICK k \in n + 1 .. Len(log) : k = Max(C) /\ Covers(log[k], log[n])
  BY <1>3 DEF CoversOf
<1>5. k \in 1 .. Len(log) /\ log[k] = Cover(log, n)
  BY <1>1, <1>4 DEF Cover
<1> DEFINE m == log[k]
<1>6. m \in Events /\ IsMarker(m) /\ m.inv \in Invocation /\ m.range \in Seq(Nat)
  <2>1. m \in Events
    BY <1>1, <1>5
  <2> QED
    BY <1>4, <2>1 DEF Covers, Events
<1>7. /\ Spans(m.range[1], m.range[2], m.saw, copy[m.inv])
      /\ \A x \in k + 1 .. Len(log) : log[x] \notin ToSet(copy[m.inv])
  BY <1>5, <1>6 DEF CompactionInv, MarkersOK
<1>8. Len(m.range) = 2
  <2>1. m \in Known
    BY <1>1, <1>5, MemberFacts DEF Known
  <2> QED
    BY <1>6, <2>1 DEF CompactionInv, CompactionTypes, CompactionTypeOK
<1>9. m.range[1] \in Nat /\ m.range[2] \in Nat
  BY <1>6, <1>8
<1>10. \A x \in 1 .. Len(log) : log[x] \in ToSet(copy[m.inv]) => x <= k
  BY <1>1, <1>5, <1>7
<1> QED
  BY <1>1, <1>4, <1>5, <1>6, <1>7, <1>9, <1>10

\* An event stored before one that is not younger overtook it.
LEMMA BeforeOvertook ==
    ASSUME NEW s \in Seq(Events), NEW e, NEW t, t <= e.time, Before(s, e, t)
    PROVE  Overtook(s, e)
BY DEF Before, Overtook

\* No summary loses what its invocation knew (history_with_compaction against
\* compaction_window): an event that a marker stands for in the history was in what the
\* marker's summary read, if it was in the copy of the marker's invocation and overtook no
\* other event of it.
THEOREM NothingKnownIsLost == CompactionSpec => []Remembered
<1>1. CompactionInv => Remembered
  <2> SUFFICES ASSUME CompactionInv, NEW n \in DOMAIN log, IsContent(log[n]), CoversOf(log, n) # {},
                      log[n] \in ToSet(copy[Cover(log, n).inv])
               PROVE  log[n].id \in Cover(log, n).saw \/ Overtook(copy[Cover(log, n).inv], log[n])
    BY DEF Remembered
  <2> DEFINE m == Cover(log, n)
             s == copy[m.inv]
  <2>1. n \in 1 .. Len(log)
    BY DEF CompactionInv, CompactionTypes, CompactionTypeOK
  <2>2. /\ Covers(m, log[n]) /\ Spans(m.range[1], m.range[2], m.saw, s) /\ s \in Seq(Events)
    BY <2>1, CoverFacts
  <2>3. log[n] \in Contents(s)
    BY DEF Contents
  <2> HIDE DEF m, s
  <2>4. log[n].id \in m.saw \/ Before(s, log[n], m.range[1])
    BY <2>2, <2>3 DEF Spans
  <2>5. m.range[1] <= log[n].time
    BY <2>2 DEF Covers
  <2>6. log[n].id \in m.saw \/ Overtook(s, log[n])
    BY <2>2, <2>4, <2>5, BeforeOvertook
  <2> QED
    BY <2>6 DEF m, s
<1> QED
  BY <1>1, CompactionInvHolds, PTL

\* No compaction hides a call and leaves, in the history a model is given, an answer that
\* the invocation that compacted knew, unless the answer overtook another event
\* (history_with_compaction).
THEOREM AnswersAreCoveredToo == CompactionSpec => []AnswersKeepTheirCalls
<1>1. CompactionInv => AnswersKeepTheirCalls
  <2> SUFFICES ASSUME CompactionInv, NEW c \in DOMAIN log, NEW n \in DOMAIN log,
                      log[c].kind = "call", log[n].of = log[c].id, Raw(log, n), ~ Raw(log, c), log[n] \in ToSet(copy[Cover(log, c).inv]),
                      ~ Overtook(copy[Cover(log, c).inv], log[n])
               PROVE  FALSE
    BY DEF AnswersKeepTheirCalls
  <2>1. log \in Seq(Events) /\ Len(log) \in Nat /\ n \in 1 .. Len(log) /\ c \in 1 .. Len(log)
    BY DEF CompactionInv, CompactionTypes, CompactionTypeOK
  <2>2. log[c].time <= log[n].time /\ log[c].time \in Nat /\ log[n].time \in Nat
    <3>1. log[n] \in Known /\ log[c] \in Known
      BY <2>1, MemberFacts DEF Known
    <3>2. log[n] \in Events /\ log[c] \in Events
      BY <2>1
    <3> QED
      BY <3>1, <3>2 DEF CompactionInv, CompactionTypes, AnswersOK, Events
  <2>3. CoversOf(log, c) # {}
    BY DEF Raw, IsContent, IsMarker
  <2> DEFINE m == Cover(log, c)
             s == copy[m.inv]
  <2>4. /\ Covers(m, log[c]) /\ Spans(m.range[1], m.range[2], m.saw, s) /\ s \in Seq(Events)
        /\ m.range[1] \in Nat /\ m.range[2] \in Nat
    BY <2>1, <2>3, CoverFacts
  <2>5. PICK k \in 1 .. Len(log) : /\ log[k] = m
                                   /\ \A x \in 1 .. Len(log) : log[x] \in ToSet(s) => x <= k
    BY <2>1, <2>3, CoverFacts
  <2>6. log[n] \in Contents(s) /\ IsContent(log[n]) /\ n <= k
    BY <2>1, <2>5 DEF Contents, Raw
  <2>7. ~ Overtook(s, log[n])
    OBVIOUS
  <2> HIDE DEF m, s
  <2>8. log[n].time <= m.range[2]
    <3>1. log[n].time = m.range[2] \/ Before(s, log[n], m.range[2])
      BY <2>4, <2>6 DEF Spans
    <3>2. m.range[2] <= log[n].time => ~ Before(s, log[n], m.range[2])
      BY <2>4, <2>7, BeforeOvertook
    <3> DEFINE t == log[n].time
               u == m.range[2]
    <3>3. t \in Nat /\ u \in Nat /\ (t = u \/ ~ u <= t)
      BY <2>2, <2>4, <3>1, <3>2
    <3> HIDE DEF t, u
    <3>4. t <= u
      BY <3>3
    <3> QED
      BY <3>4 DEF t, u
  <2>9. m.range[1] <= log[n].time
    <3> DEFINE t == log[n].time
               b == log[c].time
               u == m.range[1]
    <3>1. t \in Nat /\ b \in Nat /\ u \in Nat /\ u <= b /\ b <= t
      BY <2>2, <2>4 DEF Covers
    <3> HIDE DEF t, b, u
    <3>2. u <= t
      BY <3>1
    <3> QED
      BY <3>2 DEF t, u
  <2>10. k \in n + 1 .. Len(log) /\ Covers(log[k], log[n])
    <3>1. k # n
      BY <2>4, <2>5, <2>6 DEF Covers, IsContent
    <3>2. Covers(log[k], log[n])
      BY <2>4, <2>5, <2>8, <2>9 DEF Covers
    <3> QED
      BY <2>1, <2>6, <3>1, <3>2
  <2>11. k \in CoversOf(log, n)
    BY <2>10 DEF CoversOf
  <2> QED
    BY <2>11 DEF Raw
<1> QED
  BY <1>1, CompactionInvHolds, PTL

=============================================================================
