--------------------------- MODULE ApiServerProofs ---------------------------
(***************************************************************************)
(* Proofs about module ApiServer, for every set of requests, sessions and  *)
(* artifact names: type correctness, what clients are told of is in the    *)
(* session, a deleted session comes back only with a request that had      *)
(* found it, and an announced artifact can be loaded.                      *)
(***************************************************************************)
EXTENDS ApiServer, EventLogProofs

-----------------------------------------------------------------------------
(* The inductive invariants.                                               *)

\* A session that was deleted and that no request had found is not there, and no
\* request is at a place from which it could write to it.
Writing == {"import", "found", "start", "user", "run", "save", "frame"}

HeldInv ==
    \A s \in deleted : holders[s] = {} =>
        ~ Has(s) /\ \A q \in Request : sid[q] = s => pc[q] \notin Writing

\* The events of request q's run so far, as End answers with them.
Own(q)  == [i \in 1 .. made[q] - 1 |-> <<q, i + 1>>]
Made(q) == {q} \X (2 .. made[q])
Log(q)  == sessions[sid[q]].session.events

\* What a request that is on its way has told its client.
Begun(q) == pc[q] \in {"run", "save", "frame", "answered"}

Told(q) ==
    /\ \A i \in 1 .. Len(told[q]) : told[q][i] \in {q} \X (0 .. MaxEvents + 1)
    /\ ~ Begun(q) => made[q] = 1 /\ told[q] = <<>>
    /\ pc[q] \in {"run", "save", "frame"} => told[q] = IF kind[q] = "run_sse" THEN Own(q) ELSE <<>>
    /\ pc[q] = "answered" /\ kind[q] # "create" => NoDuplicates(told[q])

ToldInv == \A q \in Request : Told(q)

\* The session of a request that it was not taken away from holds the events of the
\* request's run, in their order, what its client was told of, and nothing else of
\* the run.
Untouched == {"new", "look", "insert", "found"}
HasImported(q) == kind[q] = "create" /\ pc[q] = "answered"

Stored(q) ==
    ~ cut[q] /\ sid[q] \notin deleted =>
        /\ Selected(Log(q), Made(q)) = Own(q)
        /\ ~ HasImported(q) => told[q] = Selected(Log(q), Range(told[q]))
        /\ \A n \in 2 .. MaxEvents + 1 : Contains(Log(q), <<q, n>>) => n <= made[q]
        /\ pc[q] \in Untouched => ~ Contains(Log(q), <<q, 0>>)

StoredInv == \A q \in Request : Stored(q)

\* The session of a request that creates it holds the events the request has brought,
\* each where it was first.
Early     == {"new", "look", "insert", "import"}
Brings(q) == IF pc[q] \in Early THEN live[q].events ELSE told[q]

Brought(q) ==
    /\ kind[q] = "create" => pc[q] \in Early \cup {"answered"}
    /\ pc[q] \in {"new", "look", "insert"} => live[q].events = <<>>
    /\ pc[q] \in Early => \A i \in 1 .. Len(live[q].events) : live[q].events[i] \in {q} \X {0, 1}
    /\ ~ cut[q] /\ sid[q] \notin deleted =>
          /\ pc[q] \in Early \/ HasImported(q) => WithoutRepeats(Brings(q)) = Selected(Log(q), Range(Brings(q)))
          /\ pc[q] \in Early => \A i \in {0, 1} : Contains(Log(q), <<q, i>>) <=> Contains(live[q].events, <<q, i>>)

BroughtInv == \A q \in Request : Brought(q)

AbsentInv == \A s \in Sid : ~ Has(s) => s \in deleted

\* Where a call of the artifact service is, and what it knows there.
Job(c) ==
    /\ backend = "memory" => at[c] = "idle"
    /\ at[c] # "idle" => job[c].name \in Name
    /\ at[c] \in {"mkdir", "dropped", "scan", "open", "write"} => job[c].body \in Event
    /\ at[c] \in {"mkdir", "scan", "open", "write"} => result[c].is # "saved"
    /\ at[c] \in {"mkdir", "scan"} => pc[c] = "save"
    /\ at[c] \in {"open", "write"} => pc[c] \in {"save", "answered"}
    /\ at[c] = "dropped" => pc[c] = "answered"
    /\ at[c] \in {"open", "write", "read"} => job[c].version \in 1 .. MaxVersion
    /\ at[c] = "write" => job[c].ino \in Event
    /\ at[c] = "read" => pc[c] = "load"
    /\ at[c] = "rmdir" => pc[c] = "delete"
    /\ pc[c] = "save" => /\ job[c].body = <<c, made[c] + 1>> /\ job[c].name \in Name
                         /\ made[c] <= MaxEvents
                         /\ result[c].is = "saved" => result[c].version \in 1 .. MaxVersion

JobInv == \A c \in Request : Job(c)

\* The file of a version holds the body of one save, or is being written by it.
IsFile(n, v, ino, body) == files[n][v] = [ino |-> ino, body |-> body]

\* A name that no two saves were ever in the way of each other on has one writer at
\* most, whose version is new.
OneWriter(n) ==
    \A c \in Writers(n) :
        /\ Writers(n) = {c}
        /\ at[c] = "open" => \A v \in Versions(n) : v < job[c].version
        /\ at[c] = "write" => /\ job[c].ino = job[c].body
                              /\ job[c].version \in Versions(n) => IsFile(n, job[c].version, job[c].body, Torn)

FileInv ==
    /\ \A n \in Name : Versions(n) # {} => n \in kept
    /\ backend = "memory" => \A n \in Name : \A v \in Versions(n) : files[n][v].body \in Event
    /\ \A n \in Name \ overlapped : OneWriter(n)

\* The version of a save whose name was not deleted since is what the save wrote,
\* from the save to the event that carries it and to the client that is told.
Whole(n, v, e) == n \notin overlapped => IsFile(n, v, e, e)

SaveHeld(q) ==
    pc[q] = "save" /\ <<q, made[q] + 1>> \notin stale =>
        /\ at[q] = "write" /\ job[q].name \notin overlapped => job[q].version \in Versions(job[q].name)
        /\ at[q] = "idle" /\ result[q].is = "saved" =>
              Whole(job[q].name, result[q].version, <<q, made[q] + 1>>)

EventHeld(e) == e \notin stale /\ delta[e] # NoDelta => Whole(delta[e][1], delta[e][2], e)

SavedInv ==
    /\ \A q \in Request : SaveHeld(q)
    /\ \A e \in Event : EventHeld(e)
    /\ \A a \in announced : Whole(a.name, a.version, a.body)

\* What a load finds.
Finds(q, a) ==
    \/ result[q].is = "part" /\ result[q].version = a.version /\ result[q].body = a.body
    \/ result[q].is = "part" /\ result[q].version > a.version
    \/ result[q].is = "error" /\ backend = "files" /\ job[q].version > a.version

LoadHeld(q) ==
    hope[q] \subseteq announced /\
        \A a \in hope[q] : pc[q] = "load" /\ a.name \notin overlapped =>
            /\ at[q] = "read" => /\ backend = "files" /\ job[q].name = a.name
                                 /\ job[q].version >= a.version /\ job[q].version \in Versions(a.name)
            /\ at[q] = "idle" => Finds(q, a)

LoadInv == \A q \in Request : LoadHeld(q)

KeptInv == FileInv /\ SavedInv /\ LoadInv

-----------------------------------------------------------------------------
(* Type correctness.                                                       *)

TypeInv == TypeOK /\ JobInv

LEMMA EventFacts ==
    /\ \A q \in Request, n \in 0 .. MaxEvents + 1 : <<q, n>> \in Event
    /\ Body = Event /\ Caller = Request /\ MaxEvents \in Nat /\ MaxVersion \in Nat \ {0}
    /\ NoBody \notin Event /\ Torn \notin Event /\ Mixed \notin Event
<1>1. Body = Event /\ Caller = Request /\ MaxEvents \in Nat
  BY ApiAssumption
<1>2. MaxVersion \in Nat \ {0} /\ {NoBody, Torn, Mixed} \cap Body = {}
  BY ArtifactAssumption
<1> QED
  BY <1>1, <1>2 DEF Event

LEMMA LatestFacts ==
    ASSUME TypeOK, NEW n \in Name
    PROVE  /\ Latest(n) \in 0 .. MaxVersion
           /\ \A v \in Versions(n) : v <= Latest(n)
           /\ Latest(n) # 0 => Latest(n) \in Versions(n)
<1>1. MaxVersion \in Nat /\ Versions(n) \subseteq 1 .. MaxVersion
  BY EventFacts DEF Versions
<1>2. Versions(n) \cup {0} \subseteq 0 .. MaxVersion
  BY <1>1
<1>3. /\ Max(Versions(n) \cup {0}) \in Versions(n) \cup {0}
      /\ \A x \in Versions(n) \cup {0} : x <= Max(Versions(n) \cup {0})
  BY <1>1, <1>2, MaxFacts
<1> QED
  BY <1>2, <1>3 DEF Latest

LEMMA SessionFacts ==
    /\ NewSession \in Session /\ NoSlot \in Slot /\ [present |-> TRUE, session |-> NewSession] \in Slot
    /\ NewSession.events = <<>>
<1>1. <<>> \in Seq(Event)
  OBVIOUS
<1> QED
  BY <1>1 DEF NewSession, NoSlot, Session, Slot

LEMMA AppendSessionFacts ==
    ASSUME NEW s \in Session, NEW e \in Event, NEW slot \in Slot
    PROVE  /\ ApplyEvent(s, e) \in Session
           /\ Mirrored(slot, s, e) \in Slot /\ Mirrored(slot, s, e).present
           /\ slot.present => Mirrored(slot, s, e).session.events =
                                IF Contains(slot.session.events, e) THEN slot.session.events
                                ELSE Append(slot.session.events, e)
<1> DEFINE base == IF slot.present THEN slot.session ELSE s
           log  == IF Contains(base.events, e) THEN base.events ELSE Append(base.events, e)
<1>1. base.events \in Seq(Event) /\ s.events \in Seq(Event)
  BY DEF Slot, Session
<1>2. Append(s.events, e) \in Seq(Event) /\ Append(base.events, e) \in Seq(Event)
  BY <1>1
<1>3. log \in Seq(Event)
  BY <1>1, <1>2
<1>4. Mirrored(slot, s, e) = [present |-> TRUE, session |-> [events |-> log, state |-> e]]
  BY DEF Mirrored
<1> HIDE DEF log
<1>5. Mirrored(slot, s, e) \in Slot
  BY <1>3, <1>4 DEF Slot, Session
<1>6. ApplyEvent(s, e) \in Session
  BY <1>2 DEF ApplyEvent, Session
<1> QED
  BY <1>4, <1>5, <1>6 DEF log

\* What a step of request q leaves of another one.
Local(c) == <<pc[c], at[c], job[c], result[c], made[c]>>

LEMMA JobFrame ==
    ASSUME TypeInv, NEW q \in Request, \A c \in Request \ {q} : UNCHANGED Local(c), backend' = backend, Job(q)'
    PROVE  JobInv'
<1>1. ASSUME NEW c \in Request \ {q} PROVE Job(c)'
  BY <1>1 DEF TypeInv, JobInv, Job, Local
<1> QED
  BY <1>1 DEF JobInv

LEMMA SaveTypes ==
    ASSUME TypeInv, NEW q \in Request, NEW n \in Name, pc[q] = "run", made[q] <= MaxEvents,
           Save(q, n, <<q, made[q] + 1>>), pc' = [pc EXCEPT ![q] = "save"], made' = made
    PROVE  ArtifactTypeOK' /\ JobInv'
<1> DEFINE e == <<q, made[q] + 1>>
<1>1. e \in Event /\ Body = Event /\ MaxVersion \in Nat \ {0} /\ q \in Caller
  <2>1. made[q] + 1 \in 0 .. MaxEvents + 1
    BY EventFacts DEF TypeInv, TypeOK
  <2> QED
    BY <2>1, EventFacts
<1>2. Latest(n) \in 0 .. MaxVersion
  BY LatestFacts DEF TypeInv
<1> HIDE DEF e
<1>3. /\ job' = [job EXCEPT ![q] = JobOf(n, 0, e)]
      /\ UNCHANGED <<backend, overlapped>> /\ at[q] = "idle"
  BY DEF Save, e
<1>4. job' \in [Caller -> [name : Name \cup {"none"}, version : 0 .. MaxVersion,
                           body : Body \cup {NoBody}, ino : Body \cup {NoBody}]]
      /\ job'[q].name = n /\ job'[q].body = e
  <2>1. JobOf(n, 0, e) \in [name : Name \cup {"none"}, version : 0 .. MaxVersion,
                           body : Body \cup {NoBody}, ino : Body \cup {NoBody}]
        /\ JobOf(n, 0, e).name = n /\ JobOf(n, 0, e).body = e
    BY <1>1 DEF JobOf
  <2> QED
    BY <1>1, <1>3, <2>1 DEF TypeInv, TypeOK, ArtifactTypeOK
<1>5. CASE backend = "memory" /\ Latest(n) < MaxVersion
           /\ kept' = kept \cup {n} /\ Saved(q, n, Latest(n) + 1, e)
  <2>1. [ino |-> e, body |-> e] \in File
    BY <1>1 DEF File
  <2>2. Latest(n) + 1 \in 1 .. MaxVersion
    BY <1>1, <1>2, <1>5
  <2>3. files' \in [Name -> [1 .. MaxVersion -> File \cup {Absent}]]
    BY <1>5, <2>1 DEF Saved, TypeInv, TypeOK, ArtifactTypeOK
  <2>4. at' = [at EXCEPT ![q] = "idle"] /\ result' = [result EXCEPT ![q] = [is |-> "saved", version |-> Latest(n) + 1, body |-> e]]
    BY <1>5 DEF Saved, Return, Go, Returned
  <2>5. ArtifactTypeOK'
    BY <1>1, <1>3, <1>4, <1>5, <2>2, <2>3, <2>4 DEF TypeInv, TypeOK, ArtifactTypeOK
  <2>6. at'[q] = "idle" /\ result'[q].version \in 1 .. MaxVersion /\ pc'[q] = "save" /\ made'[q] = made[q]
    BY <1>1, <2>2, <2>4 DEF TypeInv, TypeOK, ArtifactTypeOK
  <2>7. \A c \in Request \ {q} : UNCHANGED Local(c)
    BY <1>1, <1>3, <2>4, EventFacts DEF Local, TypeInv, TypeOK, ArtifactTypeOK
  <2>8. Job(q)'
    BY <1>3, <1>4, <1>5, <2>6 DEF Job, e
  <2> QED
    BY <1>3, <2>5, <2>7, <2>8, JobFrame
<1>6. CASE backend = "files" /\ Go(q, "mkdir") /\ result' = [result EXCEPT ![q] = Pending] /\ UNCHANGED <<kept, files>>
  <2>1. /\ at' = [at EXCEPT ![q] = "mkdir"]
        /\ result' = [result EXCEPT ![q] = [is |-> "pending", version |-> 0, body |-> NoBody]]
    BY <1>6 DEF Go, Pending, Returned
  <2>5. ArtifactTypeOK'
    BY <1>1, <1>3, <1>4, <1>6, <2>1 DEF TypeInv, TypeOK, ArtifactTypeOK
  <2>6. at'[q] = "mkdir" /\ result'[q].is = "pending" /\ pc'[q] = "save" /\ made'[q] = made[q]
    BY <1>1, <2>1 DEF TypeInv, TypeOK, ArtifactTypeOK
  <2>7. \A c \in Request \ {q} : UNCHANGED Local(c)
    BY <1>1, <1>3, <2>1, EventFacts DEF Local, TypeInv, TypeOK, ArtifactTypeOK
  <2>8. Job(q)'
    BY <1>1, <1>3, <1>4, <1>6, <2>6 DEF Job, e
  <2> QED
    BY <1>3, <2>5, <2>7, <2>8, JobFrame
<1> QED
  BY <1>5, <1>6 DEF Save, e

LEMMA FilesTyped ==
    TypeOK => \A n \in Name : \A v \in 1 .. MaxVersion : files[n][v] \in File \cup {Absent}
<1> SUFFICES ASSUME TypeOK, NEW n \in Name, NEW v \in 1 .. MaxVersion PROVE files[n][v] \in File \cup {Absent}
  OBVIOUS
<1>1. files[n] \in [1 .. MaxVersion -> File \cup {Absent}]
  BY DEF TypeOK, ArtifactTypeOK
<1> QED
  BY <1>1

\* What a save that writes its file does.
LEMMA WriteIs ==
    ASSUME NEW q, Write(q)
    PROVE  /\ at[q] = "write" /\ Return(q, Returned("saved", job[q].version, job[q].body))
           /\ UNCHANGED <<backend, kept, job, overlapped>>
           /\ \/ /\ files[job[q].name][job[q].version].ino = job[q].ino
                 /\ \/ files' = [files EXCEPT ![job[q].name][job[q].version].body = job[q].body]
                    \/ /\ files[job[q].name][job[q].version].body # Torn
                       /\ files' = [files EXCEPT ![job[q].name][job[q].version].body = Mixed]
              \/ files[job[q].name][job[q].version].ino # job[q].ino /\ UNCHANGED files
BY Zenon DEF Write

LEMMA FileStepTypes ==
    ASSUME TypeInv, NEW q \in Request, FileStep(q), UNCHANGED <<pc, made>>
    PROVE  ArtifactTypeOK' /\ JobInv'
<1> DEFINE n == job[q].name
           v == job[q].version
<1>1. /\ Body = Event /\ Caller = Request /\ MaxVersion \in Nat \ {0} /\ Job(q)
      /\ job[q] \in [name : Name \cup {"none"}, version : 0 .. MaxVersion,
                     body : Body \cup {NoBody}, ino : Body \cup {NoBody}]
  BY EventFacts DEF TypeInv, TypeOK, ArtifactTypeOK, JobInv
<1>2. at[q] # "idle" /\ n \in Name
  <2>1. at[q] # "idle"
    <3>1. at[q] \in {"mkdir", "dropped", "scan", "open", "write", "read", "rmdir"}
      <4>1. CASE MakeDir(q) BY <4>1 DEF MakeDir
      <4>2. CASE Scan(q) BY <4>2 DEF Scan, ScanWith
      <4>3. CASE Open(q) BY <4>3 DEF Open
      <4>4. CASE Write(q) BY <4>4, WriteIs
      <4>5. CASE Read(q) BY <4>5 DEF Read
      <4>6. CASE RemoveDir(q) BY <4>6 DEF RemoveDir
      <4> QED
        BY <4>1, <4>2, <4>3, <4>4, <4>5, <4>6 DEF FileStep
    <3> QED
      BY <3>1
  <2> QED
    BY <1>1, <2>1 DEF Job
<1>3. /\ UNCHANGED backend /\ backend # "memory"
      /\ \A c \in Request \ {q} : UNCHANGED Local(c)
  <2>1. backend # "memory"
    BY <1>1, <1>2 DEF Job
  <2> QED
    BY <2>1, <1>1 DEF FileStep, MakeDir, Scan, ScanWith, Open, Write, Read, RemoveDir, Go, Return, Local,
                 TypeInv, TypeOK, ArtifactTypeOK
<1>4. CASE MakeDir(q)
  <2>1. ArtifactTypeOK'
    BY <1>1, <1>2, <1>4 DEF MakeDir, Go, TypeInv, TypeOK, ArtifactTypeOK
  <2>2. Job(q)'
    BY <1>1, <1>3, <1>4 DEF MakeDir, Go, TypeInv, TypeOK, ArtifactTypeOK, Job
  <2> QED
    BY <1>3, <2>1, <2>2, JobFrame
<1>5. CASE Scan(q)
  <2> DEFINE next == Latest(n) + 1
  <2>1. at[q] = "scan" /\ next \in Nat /\ UNCHANGED <<backend, kept, files>> /\ overlapped' \subseteq Name
    BY <1>2, <1>5, LatestFacts DEF Scan, ScanWith, TypeInv, TypeOK, ArtifactTypeOK
  <2>2. CASE next <= MaxVersion /\ job' = [job EXCEPT ![q].version = next] /\ Go(q, "open") /\ UNCHANGED result
    <3>1. next \in 1 .. MaxVersion /\ next \in 0 .. MaxVersion
      BY <1>1, <1>2, <2>1, <2>2, LatestFacts DEF TypeInv
    <3> HIDE DEF next
    <3>2. /\ job'[q].version = next /\ job'[q].name = job[q].name /\ job'[q].body = job[q].body
          /\ at'[q] = "open" /\ job'[q].ino = job[q].ino
      BY <1>1, <2>2 DEF Go, TypeInv, TypeOK, ArtifactTypeOK
    <3>3. ArtifactTypeOK'
      BY <1>1, <2>1, <2>2, <3>1 DEF Go, TypeInv, TypeOK, ArtifactTypeOK
    <3>4. Job(q)'
      BY <1>1, <1>2, <1>3, <2>1, <2>2, <3>1, <3>2 DEF Job
    <3> QED
      BY <1>3, <3>3, <3>4, JobFrame
  <2>3. CASE Return(q, Failed) /\ UNCHANGED job
    <3>1. at' = [at EXCEPT ![q] = "idle"] /\ result' = [result EXCEPT ![q] = [is |-> "error", version |-> 0, body |-> NoBody]]
      BY <2>3 DEF Return, Go, Failed, Returned
    <3>2. at'[q] = "idle" /\ result'[q].is = "error"
      BY <1>1, <3>1 DEF TypeInv, TypeOK, ArtifactTypeOK
    <3>3. ArtifactTypeOK'
      BY <1>1, <2>1, <2>3, <3>1 DEF TypeInv, TypeOK, ArtifactTypeOK
    <3>4. Job(q)'
      BY <1>1, <1>3, <2>3, <3>2 DEF Job
    <3> QED
      BY <1>3, <3>3, <3>4, JobFrame
  <2> QED
    BY <1>5, <2>2, <2>3 DEF Scan, ScanWith
<1>6. CASE Open(q)
  <2> DEFINE ino == IF files[n][v] = Absent THEN job[q].body ELSE files[n][v].ino
  <2>1. at[q] = "open" /\ UNCHANGED <<backend, kept, overlapped>> /\ v \in 1 .. MaxVersion
        /\ job[q].body \in Event
    BY <1>1, <1>6 DEF Open, Job
  <2>2. ino \in Event
    <3>1. files[n][v] \in File \cup {Absent}
      BY <1>2, <2>1, FilesTyped DEF TypeInv
    <3> QED
      BY <1>1, <2>1, <3>1 DEF File
  <2>3. CASE /\ Go(q, "write") /\ job' = [job EXCEPT ![q].ino = ino]
             /\ files' = [files EXCEPT ![n][v] = [ino |-> ino, body |-> Torn]] /\ UNCHANGED result
    <3> HIDE DEF ino
    <3>1. [ino |-> ino, body |-> Torn] \in File
      BY <1>1, <2>2 DEF File
    <3>2. files' \in [Name -> [1 .. MaxVersion -> File \cup {Absent}]]
      BY <1>2, <2>1, <2>3, <3>1 DEF TypeInv, TypeOK, ArtifactTypeOK
    <3>3. /\ job'[q].version = job[q].version /\ job'[q].name = job[q].name /\ job'[q].body = job[q].body
          /\ at'[q] = "write" /\ job'[q].ino = ino
      BY <1>1, <2>3 DEF Go, TypeInv, TypeOK, ArtifactTypeOK
    <3>4. ArtifactTypeOK'
      BY <1>1, <2>1, <2>2, <2>3, <3>2 DEF Go, TypeInv, TypeOK, ArtifactTypeOK
    <3>5. Job(q)'
      BY <1>1, <1>2, <1>3, <2>1, <2>2, <2>3, <3>3 DEF Job
    <3> QED
      BY <1>3, <3>4, <3>5, JobFrame
  <2>4. CASE Return(q, Failed) /\ UNCHANGED <<files, job>>
    <3>1. at' = [at EXCEPT ![q] = "idle"] /\ result' = [result EXCEPT ![q] = [is |-> "error", version |-> 0, body |-> NoBody]]
      BY <2>4 DEF Return, Go, Failed, Returned
    <3>2. at'[q] = "idle" /\ result'[q].is = "error"
      BY <1>1, <3>1 DEF TypeInv, TypeOK, ArtifactTypeOK
    <3>3. ArtifactTypeOK'
      BY <1>1, <2>1, <2>4, <3>1 DEF TypeInv, TypeOK, ArtifactTypeOK
    <3>4. Job(q)'
      BY <1>1, <1>3, <2>4, <3>2 DEF Job
    <3> QED
      BY <1>3, <3>3, <3>4, JobFrame
  <2> QED
    BY <1>6, <2>3, <2>4 DEF Open
<1>7. CASE Write(q)
  <2>1. /\ at[q] = "write" /\ UNCHANGED <<backend, kept, job, overlapped>> /\ v \in 1 .. MaxVersion
        /\ job[q].body \in Event /\ job[q].ino \in Event
        /\ at' = [at EXCEPT ![q] = "idle"]
        /\ result' = [result EXCEPT ![q] = [is |-> "saved", version |-> v, body |-> job[q].body]]
    BY <1>1, <1>7 DEF Write, Job, Return, Go, Returned
  <2>2. files' \in [Name -> [1 .. MaxVersion -> File \cup {Absent}]]
    <3>1. files[n][v] \in File \cup {Absent}
      BY <1>2, <2>1, FilesTyped DEF TypeInv
    <3>2. ASSUME files[n][v].ino = job[q].ino, NEW b \in Body \cup {Torn, Mixed},
                 files' = [files EXCEPT ![n][v].body = b]
          PROVE  files' \in [Name -> [1 .. MaxVersion -> File \cup {Absent}]]
      <4>1. files[n][v] \in File
        BY <1>1, <2>1, <3>1, <3>2, EventFacts DEF Absent
      <4>2. [files[n][v] EXCEPT !.body = b] \in File
        BY <3>2, <4>1 DEF File
      <4>3. files' = [files EXCEPT ![n][v] = [files[n][v] EXCEPT !.body = b]]
        BY <3>2
      <4> QED
        BY <4>2, <4>3 DEF TypeInv, TypeOK, ArtifactTypeOK
    <3> QED
      BY <1>1, <1>7, <2>1, <3>2 DEF Write, TypeInv, TypeOK, ArtifactTypeOK
  <2>3. at'[q] = "idle" /\ result'[q].version = v
    BY <1>1, <2>1 DEF TypeInv, TypeOK, ArtifactTypeOK
  <2>4. ArtifactTypeOK'
    BY <1>1, <2>1, <2>2 DEF TypeInv, TypeOK, ArtifactTypeOK
  <2>5. Job(q)'
    BY <1>1, <1>3, <2>1, <2>3 DEF Job
  <2> QED
    BY <1>3, <2>4, <2>5, JobFrame
<1>8. CASE Read(q)
  <2>1. at[q] = "read" /\ UNCHANGED <<backend, kept, files, job, overlapped>> /\ v \in 1 .. MaxVersion /\ pc[q] = "load"
    BY <1>1, <1>8 DEF Read, Job
  <2>2. PICK r \in {Content(n, v), Failed} : Return(q, r)
    BY <1>8 DEF Read
  <2>3. r \in [is : {"pending", "error", "none", "saved", "part"}, version : 0 .. MaxVersion, body : Body \cup {NoBody}]
    BY <1>1, <2>1 DEF Content, Failed, Nothing, Returned
  <2>4. at' = [at EXCEPT ![q] = "idle"] /\ result' = [result EXCEPT ![q] = r] /\ at'[q] = "idle"
    BY <1>1, <2>2 DEF Return, Go, TypeInv, TypeOK, ArtifactTypeOK
  <2>5. ArtifactTypeOK'
    BY <1>1, <2>1, <2>3, <2>4 DEF TypeInv, TypeOK, ArtifactTypeOK
  <2>6. Job(q)'
    BY <1>1, <1>3, <2>1, <2>4 DEF Job
  <2> QED
    BY <1>3, <2>5, <2>6, JobFrame
<1>9. CASE RemoveDir(q)
  <2>1. at[q] = "rmdir" /\ UNCHANGED <<backend, files, job, overlapped>> /\ pc[q] = "delete" /\ kept' \subseteq Name
    BY <1>1, <1>9 DEF RemoveDir, Job, TypeInv, TypeOK, ArtifactTypeOK
  <2>2. PICK r \in {Nothing, Failed} : Return(q, r)
    BY <1>9 DEF RemoveDir
  <2>3. r \in [is : {"pending", "error", "none", "saved", "part"}, version : 0 .. MaxVersion, body : Body \cup {NoBody}]
    BY <1>1 DEF Failed, Nothing, Returned
  <2>4. at' = [at EXCEPT ![q] = "idle"] /\ result' = [result EXCEPT ![q] = r] /\ at'[q] = "idle"
    BY <1>1, <2>2 DEF Return, Go, TypeInv, TypeOK, ArtifactTypeOK
  <2>5. ArtifactTypeOK'
    BY <1>1, <2>1, <2>3, <2>4 DEF TypeInv, TypeOK, ArtifactTypeOK
  <2>6. Job(q)'
    BY <1>1, <1>3, <2>1, <2>4 DEF Job
  <2> QED
    BY <1>3, <2>5, <2>6, JobFrame
<1> QED
  BY <1>4, <1>5, <1>6, <1>7, <1>8, <1>9 DEF FileStep

LEMMA ReturnTypes ==
    ASSUME TypeInv, NEW q \in Request, Return(q, Nothing) \/ Return(q, Failed) \/
                (\E n \in Name, v \in 1 .. MaxVersion : Return(q, Content(n, v)))
    PROVE  /\ at' = [at EXCEPT ![q] = "idle"] /\ at'[q] = "idle" /\ at' \in [Caller -> {"idle", "mkdir", "dropped", "scan", "open", "write", "read", "rmdir"}]
           /\ result' \in [Caller -> [is : {"pending", "error", "none", "saved", "part"}, version : 0 .. MaxVersion,
                              body : Body \cup {NoBody}]]
           /\ \A c \in Request \ {q} : result'[c] = result[c] /\ at'[c] = at[c]
<1>1. Body = Event /\ Caller = Request /\ MaxVersion \in Nat \ {0}
  BY EventFacts
<1>2. PICK r \in {Nothing, Failed} \cup {Content(n, v) : n \in Name, v \in 1 .. MaxVersion} : Return(q, r)
  OBVIOUS
<1>3. r \in [is : {"pending", "error", "none", "saved", "part"}, version : 0 .. MaxVersion, body : Body \cup {NoBody}]
  BY <1>1, <1>2 DEF Content, Failed, Nothing, Returned
<1> QED
  BY <1>1, <1>2, <1>3 DEF Return, Go, TypeInv, TypeOK, ArtifactTypeOK

LEMMA FindTypes ==
    ASSUME TypeInv, NEW q \in Request, NEW n \in Name, NEW w \in 0 .. MaxVersion, Find(q, n, w),
           pc' = [pc EXCEPT ![q] = "load"], made' = made
    PROVE  ArtifactTypeOK' /\ JobInv'
<1> DEFINE found == IF w = 0 THEN Latest(n) ELSE w
<1>1. Body = Event /\ Caller = Request /\ MaxVersion \in Nat \ {0}
  BY EventFacts
<1>2. found \in 0 .. MaxVersion /\ (found # 0 => found \in 1 .. MaxVersion)
  BY <1>1, LatestFacts DEF TypeInv
<1>3. pc'[q] = "load" /\ UNCHANGED <<backend, kept, files, overlapped>>
      /\ \A c \in Request \ {q} : pc'[c] = pc[c]
  BY DEF Find, TypeInv, TypeOK
<1>4. CASE (Return(q, Nothing) \/ (found # 0 /\ Return(q, Content(n, found)))) /\ UNCHANGED job
  <2> HIDE DEF found
  <2>1. /\ at' = [at EXCEPT ![q] = "idle"] /\ at'[q] = "idle" /\ at' \in [Caller -> {"idle", "mkdir", "dropped", "scan", "open", "write", "read", "rmdir"}]
        /\ result' \in [Caller -> [is : {"pending", "error", "none", "saved", "part"}, version : 0 .. MaxVersion,
                              body : Body \cup {NoBody}]]
        /\ \A c \in Request \ {q} : result'[c] = result[c] /\ at'[c] = at[c]
    BY <1>2, <1>4, ReturnTypes
  <2>2. ArtifactTypeOK'
    BY <1>3, <1>4, <2>1 DEF TypeInv, TypeOK, ArtifactTypeOK
  <2>3. Job(q)'
    BY <1>3, <2>1 DEF Job
  <2>4. \A c \in Request \ {q} : UNCHANGED Local(c)
    BY <1>3, <1>4, <2>1 DEF Local
  <2> QED
    BY <1>3, <2>2, <2>3, <2>4, JobFrame
<1>5. CASE /\ Go(q, "read") /\ job' = [job EXCEPT ![q] = JobOf(n, found, NoBody)] /\ found # 0
           /\ result' = [result EXCEPT ![q] = Pending] /\ backend # "memory"
  <2> HIDE DEF found
  <2>1. JobOf(n, found, NoBody) \in [name : Name \cup {"none"}, version : 0 .. MaxVersion,
                           body : Body \cup {NoBody}, ino : Body \cup {NoBody}]
        /\ JobOf(n, found, NoBody).name = n /\ JobOf(n, found, NoBody).version = found
    BY <1>2 DEF JobOf
  <2>2. Pending \in [is : {"pending", "error", "none", "saved", "part"}, version : 0 .. MaxVersion,
                     body : Body \cup {NoBody}]
    BY <1>1 DEF Pending, Returned
  <2>3. ArtifactTypeOK' /\ at'[q] = "read" /\ job'[q] = JobOf(n, found, NoBody)
        /\ \A c \in Request \ {q} : result'[c] = result[c] /\ at'[c] = at[c] /\ job'[c] = job[c]
    BY <1>1, <1>3, <1>5, <2>1, <2>2 DEF Go, TypeInv, TypeOK, ArtifactTypeOK
  <2>4. Job(q)'
    BY <1>2, <1>3, <1>5, <2>1, <2>3 DEF Job
  <2>5. \A c \in Request \ {q} : UNCHANGED Local(c)
    BY <1>3, <1>5, <2>3 DEF Local
  <2> QED
    BY <1>3, <2>3, <2>4, <2>5, JobFrame
<1> QED
  BY <1>2, <1>4, <1>5 DEF Find

LEMMA DeleteTypes ==
    ASSUME TypeInv, NEW q \in Request, NEW n \in Name, Delete(q, n),
           pc' = [pc EXCEPT ![q] = "delete"], made' = made
    PROVE  ArtifactTypeOK' /\ JobInv'
<1>1. Body = Event /\ Caller = Request /\ MaxVersion \in Nat \ {0}
  BY EventFacts
<1>2. /\ pc'[q] = "delete" /\ UNCHANGED <<backend, overlapped>> /\ kept' \subseteq Name
      /\ \A c \in Request \ {q} : pc'[c] = pc[c]
      /\ files' \in [Name -> [1 .. MaxVersion -> File \cup {Absent}]]
  <2>1. [v \in 1 .. MaxVersion |-> Absent] \in [1 .. MaxVersion -> File \cup {Absent}]
    OBVIOUS
  <2>2. files' \in [Name -> [1 .. MaxVersion -> File \cup {Absent}]]
    <3> HIDE DEF Absent
    <3> QED
      BY <2>1 DEF Delete, TypeInv, TypeOK, ArtifactTypeOK
  <2>3. pc'[q] = "delete" /\ \A c \in Request \ {q} : pc'[c] = pc[c]
    BY DEF TypeInv, TypeOK
  <2>4. UNCHANGED <<backend, overlapped>> /\ kept' \subseteq Name
    BY DEF Delete, TypeInv, TypeOK, ArtifactTypeOK
  <2> QED
    BY <2>2, <2>3, <2>4
<1>3. CASE (Return(q, Nothing) \/ Return(q, Failed)) /\ UNCHANGED job
  <2>1. /\ at' = [at EXCEPT ![q] = "idle"] /\ at'[q] = "idle" /\ at' \in [Caller -> {"idle", "mkdir", "dropped", "scan", "open", "write", "read", "rmdir"}]
        /\ result' \in [Caller -> [is : {"pending", "error", "none", "saved", "part"}, version : 0 .. MaxVersion,
                              body : Body \cup {NoBody}]]
        /\ \A c \in Request \ {q} : result'[c] = result[c] /\ at'[c] = at[c]
    BY <1>3, ReturnTypes
  <2>2. ArtifactTypeOK'
    BY <1>2, <1>3, <2>1 DEF TypeInv, TypeOK, ArtifactTypeOK
  <2>3. Job(q)'
    BY <1>2, <2>1 DEF Job
  <2>4. \A c \in Request \ {q} : UNCHANGED Local(c)
    BY <1>2, <1>3, <2>1 DEF Local
  <2> QED
    BY <1>2, <2>2, <2>3, <2>4, JobFrame
<1>4. CASE /\ Go(q, "rmdir") /\ job' = [job EXCEPT ![q] = JobOf(n, 0, NoBody)]
           /\ result' = [result EXCEPT ![q] = Pending] /\ backend # "memory"
  <2>1. JobOf(n, 0, NoBody) \in [name : Name \cup {"none"}, version : 0 .. MaxVersion,
                           body : Body \cup {NoBody}, ino : Body \cup {NoBody}]
        /\ JobOf(n, 0, NoBody).name = n
    BY <1>1 DEF JobOf
  <2>2. Pending \in [is : {"pending", "error", "none", "saved", "part"}, version : 0 .. MaxVersion,
                     body : Body \cup {NoBody}]
    BY <1>1 DEF Pending, Returned
  <2>3. ArtifactTypeOK' /\ at'[q] = "rmdir" /\ job'[q] = JobOf(n, 0, NoBody)
        /\ \A c \in Request \ {q} : result'[c] = result[c] /\ at'[c] = at[c] /\ job'[c] = job[c]
    BY <1>1, <1>2, <1>4, <2>1, <2>2 DEF Go, TypeInv, TypeOK, ArtifactTypeOK
  <2>4. Job(q)'
    BY <1>2, <1>4, <2>1, <2>3 DEF Job
  <2>5. \A c \in Request \ {q} : UNCHANGED Local(c)
    BY <1>2, <1>4, <2>3 DEF Local
  <2> QED
    BY <1>2, <2>3, <2>4, <2>5, JobFrame
<1> QED
  BY <1>3, <1>4 DEF Delete

\* A step that does not touch the artifacts, or abandons the request's own call.
LEMMA OtherTypes ==
    ASSUME TypeInv, NEW q \in Request, UNCHANGED artifactVars \/ Abandon(q),
           NEW place \in Places \ {"save"}, pc' = [pc EXCEPT ![q] = place],
           at'[q] = "idle" \/ (Abandon(q) /\ pc[q] = "save" /\ place = "answered"),
           \A c \in Request \ {q} : made'[c] = made[c]
    PROVE  ArtifactTypeOK' /\ JobInv'
<1>1. Body = Event /\ Caller = Request /\ MaxVersion \in Nat \ {0} /\ Job(q)
  BY EventFacts DEF TypeInv, JobInv
<1>3. ArtifactTypeOK' /\ backend' = backend
      /\ \A c \in Request \ {q} : job'[c] = job[c] /\ at'[c] = at[c] /\ result'[c] = result[c]
  <2>1. CASE UNCHANGED artifactVars
    BY <2>1 DEF artifactVars, TypeInv, TypeOK, ArtifactTypeOK
  <2>2. CASE Abandon(q)
    BY <1>1, <2>2 DEF Abandon, Go, TypeInv, TypeOK, ArtifactTypeOK
  <2> QED
    BY <2>1, <2>2
<1>4. pc'[q] = place /\ \A c \in Request \ {q} : pc'[c] = pc[c]
  BY DEF TypeInv, TypeOK
<1>5. Job(q)'
  <2>1. CASE at'[q] = "idle"
    BY <1>4, <2>1 DEF Job
  <2>2. CASE Abandon(q) /\ pc[q] = "save" /\ place = "answered"
    <3>1. at[q] \in {"mkdir", "dropped", "scan", "open", "write"}
      BY <1>1, <2>2 DEF Abandon, Job, TypeInv, TypeOK, ArtifactTypeOK
    <3>2. at'[q] \in {"idle", "dropped", "open", "write"} /\ (at'[q] \in {"open", "write"} => at'[q] = at[q])
          /\ job'[q] = job[q] /\ result'[q] = result[q] /\ backend' = backend
      BY <1>1, <2>2, <3>1 DEF Abandon, Go, TypeInv, TypeOK, ArtifactTypeOK
    <3> QED
      BY <1>1, <1>4, <2>1, <2>2, <3>1, <3>2 DEF Job
  <2> QED
    BY <2>1, <2>2
<1>6. \A c \in Request \ {q} : UNCHANGED Local(c)
  BY <1>3, <1>4 DEF Local
<1> QED
  BY <1>3, <1>5, <1>6, JobFrame

\* Where a request that has no call of the artifact service under way may be.
LEMMA IdleAt == TypeInv => \A q \in Request : pc[q] \notin {"save", "load", "delete", "answered"} => at[q] = "idle"
<1> SUFFICES ASSUME TypeInv, NEW q \in Request, pc[q] \notin {"save", "load", "delete", "answered"} PROVE at[q] = "idle"
  OBVIOUS
<1>1. Job(q) /\ at[q] \in {"idle", "mkdir", "dropped", "scan", "open", "write", "read", "rmdir"}
  BY EventFacts DEF TypeInv, TypeOK, ArtifactTypeOK, JobInv
<1> QED
  BY <1>1 DEF Job

LEMMA MirrorTypes ==
    ASSUME TypeInv, NEW q \in Request, NEW s \in Session, NEW e \in Event, MirrorEvent(sid[q], s, e)
    PROVE  sessions' \in [Sid -> Slot]
<1>1. sessions' = [sessions EXCEPT ![sid[q]] = Mirrored(sessions[sid[q]], s, e)] /\ sid[q] \in Sid
  BY DEF MirrorEvent, TypeInv, TypeOK
<1>2. Mirrored(sessions[sid[q]], s, e) \in Slot
  BY <1>1, AppendSessionFacts DEF TypeInv, TypeOK
<1> QED
  BY <1>1, <1>2 DEF TypeInv, TypeOK

LEMMA AnswerTypes ==
    ASSUME TypeInv, NEW q \in Request, NEW events \in Seq(Event), Answer(q, events)
    PROVE  /\ pc' = [pc EXCEPT ![q] = "answered"] /\ pc' \in [Request -> Places]
           /\ told' \in [Request -> Seq(Event)] /\ live' \in [Request -> Session]
<1> QED
  BY SessionFacts DEF Answer, To, TypeInv, TypeOK, Places

\* The event of a step.
LEMMA OwnEvents ==
    ASSUME TypeInv, NEW q \in Request
    PROVE  /\ <<q, 0>> \in Event /\ <<q, 1>> \in Event
           /\ made[q] \in 1 .. MaxEvents + 1 /\ MaxEvents \in Nat
           /\ made[q] <= MaxEvents => <<q, made[q] + 1>> \in Event /\ made[q] + 1 \in 1 .. MaxEvents + 1
           /\ Own(q) \in Seq(Event) /\ Len(Own(q)) = made[q] - 1
           /\ <<>> \in Seq(Event) /\ <<<<q, 0>>>> \in Seq(Event) /\ told[q] \in Seq(Event)
<1>1. made[q] \in 1 .. MaxEvents + 1 /\ MaxEvents \in Nat /\ told[q] \in Seq(Event)
  BY EventFacts DEF TypeInv, TypeOK
<1>2. <<q, 0>> \in Event /\ <<q, 1>> \in Event
  BY <1>1, EventFacts
<1>3. made[q] <= MaxEvents => <<q, made[q] + 1>> \in Event /\ made[q] + 1 \in 1 .. MaxEvents + 1
  BY <1>1, EventFacts
<1>4. Own(q) \in Seq(Event) /\ Len(Own(q)) = made[q] - 1
  <2>1. \A i \in 1 .. made[q] - 1 : <<q, i + 1>> \in Event
    BY <1>1, EventFacts
  <2>2. made[q] - 1 \in Nat
    BY <1>1
  <2> QED
    BY <2>1, <2>2 DEF Own
<1> QED
  BY <1>1, <1>2, <1>3, <1>4

RestTypes ==
    /\ sessions \in [Sid -> Slot] /\ deleted \subseteq Sid /\ holders \in [Sid -> SUBSET Request]
    /\ pc \in [Request -> Places] /\ kind \in [Request -> Kinds \cup {"none"}] /\ sid \in [Request -> Sid]
    /\ live \in [Request -> Session] /\ made \in [Request -> 1 .. MaxEvents + 1]
    /\ told \in [Request -> Seq(Event)] /\ cut \in [Request -> BOOLEAN]
    /\ delta \in [Event -> (Name \X (1 .. MaxVersion)) \cup {NoDelta}] /\ stale \subseteq Event
    /\ announced \subseteq Announcement /\ hope \in [Request -> SUBSET Announcement]

LEMMA InitTypes == Init => TypeInv
<1> SUFFICES ASSUME Init PROVE TypeInv
  OBVIOUS
<1>1. NoSlot \in Slot /\ [NoSlot EXCEPT !.present = TRUE] \in Slot /\ NewSession \in Session /\ <<>> \in Seq(Event)
  <2>1. \A slot \in Slot : [slot EXCEPT !.present = TRUE] \in Slot
    BY DEF Slot
  <2> QED
    BY <2>1, SessionFacts
<1>2. 1 \in 1 .. MaxEvents + 1 /\ MaxVersion \in Nat \ {0}
  BY EventFacts
<1>3. sessions \in [Sid -> Slot]
  <2>1. {NoSlot, [NoSlot EXCEPT !.present = TRUE]} \subseteq Slot
    BY <1>1
  <2> HIDE DEF NoSlot
  <2> QED
    BY <2>1 DEF Init
<1>4. RestTypes
  BY <1>1, <1>2, <1>3 DEF Init, RestTypes, Places, Kinds, Runs
<1>5. ArtifactTypeOK
  <2>1. NoJob \in [name : Name \cup {"none"}, version : 0 .. MaxVersion, body : Body \cup {NoBody}, ino : Body \cup {NoBody}]
    BY <1>2 DEF NoJob, JobOf
  <2>2. Pending \in [is : {"pending", "error", "none", "saved", "part"}, version : 0 .. MaxVersion, body : Body \cup {NoBody}]
    BY <1>2 DEF Pending, Returned
  <2> HIDE DEF NoJob, Pending
  <2> QED
    BY <2>1, <2>2 DEF Init, ArtifactInit, ArtifactTypeOK
<1>6. JobInv
  BY EventFacts DEF Init, ArtifactInit, JobInv, Job
<1> QED
  BY <1>4, <1>5, <1>6 DEF TypeInv, TypeOK, RestTypes

LEMMA NextTypes == TypeInv /\ [Next]_vars => TypeInv'
<1> SUFFICES ASSUME TypeInv, [Next]_vars PROVE TypeInv'
  OBVIOUS
<1>1. RestTypes /\ ArtifactTypeOK /\ JobInv /\ \A q \in Request : Job(q)
  BY DEF TypeInv, TypeOK, RestTypes, JobInv
<1>2. SUFFICES RestTypes' /\ ArtifactTypeOK' /\ JobInv'
  BY DEF TypeInv, TypeOK, RestTypes
<1>3. ASSUME NEW q \in Request, Arrive(q) PROVE RestTypes' /\ ArtifactTypeOK' /\ JobInv'
  <2>1. pc' = [pc EXCEPT ![q] = "look"] /\ at'[q] = "idle" /\ UNCHANGED <<made, artifactVars>>
    BY <1>3, IdleAt DEF Arrive, To, artifactVars
  <2>2. "look" \in Places \ {"save"}
    BY DEF Places
  <2>3. ArtifactTypeOK' /\ JobInv'
    BY <2>1, <2>2, OtherTypes
  <2>4. RestTypes'
    <3>1. \A k \in Asks[q] : k \in Kinds
      BY ApiAssumption
    <3>2. kind' \in [Request -> Kinds \cup {"none"}]
      BY <1>1, <1>3, <3>1 DEF RestTypes, Arrive
    <3> QED
      BY <1>1, <1>3, <2>1, <2>2, <3>2 DEF RestTypes, Arrive, sessionVars, tellVars
  <2> QED
    BY <2>3, <2>4
\* The steps that answer.
<1>4. ASSUME NEW q \in Request, NEW events \in Seq(Event), Answer(q, events),
             (UNCHANGED artifactVars /\ at[q] = "idle") \/ (Abandon(q) /\ pc[q] = "save"),
             sessions' \in [Sid -> Slot], deleted' \subseteq Sid, holders' \in [Sid -> SUBSET Request],
             cut' \in [Request -> BOOLEAN], announced' \subseteq Announcement,
             UNCHANGED <<kind, sid, made, hope, delta, stale>>
      PROVE  RestTypes' /\ ArtifactTypeOK' /\ JobInv'
  <2>1. /\ pc' = [pc EXCEPT ![q] = "answered"] /\ pc' \in [Request -> Places]
        /\ told' \in [Request -> Seq(Event)] /\ live' \in [Request -> Session]
    BY <1>4, AnswerTypes
  <2>2. "answered" \in Places \ {"save"}
    BY DEF Places
  <2>3. at'[q] = "idle" \/ (Abandon(q) /\ pc[q] = "save")
    BY <1>4 DEF artifactVars
  <2>4. ArtifactTypeOK' /\ JobInv'
    BY <1>4, <2>1, <2>2, <2>3, OtherTypes
  <2> QED
    BY <1>1, <1>4, <2>1, <2>4 DEF RestTypes
\* The steps within a request that leave the artifacts alone.
<1>5. ASSUME NEW q \in Request, NEW place \in Places \ {"save"}, To(q, place), at[q] = "idle",
             UNCHANGED <<artifactVars, kind, sid, hope, stale>>,
             sessions' \in [Sid -> Slot], deleted' \subseteq Sid, holders' \in [Sid -> SUBSET Request],
             cut' \in [Request -> BOOLEAN], announced' \subseteq Announcement,
             live' \in [Request -> Session], told' \in [Request -> Seq(Event)],
             made' \in [Request -> 1 .. MaxEvents + 1], \A c \in Request \ {q} : made'[c] = made[c],
             delta' \in [Event -> (Name \X (1 .. MaxVersion)) \cup {NoDelta}]
      PROVE  RestTypes' /\ ArtifactTypeOK' /\ JobInv'
  <2>1. pc' = [pc EXCEPT ![q] = place] /\ at'[q] = "idle"
    BY <1>5 DEF To, artifactVars
  <2>2. ArtifactTypeOK' /\ JobInv'
    BY <1>5, <2>1, OtherTypes
  <2> QED
    BY <1>1, <1>5, <2>1, <2>2 DEF RestTypes
<1>6. ASSUME NEW q \in Request, CreateLook(q) PROVE RestTypes' /\ ArtifactTypeOK' /\ JobInv'
  <2>1. at[q] = "idle" /\ "insert" \in Places \ {"save"} /\ told[q] \in Seq(Event)
    BY <1>6, IdleAt, OwnEvents DEF CreateLook, Asked, Places
  <2>2. CASE Answer(q, told[q])
    BY <1>1, <1>4, <1>6, <2>1, <2>2 DEF CreateLook, RestTypes, sessionVars, tellVars
  <2>3. CASE To(q, "insert") /\ UNCHANGED <<told, live>>
    BY <1>1, <1>5, <1>6, <2>1, <2>3 DEF CreateLook, RestTypes, sessionVars, tellVars
  <2> QED
    BY <1>6, <2>2, <2>3 DEF CreateLook, Refuse
<1>7. ASSUME NEW q \in Request, CreateInsert(q) PROVE RestTypes' /\ ArtifactTypeOK' /\ JobInv'
  <2>1. at[q] = "idle" /\ "import" \in Places \ {"save"} /\ told[q] \in Seq(Event)
    BY <1>7, IdleAt, OwnEvents DEF CreateInsert, Asked, Places
  <2>2. CASE Answer(q, told[q]) /\ UNCHANGED <<sessionVars, cut>>
    BY <1>1, <1>4, <1>7, <2>1, <2>2 DEF CreateInsert, RestTypes, sessionVars, tellVars
  <2>3. CASE /\ InsertSession(sid[q]) /\ CutBy(q, sid[q]) /\ deleted' = deleted \ {sid[q]}
             /\ UNCHANGED holders /\ To(q, "import") /\ UNCHANGED <<live, told>>
    <3>1. sessions' \in [Sid -> Slot]
      BY <1>1, <2>3, SessionFacts DEF InsertSession, RestTypes
    <3>2. cut' \in [Request -> BOOLEAN]
      BY <1>1, <2>3 DEF CutBy, RestTypes
    <3> QED
      BY <1>1, <1>5, <1>7, <2>1, <2>3, <3>1, <3>2 DEF CreateInsert, RestTypes, tellVars
  <2> QED
    BY <1>7, <2>2, <2>3 DEF CreateInsert, Refuse
\* An event is appended to the request's snapshot and to the store.
<1>12. ASSUME NEW q \in Request, NEW e \in Event, AppendTo(q, e)
       PROVE  sessions' \in [Sid -> Slot] /\ live' \in [Request -> Session]
  <2>1. live[q] \in Session /\ sessions[sid[q]] \in Slot
    BY <1>1 DEF RestTypes
  <2>2. ApplyEvent(live[q], e) \in Session
    BY <2>1, AppendSessionFacts
  <2>3. sessions' \in [Sid -> Slot]
    BY <1>12, <2>2, MirrorTypes DEF AppendTo
  <2> QED
    BY <1>1, <1>12, <2>2, <2>3 DEF AppendTo, RestTypes
<1>8. ASSUME NEW q \in Request, Import(q) PROVE RestTypes' /\ ArtifactTypeOK' /\ JobInv'
  <2>1. /\ at[q] = "idle" /\ <<q, 0>> \in Event /\ <<q, 1>> \in Event /\ "import" \in Places \ {"save"}
        /\ To(q, "import")
    BY <1>1, <1>8, IdleAt, OwnEvents DEF Import, Asked, Places, To, RestTypes
  <2>2. sessions' \in [Sid -> Slot] /\ live' \in [Request -> Session]
    BY <1>8, <1>12, <2>1 DEF Import
  <2> QED
    BY <1>1, <1>5, <1>8, <2>1, <2>2 DEF Import, RestTypes, tellVars
<1>27. ASSUME NEW q \in Request, Imported(q) PROVE RestTypes' /\ ArtifactTypeOK' /\ JobInv'
  <2>1. at[q] = "idle" /\ live[q].events \in Seq(Event)
    BY <1>1, <1>27, IdleAt DEF Imported, Asked, RestTypes, Session
  <2> QED
    BY <1>1, <1>4, <1>27, <2>1 DEF Imported, RestTypes, sessionVars, tellVars
<1>9. ASSUME NEW q \in Request, Look(q) PROVE RestTypes' /\ ArtifactTypeOK' /\ JobInv'
  <2>1. at[q] = "idle" /\ "found" \in Places \ {"save"} /\ told[q] \in Seq(Event)
    BY <1>9, IdleAt, OwnEvents DEF Look, Places
  <2>2. CASE Answer(q, told[q])
    BY <1>1, <1>4, <1>9, <2>1, <2>2 DEF Look, RestTypes, sessionVars, tellVars
  <2>3. CASE To(q, "found") /\ live' = [live EXCEPT ![q] = sessions[sid[q]].session] /\ UNCHANGED told
    <3>1. live' \in [Request -> Session]
      BY <1>1, <2>3 DEF RestTypes, Slot
    <3> QED
      BY <1>1, <1>5, <1>9, <2>1, <2>3, <3>1 DEF Look, RestTypes, sessionVars, tellVars
  <2> QED
    BY <1>9, <2>2, <2>3 DEF Look, Refuse
<1>10. ASSUME NEW q \in Request, Patch(q) PROVE RestTypes' /\ ArtifactTypeOK' /\ JobInv'
  <2>1. /\ at[q] = "idle" /\ <<q, 0>> \in Event /\ <<<<q, 0>>>> \in Seq(Event)
        /\ ApplyEvent(live[q], <<q, 0>>) \in Session
    <3>1. live[q] \in Session /\ sessions[sid[q]] \in Slot
      BY <1>1 DEF RestTypes
    <3> QED
      BY <1>10, <3>1, IdleAt, OwnEvents, AppendSessionFacts DEF Patch, Asked
  <2>2. sessions' \in [Sid -> Slot]
    BY <1>10, <2>1, MirrorTypes DEF Patch
  <2> QED
    BY <1>1, <1>4, <1>10, <2>1, <2>2 DEF Patch, RestTypes, tellVars
<1>11. ASSUME NEW q \in Request, DeleteIt(q) PROVE RestTypes' /\ ArtifactTypeOK' /\ JobInv'
  <2>1. at[q] = "idle" /\ <<>> \in Seq(Event)
    BY <1>11, IdleAt, OwnEvents DEF DeleteIt, Asked
  <2>2. sessions' \in [Sid -> Slot]
    BY <1>1, <1>11, SessionFacts DEF DeleteIt, DeleteSession, RestTypes
  <2>3. deleted' \subseteq Sid /\ cut' \in [Request -> BOOLEAN] /\ holders' \in [Sid -> SUBSET Request]
    BY <1>1, <1>11 DEF DeleteIt, CutBy, Holding, RestTypes
  <2> QED
    BY <1>1, <1>4, <1>11, <2>1, <2>2, <2>3 DEF DeleteIt, RestTypes, tellVars
<1>13. ASSUME NEW q \in Request, StateDelta(q) PROVE RestTypes' /\ ArtifactTypeOK' /\ JobInv'
  <2>1. at[q] = "idle" /\ "start" \in Places \ {"save"} /\ <<q, 0>> \in Event
    BY <1>13, IdleAt, OwnEvents DEF StateDelta, Places
  <2>2. sessions' \in [Sid -> Slot] /\ live' \in [Request -> Session]
    BY <1>12, <1>13, <2>1 DEF StateDelta
  <2> QED
    BY <1>1, <1>5, <1>13, <2>1, <2>2 DEF StateDelta, RestTypes, tellVars
<1>14. ASSUME NEW q \in Request, Start(q) PROVE RestTypes' /\ ArtifactTypeOK' /\ JobInv'
  <2>1. at[q] = "idle" /\ "user" \in Places \ {"save"} /\ told[q] \in Seq(Event)
    BY <1>14, IdleAt, OwnEvents DEF Start, Places
  <2>2. CASE Answer(q, told[q]) /\ UNCHANGED sessions
    BY <1>1, <1>4, <1>14, <2>1, <2>2 DEF Start, RestTypes, tellVars
  <2>3. ASSUME NEW s \in Session, live' = [live EXCEPT ![q] = s], To(q, "user"), UNCHANGED told,
               sessions' \in [Sid -> Slot]
        PROVE  RestTypes' /\ ArtifactTypeOK' /\ JobInv'
    <3>1. live' \in [Request -> Session]
      BY <1>1, <2>3 DEF RestTypes
    <3> QED
      BY <1>1, <1>5, <1>14, <2>1, <2>3, <3>1 DEF Start, RestTypes, tellVars
  <2>4. sessions[sid[q]].session \in Session /\ NewSession \in Session
    BY <1>1, SessionFacts DEF RestTypes, Slot
  <2>5. InsertSession(sid[q]) => sessions' \in [Sid -> Slot]
    BY <1>1, SessionFacts DEF InsertSession, RestTypes
  <2>6. UNCHANGED sessions => sessions' \in [Sid -> Slot]
    BY <1>1 DEF RestTypes
  <2> QED
    BY <1>14, <2>2, <2>3, <2>4, <2>5, <2>6 DEF Start, Refuse
<1>15. ASSUME NEW q \in Request, Begin(q) PROVE RestTypes' /\ ArtifactTypeOK' /\ JobInv'
  <2>1. at[q] = "idle" /\ "run" \in Places \ {"save"} /\ <<q, 1>> \in Event
    BY <1>15, IdleAt, OwnEvents DEF Begin, Places
  <2>2. sessions' \in [Sid -> Slot] /\ live' \in [Request -> Session]
    BY <1>12, <1>15, <2>1 DEF Begin
  <2> QED
    BY <1>1, <1>5, <1>15, <2>1, <2>2 DEF Begin, RestTypes, tellVars
<1>16. ASSUME NEW q \in Request, NEW n \in Name, ToolSaves(q, n) PROVE RestTypes' /\ ArtifactTypeOK' /\ JobInv'
  <2>1. pc' = [pc EXCEPT ![q] = "save"] /\ UNCHANGED made
    BY <1>16 DEF ToolSaves, To
  <2>2. ArtifactTypeOK' /\ JobInv'
    BY <1>16, <2>1, SaveTypes DEF ToolSaves
  <2> QED
    BY <1>1, <1>16, <2>1, <2>2 DEF ToolSaves, RestTypes, sessionVars, tellVars, Places
<1>17. ASSUME NEW q \in Request, Emit(q) PROVE RestTypes' /\ ArtifactTypeOK' /\ JobInv'
  <2> DEFINE e == <<q, made[q] + 1>>
  <2>1. at[q] = "idle" /\ {"run", "frame"} \subseteq Places \ {"save"} /\ e \in Event /\ made[q] + 1 \in 1 .. MaxEvents + 1
    BY <1>17, OwnEvents DEF Emit, Places
  <2>2. sessions' \in [Sid -> Slot] /\ live' \in [Request -> Session]
    BY <1>12, <1>17, <2>1 DEF Emit
  <2>3. Delta(q) \in (Name \X (1 .. MaxVersion)) \cup {NoDelta}
    BY <1>1 DEF Delta, Job
  <2>4. delta' \in [Event -> (Name \X (1 .. MaxVersion)) \cup {NoDelta}]
    BY <1>1, <1>17, <2>1, <2>3 DEF Emit, RestTypes
  <2>5. made' \in [Request -> 1 .. MaxEvents + 1] /\ \A c \in Request \ {q} : made'[c] = made[c]
    BY <1>1, <1>17, <2>1 DEF Emit, RestTypes
  <2>6. told' \in [Request -> Seq(Event)]
    <3>1. Append(told[q], e) \in Seq(Event)
      <4>1. told[q] \in Seq(Event)
        BY OwnEvents
      <4> QED
        BY <2>1, <4>1
    <3> QED
      BY <1>1, <1>17, <3>1 DEF Emit, RestTypes
  <2>7. PICK place \in {"run", "frame"} : To(q, place)
    BY <1>17 DEF Emit
  <2> QED
    BY <1>1, <1>5, <1>17, <2>1, <2>2, <2>4, <2>5, <2>6, <2>7 DEF Emit, RestTypes
<1>18. ASSUME NEW events \in Seq(Event) PROVE Announces(events) \subseteq Announcement
  <2>1. Range(events) \subseteq Event
    BY DEF Range
  <2>2. ASSUME NEW e \in Range(events), delta[e] # NoDelta
        PROVE  [name |-> delta[e][1], version |-> delta[e][2], body |-> e] \in Announcement
    <3>1. delta[e] \in Name \X (1 .. MaxVersion) /\ e \in Event
      BY <1>1, <2>1, <2>2 DEF RestTypes
    <3> QED
      BY <3>1 DEF Announcement
  <2> QED
    BY <2>2 DEF Announces
<1>19. ASSUME NEW q \in Request, Frame(q) PROVE RestTypes' /\ ArtifactTypeOK' /\ JobInv'
  <2>1. at[q] = "idle" /\ "run" \in Places \ {"save"}
    BY <1>19, IdleAt DEF Frame, Places
  <2>2. announced' \subseteq Announcement
    BY <1>1, <1>18, <1>19, OwnEvents DEF Frame, RestTypes
  <2> QED
    BY <1>1, <1>5, <1>19, <2>1, <2>2 DEF Frame, RestTypes, sessionVars
<1>20. ASSUME NEW q \in Request, End(q) PROVE RestTypes' /\ ArtifactTypeOK' /\ JobInv'
  <2>1. at[q] = "idle" /\ Own(q) \in Seq(Event) /\ Answer(q, Own(q)) /\ announced' = announced \cup Announces(Own(q))
    BY <1>20, IdleAt, OwnEvents DEF End, Own
  <2>2. announced' \subseteq Announcement
    BY <1>1, <1>18, <2>1 DEF RestTypes
  <2> QED
    BY <1>1, <1>4, <1>20, <2>1, <2>2 DEF End, RestTypes, sessionVars
<1>21. ASSUME NEW q \in Request, Fails(q) \/ Disconnect(q) PROVE RestTypes' /\ ArtifactTypeOK' /\ JobInv'
  <2>1. /\ Answer(q, told[q]) /\ told[q] \in Seq(Event)
        /\ (UNCHANGED artifactVars /\ at[q] = "idle") \/ (Abandon(q) /\ pc[q] = "save")
    BY <1>21, OwnEvents, IdleAt DEF Fails, Disconnect, Refuse
  <2> QED
    BY <1>1, <1>4, <1>21, <2>1 DEF Fails, Disconnect, RestTypes, sessionVars, tellVars
<1>22. ASSUME NEW q \in Request, NEW n \in Name, NEW v \in 0 .. MaxVersion, Load(q, n, v)
       PROVE  RestTypes' /\ ArtifactTypeOK' /\ JobInv'
  <2>1. pc' = [pc EXCEPT ![q] = "load"] /\ UNCHANGED made
    BY <1>22 DEF Load, To
  <2>2. ArtifactTypeOK' /\ JobInv'
    BY <1>22, <2>1, FindTypes DEF Load
  <2> QED
    BY <1>1, <1>22, <2>1, <2>2 DEF Load, RestTypes, sessionVars, tellVars, Places
<1>23. ASSUME NEW q \in Request, Loaded(q) \/ Deleted(q) PROVE RestTypes' /\ ArtifactTypeOK' /\ JobInv'
  <2>1. Answer(q, <<>>) /\ <<>> \in Seq(Event) /\ UNCHANGED artifactVars /\ at[q] = "idle"
    BY <1>23, OwnEvents DEF Loaded, Deleted
  <2> QED
    BY <1>1, <1>4, <1>23, <2>1 DEF Loaded, Deleted, RestTypes, sessionVars, tellVars
\* What is forgotten when an artifact is deleted.
<1>28. ASSUME NEW n \in Name, Forget(n)
       PROVE  stale' \subseteq Event /\ announced' \subseteq Announcement /\ hope' \in [Request -> SUBSET Announcement]
  <2>1. Carrying(n) \subseteq Event
    <3>1. \A p \in Request : pc[p] = "save" => <<p, made[p] + 1>> \in Event
      BY <1>1, OwnEvents DEF Job
    <3> QED
      BY <3>1 DEF Carrying
  <2> QED
    BY <1>1, <1>28, <2>1 DEF Forget, RestTypes
<1>24. ASSUME NEW q \in Request, NEW n \in Name, DeleteArtifact(q, n) PROVE RestTypes' /\ ArtifactTypeOK' /\ JobInv'
  <2>1. pc' = [pc EXCEPT ![q] = "delete"] /\ UNCHANGED made
    BY <1>24 DEF DeleteArtifact, Forget, To
  <2>2. ArtifactTypeOK' /\ JobInv'
    BY <1>24, <2>1, DeleteTypes DEF DeleteArtifact
  <2> QED
    BY <1>1, <1>24, <1>28, <2>1, <2>2 DEF DeleteArtifact, Forget, RestTypes, sessionVars, Places
<1>29. ASSUME NEW q \in Request, NEW v \in 1 .. MaxVersion, Removes(q, v) PROVE RestTypes' /\ ArtifactTypeOK' /\ JobInv'
  <2>1. at[q] = "rmdir" /\ job[q].name \in Name /\ Caller = Request
    BY <1>1, <1>29, EventFacts DEF Removes, Unlink, Job
  <2>2. ArtifactTypeOK'
    BY <1>1, <1>29, <2>1 DEF Removes, Unlink, ArtifactTypeOK
  <2>3. JobInv'
    BY <1>1, <1>29 DEF Removes, Unlink, Forget, JobInv, Job
  <2> QED
    BY <1>1, <1>28, <1>29, <2>1, <2>2, <2>3 DEF Removes, Forget, RestTypes, sessionVars
<1>25. ASSUME NEW q \in Request, FileStep(q), UNCHANGED <<sessionVars, requestVars, tellVars>>
       PROVE  RestTypes' /\ ArtifactTypeOK' /\ JobInv'
  <2>1. ArtifactTypeOK' /\ JobInv'
    BY <1>25, FileStepTypes DEF requestVars
  <2> QED
    BY <1>1, <1>25, <2>1 DEF RestTypes, sessionVars, requestVars, tellVars
<1>26. CASE UNCHANGED vars
  BY <1>1, <1>26 DEF vars, artifactVars, sessionVars, requestVars, tellVars, RestTypes, ArtifactTypeOK, JobInv, Job
<1> QED
  BY <1>3, <1>6, <1>7, <1>8, <1>9, <1>10, <1>11, <1>13, <1>14, <1>15, <1>16, <1>17, <1>19, <1>20, <1>21,
     <1>22, <1>23, <1>24, <1>25, <1>26, <1>27, <1>29 DEF Next, RunStep

\* Every state of the server is type correct.
THEOREM TypeCorrect == Spec => []TypeOK
<1>1. Spec => []TypeInv
  BY InitTypes, NextTypes, PTL DEF Spec
<1>2. TypeInv => TypeOK
  BY DEF TypeInv
<1> QED
  BY <1>1, <1>2, PTL

-----------------------------------------------------------------------------
(* A deleted session comes back with a request that had found it.          *)

LEMMA HeldFrame ==
    ASSUME TypeInv, HeldInv, NEW q \in Request, UNCHANGED <<deleted, holders, sid>>,
           \A p \in Request \ {q} : pc'[p] = pc[p], \A s \in Sid \ {sid[q]} : sessions'[s] = sessions[s],
           pc[q] \in Writing \/ Has(sid[q]) \/ (sessions' = sessions /\ pc'[q] \notin Writing)
    PROVE  HeldInv'
<1> SUFFICES ASSUME NEW s \in deleted, holders[s] = {}
             PROVE  ~ Has(s)' /\ \A p \in Request : sid'[p] = s => pc'[p] \notin Writing
  BY DEF HeldInv
<1>1. ~ Has(s) /\ s \in Sid /\ \A p \in Request : sid[p] = s => pc[p] \notin Writing
  BY DEF HeldInv, TypeInv, TypeOK
<1>2. sessions'[s] = sessions[s]
  BY <1>1
<1>3. sid[q] = s => pc'[q] \notin Writing
  BY <1>1
<1> QED
  BY <1>1, <1>2, <1>3 DEF Has

LEMMA MirrorElsewhere ==
    ASSUME NEW q, NEW s, NEW e, MirrorEvent(sid[q], s, e), sessions \in [Sid -> Slot]
    PROVE  \A r \in Sid \ {sid[q]} : sessions'[r] = sessions[r]
BY DEF MirrorEvent

LEMMA NextHeld == TypeInv /\ HeldInv /\ [Next]_vars => HeldInv'
<1> SUFFICES ASSUME TypeInv, HeldInv, [Next]_vars PROVE HeldInv'
  OBVIOUS
<1>1. pc \in [Request -> Places] /\ sessions \in [Sid -> Slot] /\ holders \in [Sid -> SUBSET Request]
      /\ sid \in [Request -> Sid] /\ deleted \subseteq Sid
  BY DEF TypeInv, TypeOK
<1>2. ASSUME NEW q \in Request, Import(q) \/ Imported(q) \/ Patch(q) \/ StateDelta(q) \/ Start(q) \/ Begin(q) \/ Emit(q)
      PROVE  HeldInv'
  <2>1. pc[q] \in Writing /\ UNCHANGED <<deleted, holders, sid>>
    BY <1>2 DEF Import, Imported, Asked, Patch, StateDelta, Start, Begin, Emit, Writing, sessionVars
  <2>2. \A p \in Request \ {q} : pc'[p] = pc[p]
    BY <1>1, <1>2 DEF Import, Imported, Patch, StateDelta, Start, Begin, Emit, Answer, Refuse, To
  <2>3. \A s \in Sid \ {sid[q]} : sessions'[s] = sessions[s]
    BY <1>1, <1>2, MirrorElsewhere DEF Import, Imported, Patch, StateDelta, Start, Begin, Emit, AppendTo, InsertSession,
           sessionVars
  <2> QED
    BY <2>1, <2>2, <2>3, HeldFrame
<1>3. ASSUME NEW q \in Request, UNCHANGED <<sessionVars, sid>>,
             NEW place \in Places, pc' = [pc EXCEPT ![q] = place],
             pc[q] \in Writing \/ Has(sid[q]) \/ place \notin Writing
      PROVE  HeldInv'
  <2>1. pc'[q] = place /\ \A p \in Request \ {q} : pc'[p] = pc[p]
    BY <1>1, <1>3
  <2> QED
    BY <1>3, <2>1, HeldFrame DEF sessionVars
<1>4. ASSUME NEW q \in Request, Arrive(q) \/ CreateLook(q) \/ Look(q) \/ Frame(q) \/ End(q) \/ Fails(q)
             \/ Disconnect(q) \/ Loaded(q) \/ Deleted(q)
             \/ (\E n \in Name : ToolSaves(q, n) \/ DeleteArtifact(q, n) \/ \E v \in 0 .. MaxVersion : Load(q, n, v))
      PROVE  HeldInv'
  <2>1. UNCHANGED <<sessionVars, sid>>
    BY <1>4 DEF Arrive, CreateLook, Look, Frame, End, Fails, Disconnect, Loaded, Deleted, ToolSaves,
                DeleteArtifact, Forget, Load
  <2>2. \E place \in Places : /\ pc' = [pc EXCEPT ![q] = place]
                              /\ pc[q] \in Writing \/ Has(sid[q]) \/ place \notin Writing
    BY <1>4 DEF Arrive, CreateLook, Look, Frame, End, Fails, Disconnect, Loaded, Deleted, ToolSaves,
                DeleteArtifact, Forget, Load, Answer, Refuse, To, Places, Writing
  <2> QED
    BY <1>3, <2>1, <2>2
<1>5. ASSUME NEW q \in Request, CreateInsert(q) PROVE HeldInv'
  <2>1. CASE Refuse(q) /\ UNCHANGED <<sessionVars, cut>>
    <3>1. pc' = [pc EXCEPT ![q] = "answered"] /\ "answered" \in Places \ Writing /\ UNCHANGED <<sessionVars, sid>>
      BY <1>5, <2>1 DEF CreateInsert, Refuse, Answer, To, Places, Writing
    <3> QED
      BY <1>3, <3>1
  <2>2. CASE InsertSession(sid[q]) /\ deleted' = deleted \ {sid[q]} /\ UNCHANGED holders /\ To(q, "import")
    <3>1. ASSUME NEW s \in deleted', holders'[s] = {}
          PROVE  ~ Has(s)' /\ \A p \in Request : sid'[p] = s => pc'[p] \notin Writing
      <4>1. s \in deleted /\ s # sid[q] /\ holders[s] = {} /\ s \in Sid /\ sid' = sid
        BY <1>1, <1>5, <2>2, <3>1 DEF CreateInsert
      <4>2. sessions'[s] = sessions[s] /\ \A p \in Request \ {q} : pc'[p] = pc[p]
        BY <1>1, <2>2, <4>1 DEF InsertSession, To
      <4> QED
        BY <4>1, <4>2 DEF HeldInv, Has
    <3> QED
      BY <3>1 DEF HeldInv
  <2> QED
    BY <1>5, <2>1, <2>2 DEF CreateInsert
<1>6. ASSUME NEW q \in Request, DeleteIt(q) PROVE HeldInv'
  <2> DEFINE s == sid[q]
  <2>1. /\ sessions' = [sessions EXCEPT ![s] = NoSlot] /\ deleted' = deleted \cup {s} /\ s \in Sid
        /\ holders' = [holders EXCEPT ![s] = @ \cup Holding(s)] /\ pc' = [pc EXCEPT ![q] = "answered"]
        /\ sid' = sid
    BY <1>1, <1>6 DEF DeleteIt, DeleteSession, Answer, To
  <2>2. ASSUME NEW r \in deleted', holders'[r] = {}
        PROVE  ~ Has(r)' /\ \A p \in Request : sid'[p] = r => pc'[p] \notin Writing
    <3>1. CASE r = s
      <4>1. Holding(s) = {} /\ sessions'[s] = NoSlot
        BY <1>1, <2>1, <2>2, <3>1
      <4>2. \A p \in Request : sid[p] = s => pc[p] \in {"new", "look", "answered"}
        BY <4>1 DEF Holding
      <4>3. \A p \in Request : sid'[p] = s => pc'[p] \notin Writing
        BY <1>1, <2>1, <4>2 DEF Writing
      <4> QED
        BY <3>1, <4>1, <4>3 DEF Has, NoSlot
    <3>2. CASE r # s
      <4>1. r \in deleted /\ holders[r] = {} /\ sessions'[r] = sessions[r] /\ r \in Sid
        BY <1>1, <2>1, <2>2, <3>2
      <4>2. \A p \in Request : sid[p] = r => pc'[p] = pc[p]
        BY <1>1, <2>1, <3>2
      <4> QED
        BY <2>1, <4>1, <4>2 DEF HeldInv, Has
    <3> QED
      BY <3>1, <3>2
  <2> QED
    BY <2>2 DEF HeldInv
<1>7. ASSUME NEW q \in Request, FileStep(q), UNCHANGED <<sessionVars, requestVars, tellVars>> PROVE HeldInv'
  BY <1>7 DEF HeldInv, Has, sessionVars, requestVars
<1>9. ASSUME NEW q \in Request, NEW v \in 1 .. MaxVersion, Removes(q, v) PROVE HeldInv'
  BY <1>9 DEF Removes, Forget, HeldInv, Has, sessionVars
<1>8. CASE UNCHANGED vars
  BY <1>8 DEF HeldInv, Has, vars, sessionVars, requestVars
<1> QED
  BY <1>2, <1>4, <1>5, <1>6, <1>7, <1>8, <1>9 DEF Next, RunStep

\* Whatever requests run at the same time, a deleted session comes back only with one
\* that had found it, or is created (adk_web.rs: start_run looks for the session
\* before it starts the run, which would create it).  It needs that a request that
\* had not found the session is at no place from which it writes to it.
THEOREM DeletedStayDeleted == Spec => []DeletedUnlessHeld
<1>1. Init => HeldInv
  BY DEF Init, HeldInv, Writing
<1>2. HeldInv => DeletedUnlessHeld
  BY DEF HeldInv, DeletedUnlessHeld
<1>3. Spec => []TypeInv
  BY InitTypes, NextTypes, PTL DEF Spec
<1> QED
  BY <1>1, <1>2, <1>3, NextHeld, PTL DEF Spec

-----------------------------------------------------------------------------
(* What clients have been told of is in the session.                       *)

LogInv == ToldInv /\ StoredInv /\ AbsentInv

\* In a session that is there, an event that is appended is the last one, or was in
\* the log before.
LEMMA MirrorLog ==
    ASSUME TypeInv, AbsentInv, NEW q \in Request, NEW s \in Session, NEW e \in Event,
           MirrorEvent(sid[q], s, e), sid[q] \notin deleted
    PROVE  /\ sessions'[sid[q]].session.events =
                 IF Contains(Log(q), e) THEN Log(q) ELSE Append(Log(q), e)
           /\ sessions'[sid[q]].present
<1>1. sessions[sid[q]] \in Slot /\ sid[q] \in Sid /\ sessions[sid[q]].present
  BY DEF TypeInv, TypeOK, AbsentInv, Has
<1>2. sessions'[sid[q]] = Mirrored(sessions[sid[q]], s, e)
  BY <1>1 DEF MirrorEvent, TypeInv, TypeOK
<1> DEFINE slot == sessions[sid[q]]
<1>3. /\ Mirrored(slot, s, e).present
      /\ slot.present => Mirrored(slot, s, e).session.events =
                           IF Contains(slot.session.events, e) THEN slot.session.events
                           ELSE Append(slot.session.events, e)
  BY <1>1, AppendSessionFacts
<1> QED
  BY <1>1, <1>2, <1>3 DEF Log

LEMMA LogTyped ==
    ASSUME TypeInv, NEW q \in Request
    PROVE  Log(q) \in Seq(Event) /\ sid[q] \in Sid
<1>1. sid[q] \in Sid /\ sessions[sid[q]] \in Slot
  BY DEF TypeInv, TypeOK
<1> QED
  BY <1>1 DEF Log, Slot, Session

\* A log in which nothing of a request is, and a request that has told nothing.
LEMMA NothingTold ==
    ASSUME NEW log \in Seq(Event)
    PROVE  Range(<<>>) = {} /\ Selected(log, {}) = <<>>
<1>1. Range(<<>>) = {}
  BY DEF Range
<1>2. Selected(log, {}) = <<>>
  BY SelectedNone
<1> QED
  BY <1>1, <1>2

\* The log of a request's session stays, or gets another request's event.
LEMMA StoredFrame ==
    ASSUME TypeInv, NEW p \in Request, Told(p), Stored(p),
           sid'[p] = sid[p], told'[p] = told[p], made'[p] = made[p],
           pc'[p] \in Untouched => pc[p] \in Untouched, HasImported(p) => HasImported(p)',
           ~ cut'[p] /\ sid[p] \notin deleted' =>
              /\ ~ cut[p] /\ sid[p] \notin deleted
              /\ \/ Log(p)' = Log(p)
                 \/ \E e \in Event : /\ Log(p)' = Append(Log(p), e)
                                     /\ e \notin {p} \X (0 .. MaxEvents + 1)
    PROVE  Stored(p)'
<1> SUFFICES ASSUME ~ cut'[p], sid[p] \notin deleted'
             PROVE  /\ Selected(Log(p)', Made(p)) = Own(p)
                    /\ ~ HasImported(p) => told[p] = Selected(Log(p)', Range(told[p]))
                    /\ \A n \in 2 .. MaxEvents + 1 : Contains(Log(p)', <<p, n>>) => n <= made[p]
                    /\ pc'[p] \in Untouched => ~ Contains(Log(p)', <<p, 0>>)
  BY DEF Stored, Made, Own
<1>1. /\ Selected(Log(p), Made(p)) = Own(p)
      /\ ~ HasImported(p) => told[p] = Selected(Log(p), Range(told[p]))
      /\ \A n \in 2 .. MaxEvents + 1 : Contains(Log(p), <<p, n>>) => n <= made[p]
      /\ pc[p] \in Untouched => ~ Contains(Log(p), <<p, 0>>)
  BY DEF Stored
<1>2. CASE Log(p)' = Log(p)
  BY <1>1, <1>2
<1>3. ASSUME NEW e \in Event, Log(p)' = Append(Log(p), e), e \notin {p} \X (0 .. MaxEvents + 1)
      PROVE  /\ Selected(Log(p)', Made(p)) = Own(p)
             /\ ~ HasImported(p) => told[p] = Selected(Log(p)', Range(told[p]))
             /\ \A n \in 2 .. MaxEvents + 1 : Contains(Log(p)', <<p, n>>) => n <= made[p]
             /\ pc'[p] \in Untouched => ~ Contains(Log(p)', <<p, 0>>)
  <2>1. Log(p) \in Seq(Event) /\ made[p] \in 1 .. MaxEvents + 1 /\ MaxEvents \in Nat
    BY LogTyped, OwnEvents
  <2>2. e \notin Made(p) /\ e \notin Range(told[p])
    <3>1. Made(p) \subseteq {p} \X (0 .. MaxEvents + 1)
      BY <2>1 DEF Made
    <3>2. Range(told[p]) \subseteq {p} \X (0 .. MaxEvents + 1)
      BY OwnEvents DEF Told, Range
    <3> QED
      BY <1>3, <3>1, <3>2
  <2>3. \A x : Contains(Append(Log(p), e), x) => Contains(Log(p), x) \/ x = e
    BY <2>1, AppendFacts
  <2>4. Selected(Append(Log(p), e), Made(p)) = Selected(Log(p), Made(p))
    BY <2>1, <2>2, SelectedAppend
  <2>5. Selected(Append(Log(p), e), Range(told[p])) = Selected(Log(p), Range(told[p]))
    BY <2>1, <2>2, SelectedAppend
  <2>6. \A n \in 0 .. MaxEvents + 1 : <<p, n>> # e
    BY <1>3
  <2>7. \A n \in 2 .. MaxEvents + 1 : n \in 0 .. MaxEvents + 1
    BY <2>1
  <2>8. 0 \in 0 .. MaxEvents + 1
    BY <2>1
  <2>9. \A x : Contains(Log(p)', x) => Contains(Log(p), x) \/ x = e
    BY <1>3, <2>3
  <2>10. \A n \in 2 .. MaxEvents + 1 : Contains(Log(p)', <<p, n>>) => n <= made[p]
    BY <1>1, <2>6, <2>7, <2>9
  <2>11. pc'[p] \in Untouched => ~ Contains(Log(p)', <<p, 0>>)
    BY <1>1, <2>6, <2>8, <2>9
  <2> QED
    BY <1>1, <1>3, <2>4, <2>5, <2>10, <2>11
<1> QED
  BY <1>2, <1>3

\* A new log, of a session a request has not looked for or has just created.
LEMMA StoredNew ==
    ASSUME TypeInv, NEW p \in Request, Log(p)' = <<>>, told'[p] = <<>>, made'[p] = 1
    PROVE  Stored(p)'
<1>1. <<>> \in Seq(Event) /\ \A x : ~ Contains(<<>>, x)
  BY OwnEvents DEF Contains
<1>2. Own(p)' = <<>>
  BY DEF Own
<1>3. Selected(<<>>, Made(p)') = <<>>
  BY SelectedOfNothing
<1>4. Selected(<<>>, Range(<<>>)) = <<>>
  BY SelectedOfNothing
<1> QED
  BY <1>1, <1>2, <1>3, <1>4 DEF Stored

\* What request q leaves of the log of another request's session, or adds to it.
LEMMA OthersLog ==
    ASSUME TypeInv, AbsentInv, NEW q \in Request, NEW p \in Request \ {q}, sid'[p] = sid[p], sid[p] \notin deleted,
           \/ sessions' = sessions
           \/ \E s \in Session, n \in 0 .. MaxEvents + 1 : MirrorEvent(sid[q], s, <<q, n>>)
           \/ sid[q] \in deleted /\ \A r \in Sid \ {sid[q]} : sessions'[r] = sessions[r]
    PROVE  \/ Log(p)' = Log(p)
           \/ \E e \in Event : Log(p)' = Append(Log(p), e) /\ e \notin {p} \X (0 .. MaxEvents + 1)
<1>1. sid[p] \in Sid /\ sid[q] \in Sid /\ Log(p)' = sessions'[sid[p]].session.events
  BY LogTyped DEF Log
<1>2. CASE sessions'[sid[p]] = sessions[sid[p]]
  BY <1>1, <1>2 DEF Log
<1>3. ASSUME sid[p] = sid[q], NEW s \in Session, NEW n \in 0 .. MaxEvents + 1,
             MirrorEvent(sid[q], s, <<q, n>>)
      PROVE  \/ Log(p)' = Log(p)
             \/ \E e \in Event : Log(p)' = Append(Log(p), e) /\ e \notin {p} \X (0 .. MaxEvents + 1)
  <2>1. <<q, n>> \in Event /\ <<q, n>> \notin {p} \X (0 .. MaxEvents + 1)
    BY EventFacts
  <2>2. sid[q] \notin deleted
    BY <1>3
  <2>3. sessions'[sid[q]].session.events = IF Contains(Log(q), <<q, n>>) THEN Log(q) ELSE Append(Log(q), <<q, n>>)
    BY <1>3, <2>1, <2>2, MirrorLog
  <2>4. Log(p) = Log(q)
    BY <1>3 DEF Log
  <2> QED
    BY <1>1, <1>3, <2>1, <2>3, <2>4
<1>4. sid[p] # sid[q] => sessions'[sid[p]] = sessions[sid[p]] \/ sessions' = sessions
  BY <1>1 DEF TypeInv, TypeOK, MirrorEvent
<1> QED
  BY <1>2, <1>3, <1>4

\* What a step leaves of a request.
Kept(p) == <<cut[p], sid[p], told[p], made[p], pc[p], kind[p]>>

LEMMA OthersStored ==
    ASSUME TypeInv, LogInv, NEW q \in Request, NEW p \in Request \ {q}, UNCHANGED Kept(p), UNCHANGED deleted,
           \/ sessions' = sessions
           \/ \E s \in Session, n \in 0 .. MaxEvents + 1 : MirrorEvent(sid[q], s, <<q, n>>)
           \/ sid[q] \in deleted /\ \A r \in Sid \ {sid[q]} : sessions'[r] = sessions[r]
    PROVE  Stored(p)' /\ Told(p)'
<1>1. Told(p) /\ Stored(p)
  BY DEF LogInv, ToldInv, StoredInv
<1>2. Told(p)'
  BY <1>1 DEF Kept, Told, Begun, Own
<1>3. UNCHANGED Kept(p)
  BY DEF Kept
<1>4. sid[p] \notin deleted =>
          \/ Log(p)' = Log(p)
          \/ \E e \in Event : Log(p)' = Append(Log(p), e) /\ e \notin {p} \X (0 .. MaxEvents + 1)
  BY OthersLog DEF LogInv, Kept
<1>5. Stored(p)'
  BY <1>1, <1>3, <1>4, StoredFrame DEF Kept, HasImported
<1> QED
  BY <1>2, <1>5

\* The request's own event, which is new to its session.
LEMMA OwnAppended ==
    ASSUME TypeInv, LogInv, NEW q \in Request, NEW s \in Session, NEW n \in 0 .. MaxEvents + 1,
           MirrorEvent(sid[q], s, <<q, n>>), ~ cut[q], sid[q] \notin deleted, sid'[q] = sid[q],
           n \in {0, 1} \/ n = made[q] + 1
    PROVE  /\ Log(q)' = IF Contains(Log(q), <<q, n>>) THEN Log(q) ELSE Append(Log(q), <<q, n>>)
           /\ \A x : Contains(Log(q)', x) => Contains(Log(q), x) \/ x = <<q, n>>
           /\ Selected(Log(q)', Made(q)) = Own(q)
           /\ \A m \in 2 .. MaxEvents + 1 : Contains(Log(q), <<q, m>>) => m <= made[q]
           /\ n = made[q] + 1 => ~ Contains(Log(q), <<q, n>>) \/ n = 1
<1>1. <<q, n>> \in Event /\ Log(q) \in Seq(Event) /\ made[q] \in 1 .. MaxEvents + 1 /\ MaxEvents \in Nat
  BY EventFacts, LogTyped, OwnEvents
<1>2. Log(q)' = IF Contains(Log(q), <<q, n>>) THEN Log(q) ELSE Append(Log(q), <<q, n>>)
  <2>1. sessions'[sid[q]].session.events = IF Contains(Log(q), <<q, n>>) THEN Log(q) ELSE Append(Log(q), <<q, n>>)
    BY <1>1, MirrorLog DEF LogInv
  <2> QED
    BY <2>1 DEF Log
<1>3. /\ Selected(Log(q), Made(q)) = Own(q)
      /\ \A m \in 2 .. MaxEvents + 1 : Contains(Log(q), <<q, m>>) => m <= made[q]
  BY DEF LogInv, StoredInv, Stored
<1>4. <<q, n>> \notin Made(q)
  BY <1>1 DEF Made
<1>5. Selected(Append(Log(q), <<q, n>>), Made(q)) = Selected(Log(q), Made(q))
  BY <1>1, <1>4, SelectedAppend
<1>6. \A x : Contains(Append(Log(q), <<q, n>>), x) => Contains(Log(q), x) \/ x = <<q, n>>
  BY <1>1, AppendFacts
<1>7. n = made[q] + 1 => ~ Contains(Log(q), <<q, n>>)
  BY <1>1, <1>3
<1> QED
  BY <1>2, <1>3, <1>5, <1>6, <1>7

\* The one event a request makes itself, once: it is answered with it.
LEMMA OwnDelta ==
    ASSUME TypeInv, LogInv, NEW q \in Request, NEW s \in Session, MirrorEvent(sid[q], s, <<q, 0>>),
           pc[q] = "found", sid'[q] = sid[q], made'[q] = made[q], pc'[q] = "answered",
           told'[q] = <<<<q, 0>>>>, cut'[q] = cut[q], deleted' = deleted
    PROVE  Stored(q)'
<1> SUFFICES ASSUME ~ cut[q], sid[q] \notin deleted
             PROVE  /\ Selected(Log(q)', Made(q)) = Own(q)
                    /\ told'[q] = Selected(Log(q)', Range(told'[q]))
                    /\ \A n \in 2 .. MaxEvents + 1 : Contains(Log(q)', <<q, n>>) => n <= made[q]
  BY DEF Stored, Made, Own, Untouched
<1>1. 0 \in 0 .. MaxEvents + 1
  BY EventFacts
<1>2. /\ Log(q)' = IF Contains(Log(q), <<q, 0>>) THEN Log(q) ELSE Append(Log(q), <<q, 0>>)
      /\ \A x : Contains(Log(q)', x) => Contains(Log(q), x) \/ x = <<q, 0>>
      /\ Selected(Log(q)', Made(q)) = Own(q)
      /\ \A m \in 2 .. MaxEvents + 1 : Contains(Log(q), <<q, m>>) => m <= made[q]
  BY <1>1, OwnAppended
<1>3. ~ Contains(Log(q), <<q, 0>>) /\ Log(q) \in Seq(Event) /\ <<q, 0>> \in Event
  BY LogTyped, OwnEvents DEF LogInv, StoredInv, Stored, Untouched
<1>4. Log(q)' = Append(Log(q), <<q, 0>>)
  BY <1>2, <1>3
<1>5. Range(<<<<q, 0>>>>) = {<<q, 0>>}
  BY DEF Range
<1>6. Selected(Log(q), {<<q, 0>>}) = <<>>
  <2>1. \A i \in 1 .. Len(Log(q)) : Log(q)[i] \notin {<<q, 0>>}
    BY <1>3 DEF Contains
  <2> QED
    BY <1>3, <2>1, SelectedNone
<1>7. Selected(Append(Log(q), <<q, 0>>), {<<q, 0>>}) = Append(<<>>, <<q, 0>>)
  <2> DEFINE A == {<<q, 0>>}
  <2>1. <<q, 0>> \in A
    OBVIOUS
  <2>2. Selected(Append(Log(q), <<q, 0>>), A)
            = IF <<q, 0>> \in A THEN Append(Selected(Log(q), A), <<q, 0>>) ELSE Selected(Log(q), A)
    <3> HIDE DEF A
    <3> QED
      BY <1>3, SelectedAppend
  <2> QED
    BY <1>6, <2>1, <2>2
<1>8. Append(<<>>, <<q, 0>>) = <<<<q, 0>>>>
  OBVIOUS
<1>9. \A n \in 2 .. MaxEvents + 1 : <<q, n>> # <<q, 0>>
  OBVIOUS
<1> QED
  BY <1>2, <1>4, <1>5, <1>7, <1>8, <1>9

\* No event of a run is told twice.
LEMMA OwnOnce == ASSUME TypeInv, NEW q \in Request PROVE NoDuplicates(Own(q)) /\ NoDuplicates(<<>>)
<1>1. made[q] \in 1 .. MaxEvents + 1 /\ MaxEvents \in Nat /\ Len(Own(q)) = made[q] - 1
  BY OwnEvents
<1>2. \A i \in 1 .. made[q] - 1 : Own(q)[i] = <<q, i + 1>>
  BY <1>1 DEF Own
<1>3. NoDuplicates(Own(q))
  BY <1>1, <1>2 DEF NoDuplicates
<1> QED
  BY <1>3 DEF NoDuplicates

\* A step of request q that writes to no session and tells nothing.
LEMMA QuietStep ==
    ASSUME TypeInv, LogInv, NEW q \in Request, UNCHANGED <<sessions, deleted, sid, made, told, cut>>,
           \A p \in Request \ {q} : pc'[p] = pc[p] /\ kind'[p] = kind[p],
           pc'[q] \in Untouched => pc[q] \in Untouched, pc[q] # "answered",
           Begun(q) => Begun(q)',
           pc'[q] \in {"run", "save", "frame"} => pc[q] \in {"run", "save", "frame"} /\ kind'[q] = kind[q]
    PROVE  LogInv'
<1>1. Told(q) /\ Stored(q) /\ AbsentInv
  BY DEF LogInv, ToldInv, StoredInv
<1>2. Told(q)'
  BY <1>1, OwnOnce DEF Told, Begun, Own
<1>3. Log(q)' = Log(q)
  BY DEF Log
<1>4. Stored(q)'
  BY <1>1, <1>3, StoredFrame DEF HasImported
<1>5. \A p \in Request \ {q} : Stored(p)' /\ Told(p)'
  <2>1. \A p \in Request \ {q} : UNCHANGED Kept(p)
    BY DEF Kept
  <2> QED
    BY <2>1, OthersStored
<1>6. AbsentInv'
  BY <1>1 DEF AbsentInv, Has
<1> QED
  BY <1>2, <1>4, <1>5, <1>6 DEF LogInv, ToldInv, StoredInv

\* A step of request q that appends its event number n.
LEMMA AppendStep ==
    ASSUME TypeInv, LogInv, NEW q \in Request, NEW s \in Session, NEW n \in 0 .. MaxEvents + 1,
           MirrorEvent(sid[q], s, <<q, n>>), UNCHANGED <<deleted, sid, cut, kind>>,
           \A p \in Request \ {q} : pc'[p] = pc[p] /\ told'[p] = told[p] /\ made'[p] = made[p],
           Told(q)', Stored(q)'
    PROVE  LogInv'
<1>1. \A p \in Request \ {q} : Stored(p)' /\ Told(p)'
  <2>1. \A p \in Request \ {q} : UNCHANGED Kept(p)
    BY DEF Kept
  <2> QED
    BY <2>1, OthersStored
<1>2. AbsentInv'
  <2>1. ASSUME NEW r \in Sid, ~ Has(r)' PROVE r \in deleted'
    <3>1. CASE r # sid[q]
      BY <2>1, <3>1 DEF Has, MirrorEvent, TypeInv, TypeOK, LogInv, AbsentInv
    <3>2. CASE r = sid[q]
      <4>1. sessions'[r] = Mirrored(sessions[r], s, <<q, n>>)
        BY <3>2 DEF MirrorEvent, TypeInv, TypeOK
      <4>2. sessions'[r].present
        BY <4>1 DEF Mirrored
      <4> QED
        BY <2>1, <4>2 DEF Has
    <3> QED
      BY <3>1, <3>2
  <2> QED
    BY <2>1 DEF AbsentInv
<1> QED
  BY <1>1, <1>2 DEF LogInv, ToldInv, StoredInv

\* Its user event or its state delta: nothing of the run is told yet.
LEMMA BeforeRun ==
    ASSUME TypeInv, LogInv, NEW q \in Request, NEW s \in Session, NEW n \in {0, 1},
           MirrorEvent(sid[q], s, <<q, n>>), UNCHANGED <<deleted, sid, cut, made, told>>,
           ~ Begun(q), pc'[q] \notin Untouched
    PROVE  Stored(q)'
<1> SUFFICES ASSUME ~ cut[q], sid[q] \notin deleted
             PROVE  /\ Selected(Log(q)', Made(q)) = Own(q)
                    /\ told[q] = Selected(Log(q)', Range(told[q]))
                    /\ \A m \in 2 .. MaxEvents + 1 : Contains(Log(q)', <<q, m>>) => m <= made[q]
  BY DEF Stored, Made, Own
<1>1. n \in 0 .. MaxEvents + 1 /\ <<q, n>> \in Event /\ Log(q) \in Seq(Event)
  BY EventFacts, LogTyped
<1>2. /\ Log(q)' = IF Contains(Log(q), <<q, n>>) THEN Log(q) ELSE Append(Log(q), <<q, n>>)
      /\ \A x : Contains(Log(q)', x) => Contains(Log(q), x) \/ x = <<q, n>>
      /\ Selected(Log(q)', Made(q)) = Own(q)
      /\ \A m \in 2 .. MaxEvents + 1 : Contains(Log(q), <<q, m>>) => m <= made[q]
  BY <1>1, OwnAppended
<1>3. told[q] = <<>> /\ Log(q)' \in Seq(Event)
  BY <1>1, <1>2 DEF LogInv, ToldInv, Told
<1>4. Range(told[q]) = {} /\ Selected(Log(q)', {}) = <<>>
  BY <1>3, NothingTold
<1>5. \A m \in 2 .. MaxEvents + 1 : <<q, m>> # <<q, n>>
  OBVIOUS
<1> QED
  BY <1>2, <1>3, <1>4, <1>5

\* What a run has told its client, or its answer, is all of its events.
LEMMA OwnRange == ASSUME TypeInv, NEW q \in Request PROVE Range(Own(q)) = Made(q)
<1>1. made[q] \in 1 .. MaxEvents + 1 /\ MaxEvents \in Nat
  BY OwnEvents
<1>2. Range(Own(q)) = {<<q, i + 1>> : i \in 1 .. made[q] - 1}
  BY DEF Range, Own
<1>3. \A m \in 2 .. made[q] : m - 1 \in 1 .. made[q] - 1 /\ (m - 1) + 1 = m
  BY <1>1
<1>4. \A i \in 1 .. made[q] - 1 : i + 1 \in 2 .. made[q]
  BY <1>1
<1> QED
  BY <1>2, <1>3, <1>4 DEF Made

LEMMA EmitStored ==
    ASSUME TypeInv, LogInv, NEW q \in Request, Emit(q)
    PROVE  Told(q)' /\ Stored(q)'
<1> DEFINE n == made[q] + 1
           e == <<q, n>>
<1>1. /\ made[q] \in 1 .. MaxEvents /\ n \in 2 .. MaxEvents + 1 /\ MaxEvents \in Nat /\ e \in Event
      /\ made'[q] = n /\ UNCHANGED <<deleted, sid, cut, kind>> /\ pc[q] \in {"run", "save"}
      /\ n \in 0 .. MaxEvents + 1
  <2>1. /\ made[q] \in 1 .. MaxEvents + 1 /\ MaxEvents \in Nat /\ made[q] <= MaxEvents
        /\ made' = [made EXCEPT ![q] = @ + 1] /\ pc[q] \in {"run", "save"}
        /\ UNCHANGED <<deleted, sid, cut, kind>>
    BY OwnEvents DEF Emit
  <2>2. e \in Event
    BY <2>1, OwnEvents
  <2>3. made[q] \in 1 .. MaxEvents /\ n \in 2 .. MaxEvents + 1 /\ n \in 0 .. MaxEvents + 1
    BY <2>1
  <2>4. made'[q] = n
    BY <2>1 DEF TypeInv, TypeOK
  <2> QED
    BY <2>1, <2>2, <2>3, <2>4
<1>2. PICK s \in Session : MirrorEvent(sid[q], s, e)
  <2>1. ApplyEvent(live[q], e) \in Session
    <3>1. live[q] \in Session /\ sessions[sid[q]] \in Slot
      BY DEF TypeInv, TypeOK
    <3> QED
      BY <1>1, <3>1, AppendSessionFacts
  <2> QED
    BY <2>1 DEF Emit, AppendTo
<1>3. Own(q)' = Append(Own(q), e)
  <2>1. Own(q)' = [i \in 1 .. n - 1 |-> <<q, i + 1>>]
    BY <1>1 DEF Own
  <2>2. n - 1 = made[q] /\ made[q] - 1 \in Nat /\ (made[q] - 1) + 1 = made[q]
    BY <1>1
  <2>3. Append(Own(q), e) = [i \in 1 .. made[q] |-> <<q, i + 1>>]
    <3> DEFINE o == [i \in 1 .. made[q] - 1 |-> <<q, i + 1>>]
               w == [i \in 1 .. made[q] |-> <<q, i + 1>>]
    <3>1. o \in Seq(Event) /\ Len(o) = made[q] - 1 /\ w \in Seq(Event) /\ Len(w) = made[q]
      <4>1. \A i \in 1 .. made[q] : <<q, i + 1>> \in Event
        BY <1>1, EventFacts
      <4>2. 1 .. made[q] - 1 \subseteq 1 .. made[q] /\ made[q] \in Nat
        BY <1>1
      <4>3. o \in Seq(Event) /\ Len(o) = made[q] - 1
        BY OwnEvents DEF Own
      <4>4. w \in Seq(Event) /\ Len(w) = made[q]
        BY <4>1, <4>2
      <4> QED
        BY <4>3, <4>4
    <3>2. Append(o, e) \in Seq(Event) /\ Len(Append(o, e)) = made[q]
      BY <1>1, <2>2, <3>1
    <3>3. ASSUME NEW i \in 1 .. made[q] PROVE Append(o, e)[i] = w[i]
      <4>1. w[i] = <<q, i + 1>>
        OBVIOUS
      <4>2. CASE i = made[q]
        <5>1. i = Len(o) + 1
          BY <2>2, <3>1, <4>2
        <5>2. Append(o, e)[i] = e
          BY <3>1, <5>1, <1>1
        <5> QED
          BY <4>1, <4>2, <5>2
      <4>3. CASE i # made[q]
        <5>1. i \in 1 .. made[q] - 1
          BY <2>2, <4>3, <1>1
        <5>2. Append(o, e)[i] = o[i]
          <6> HIDE DEF o
          <6> QED
            BY <3>1, <5>1, <1>1
        <5>3. o[i] = <<q, i + 1>>
          BY <5>1
        <5> QED
          BY <4>1, <5>2, <5>3
      <4> QED
        BY <4>2, <4>3
    <3>4. Append(o, e) = w
      BY <3>1, <3>2, <3>3, SeqEqual
    <3> QED
      BY <3>4 DEF Own
  <2> QED
    BY <2>1, <2>2, <2>3
<1>4. /\ pc'[q] \in {"run", "frame"}
      /\ kind[q] = "run_sse" => pc'[q] = "frame" /\ told'[q] = Append(told[q], e)
      /\ kind[q] # "run_sse" => pc'[q] = "run" /\ told'[q] = told[q]
  BY DEF Emit, To, TypeInv, TypeOK
<1>5. told[q] = IF kind[q] = "run_sse" THEN Own(q) ELSE <<>>
  BY <1>1 DEF LogInv, ToldInv, Told
<1>6. told'[q] = IF kind[q] = "run_sse" THEN Own(q)' ELSE <<>>
  BY <1>3, <1>4, <1>5
<1>7. Told(q)'
  <2>1. \A i \in 1 .. Len(Own(q)') : Own(q)'[i] \in {q} \X (0 .. MaxEvents + 1)
    <3>1. Own(q)' = [i \in 1 .. made[q] |-> <<q, i + 1>>] /\ made[q] \in Nat
      <4>1. n - 1 = made[q]
        BY <1>1
      <4> QED
        BY <1>1, <4>1 DEF Own
    <3>2. \A i \in 1 .. made[q] : i + 1 \in 0 .. MaxEvents + 1
      BY <1>1
    <3> QED
      BY <3>1, <3>2
  <2>2. \A i \in 1 .. Len(<<>>) : FALSE
    OBVIOUS
  <2> QED
    BY <1>1, <1>4, <1>6, <2>1, <2>2 DEF Told, Begun
<1>8. Stored(q)'
  <2> SUFFICES ASSUME ~ cut[q], sid[q] \notin deleted
               PROVE  /\ Selected(Log(q)', Made(q)') = Own(q)'
                      /\ told'[q] = Selected(Log(q)', Range(told'[q]))
                      /\ \A m \in 2 .. MaxEvents + 1 : Contains(Log(q)', <<q, m>>) => m <= made'[q]
    BY <1>1, <1>4 DEF Stored, Untouched
  <2>1. /\ Log(q)' = IF Contains(Log(q), e) THEN Log(q) ELSE Append(Log(q), e)
        /\ \A x : Contains(Log(q)', x) => Contains(Log(q), x) \/ x = e
        /\ \A m \in 2 .. MaxEvents + 1 : Contains(Log(q), <<q, m>>) => m <= made[q]
        /\ ~ Contains(Log(q), e) \/ n = 1
    BY <1>1, <1>2, OwnAppended
  <2>2. Log(q) \in Seq(Event) /\ Selected(Log(q), Made(q)) = Own(q)
    BY LogTyped DEF LogInv, StoredInv, Stored
  <2>3. Log(q)' = Append(Log(q), e) /\ ~ Contains(Log(q), e)
    <3>1. n # 1
      BY <1>1
    <3> HIDE DEF n, e
    <3> QED
      BY <2>1, <3>1
  <2>4. Made(q)' = Made(q) \cup {e}
    <3>1. 2 .. n = (2 .. made[q]) \cup {n}
      BY <1>1
    <3> QED
      BY <1>1, <3>1 DEF Made
  <2>5. Selected(Log(q), Made(q)') = Own(q)
    <3>1. \A i \in 1 .. Len(Log(q)) : Log(q)[i] # e
      BY <2>3 DEF Contains
    <3>2. \A i \in 1 .. Len(Log(q)) : Log(q)[i] \in Made(q)' <=> Log(q)[i] \in Made(q)
      BY <2>4, <3>1
    <3>3. Selected(Log(q), Made(q)') = Selected(Log(q), Made(q))
      BY <2>2, <3>2, SelectedSame
    <3> QED
      BY <2>2, <3>3
  <2>6. Selected(Log(q)', Made(q)') = Own(q)'
    <3>1. e \in Made(q)'
      BY <2>4
    <3>2. Selected(Append(Log(q), e), Made(q)') = Append(Selected(Log(q), Made(q)'), e)
      <4> DEFINE A == Made(q)'
      <4>1. Selected(Append(Log(q), e), A)
                = IF e \in A THEN Append(Selected(Log(q), A), e) ELSE Selected(Log(q), A)
        <5> HIDE DEF A, e
        <5> QED
          BY <1>1, <2>2, SelectedAppend
      <4> QED
        BY <3>1, <4>1
    <3> QED
      BY <1>3, <2>3, <2>5, <3>2
  <2>7. told'[q] = Selected(Log(q)', Range(told'[q]))
    <3>1. Log(q)' \in Seq(Event)
      BY <1>1, <2>2, <2>3
    <3>2. Range(<<>>) = {} /\ Selected(Log(q)', {}) = <<>>
      BY <3>1, NothingTold
    <3>3. Range(Own(q)') = Made(q)'
      <4>1. Own(q)' = [i \in 1 .. made[q] |-> <<q, i + 1>>]
        <5>1. n - 1 = made[q]
          BY <1>1
        <5> QED
          BY <1>1, <5>1 DEF Own
      <4>2. Range(Own(q)') = {<<q, i + 1>> : i \in 1 .. made[q]}
        BY <4>1 DEF Range
      <4>3. \A m \in 2 .. n : m - 1 \in 1 .. made[q] /\ (m - 1) + 1 = m
        BY <1>1
      <4>4. \A i \in 1 .. made[q] : i + 1 \in 2 .. n
        BY <1>1
      <4>5. Made(q)' = {q} \X (2 .. n)
        BY <1>1 DEF Made
      <4> QED
        BY <4>2, <4>3, <4>4, <4>5
    <3> QED
      BY <1>6, <2>6, <3>2, <3>3
  <2>8. \A m \in 2 .. MaxEvents + 1 : <<q, m>> = e => m = n
    OBVIOUS
  <2>9. ASSUME NEW m \in 2 .. MaxEvents + 1, Contains(Log(q)', <<q, m>>) PROVE m <= n
    <3>1. Contains(Log(q), <<q, m>>) \/ <<q, m>> = e
      BY <2>1, <2>9
    <3>2. m \in Nat
      BY <1>1
    <3>3. m <= made[q] \/ m = n
      BY <2>1, <2>8, <3>1
    <3> QED
      BY <1>1, <3>2, <3>3
  <2> QED
    BY <1>1, <2>6, <2>7, <2>9
<1> QED
  BY <1>7, <1>8

LEMMA InitLog == Init => LogInv
<1> SUFFICES ASSUME Init PROVE LogInv
  OBVIOUS
<1>1. TypeInv
  BY InitTypes
<1>2. ASSUME NEW q \in Request PROVE Told(q) /\ Stored(q)
  <2>1. told[q] = <<>> /\ made[q] = 1 /\ pc[q] = "new"
    BY <1>2 DEF Init
  <2>2. Told(q)
    BY <2>1 DEF Told, Begun
  <2>3. Log(q) = <<>>
    <3>1. sid[q] \in Sid /\ sessions[sid[q]] \in {NoSlot, [NoSlot EXCEPT !.present = TRUE]}
      BY LogTyped, <1>1 DEF Init
    <3>2. sessions[sid[q]].session = NewSession
      BY <3>1 DEF NoSlot
    <3> QED
      BY <3>2, SessionFacts DEF Log
  <2>4. Own(q) = <<>>
    BY <2>1 DEF Own
  <2>5. Selected(<<>>, Made(q)) = <<>> /\ Selected(<<>>, Range(<<>>)) = <<>>
    BY SelectedOfNothing
  <2>6. \A x : ~ Contains(<<>>, x)
    BY DEF Contains
  <2> QED
    BY <2>1, <2>2, <2>3, <2>4, <2>5, <2>6 DEF Stored
<1>3. AbsentInv
  BY DEF Init, AbsentInv
<1> QED
  BY <1>2, <1>3 DEF LogInv, ToldInv, StoredInv

\* The steps of a request that leave the sessions alone and tell nothing.
LEMMA QuietSteps ==
    ASSUME TypeInv, LogInv, NEW q \in Request,
           \/ Arrive(q) \/ CreateLook(q) \/ Look(q) \/ Frame(q) \/ Fails(q) \/ Disconnect(q)
           \/ Loaded(q) \/ Deleted(q)
           \/ \E n \in Name : ToolSaves(q, n) \/ DeleteArtifact(q, n) \/ \E v \in 0 .. MaxVersion : Load(q, n, v)
    PROVE  LogInv'
<1>1. UNCHANGED <<sessions, deleted, sid, made, cut>>
  BY DEF Arrive, CreateLook, Look, Frame, Fails, Disconnect, Loaded, Deleted, ToolSaves, DeleteArtifact, Forget, Load,
         sessionVars
<1>2. told' = told
  <2>1. pc[q] \in {"load", "delete"} => told[q] = <<>>
    BY DEF LogInv, ToldInv, Told, Begun
  <2>2. Answer(q, told[q]) => told' = told
    BY DEF Answer, TypeInv, TypeOK
  <2>3. Answer(q, <<>>) /\ pc[q] \in {"load", "delete"} => told' = told
    BY <2>1, <2>2
  <2> QED
    BY <2>2, <2>3 DEF Arrive, CreateLook, Look, Frame, Fails, Disconnect, Loaded, Deleted, ToolSaves,
         DeleteArtifact, Forget, Load, Refuse
<1>3. \A p \in Request \ {q} : pc'[p] = pc[p] /\ kind'[p] = kind[p]
  BY DEF Arrive, CreateLook, Look, Frame, Fails, Disconnect, Loaded, Deleted, ToolSaves, DeleteArtifact, Forget, Load,
         Answer, Refuse, To, TypeInv, TypeOK
<1>4. \/ pc[q] = "new" /\ pc'[q] = "look"
      \/ pc[q] \in {"run", "save", "frame"} /\ pc'[q] \in {"run", "save", "answered"} /\ kind'[q] = kind[q]
      \/ pc[q] = "look" /\ pc'[q] \in {"insert", "found", "load", "delete", "answered"}
      \/ pc'[q] = "answered"
  BY DEF Arrive, CreateLook, Look, Frame, Fails, Disconnect, Loaded, Deleted, ToolSaves, DeleteArtifact, Forget, Load,
         Asked, Answer, Refuse, To, TypeInv, TypeOK
<1>5. /\ pc'[q] \in Untouched => pc[q] \in Untouched
      /\ pc[q] # "answered"
      /\ Begun(q) => Begun(q)'
      /\ pc'[q] \in {"run", "save", "frame"} => pc[q] \in {"run", "save", "frame"} /\ kind'[q] = kind[q]
  <2>1. pc[q] # "answered"
    BY DEF Arrive, CreateLook, Look, Frame, Fails, Disconnect, Loaded, Deleted, ToolSaves, DeleteArtifact, Load, Asked
  <2> QED
    BY <1>4, <2>1 DEF Untouched, Begun
<1> QED
  BY <1>1, <1>2, <1>3, <1>5, QuietStep

\* The steps that append one event of the request.
LEMMA AppendSteps ==
    ASSUME TypeInv, LogInv, NEW q \in Request,
           Patch(q) \/ StateDelta(q) \/ Begin(q) \/ Emit(q) \/ Import(q)
    PROVE  LogInv'
<1>1. live[q] \in Session /\ sessions[sid[q]] \in Slot /\ pc \in [Request -> Places]
      /\ told \in [Request -> Seq(Event)] /\ made \in [Request -> 1 .. MaxEvents + 1]
      /\ {0, 1} \subseteq 0 .. MaxEvents + 1
  BY EventFacts DEF TypeInv, TypeOK
<1>2. \A e \in Event : ApplyEvent(live[q], e) \in Session
  BY <1>1, AppendSessionFacts
<1>3. CASE Patch(q)
  <2>1. /\ MirrorEvent(sid[q], ApplyEvent(live[q], <<q, 0>>), <<q, 0>>) /\ Answer(q, <<<<q, 0>>>>)
        /\ UNCHANGED <<deleted, sid, cut, kind, made>> /\ pc[q] = "found"
    BY <1>1, <1>3 DEF Patch, Asked, Answer
  <2>2. /\ pc'[q] = "answered" /\ told'[q] = <<<<q, 0>>>>
        /\ \A p \in Request \ {q} : pc'[p] = pc[p] /\ told'[p] = told[p] /\ made'[p] = made[p]
    BY <1>1, <2>1 DEF Answer, To
  <2>3. ApplyEvent(live[q], <<q, 0>>) \in Session
    BY <1>2, OwnEvents
  <2>4. Stored(q)'
    BY <2>1, <2>2, <2>3, OwnDelta
  <2>5. Told(q)'
    <3>1. NoDuplicates(<<<<q, 0>>>>)
      BY DEF NoDuplicates
    <3> QED
      BY <1>1, <2>1, <2>2, <3>1 DEF Told, Begun
  <2> QED
    BY <1>1, <2>1, <2>2, <2>3, <2>4, <2>5, AppendStep
<1>4. ASSUME NEW n \in {0, 1}, NEW place \in {"import", "start", "run"}, AppendTo(q, <<q, n>>), To(q, place),
             UNCHANGED <<deleted, kind, sid, made, told, cut>>, pc[q] \in {"import", "found", "user"}
      PROVE  LogInv'
  <2>1. MirrorEvent(sid[q], ApplyEvent(live[q], <<q, n>>), <<q, n>>) /\ ApplyEvent(live[q], <<q, n>>) \in Session
    BY <1>2, <1>4, OwnEvents DEF AppendTo
  <2>2. pc'[q] = place /\ \A p \in Request \ {q} : pc'[p] = pc[p]
    BY <1>1, <1>4 DEF To
  <2>3. told[q] = <<>> /\ made[q] = 1
    BY <1>4 DEF LogInv, ToldInv, Told, Begun
  <2>4. Stored(q)'
    BY <1>4, <2>1, <2>2, BeforeRun DEF Begun, Untouched
  <2>5. Told(q)'
    <3>1. Own(q)' = <<>>
      BY <1>4, <2>3 DEF Own
    <3> QED
      BY <1>4, <2>2, <2>3, <3>1 DEF Told
  <2> QED
    BY <1>1, <1>4, <2>1, <2>2, <2>4, <2>5, AppendStep
<1>5. CASE StateDelta(q) \/ Begin(q)
  BY <1>4, <1>5 DEF StateDelta, Begin
<1>6. CASE Emit(q)
  <2>1. /\ AppendTo(q, <<q, made[q] + 1>>) /\ made[q] <= MaxEvents
        /\ UNCHANGED <<deleted, sid, cut, kind>>
        /\ \A p \in Request \ {q} : pc'[p] = pc[p] /\ told'[p] = told[p] /\ made'[p] = made[p]
    BY <1>1, <1>6 DEF Emit, To
  <2>2. <<q, made[q] + 1>> \in Event /\ made[q] + 1 \in 0 .. MaxEvents + 1
    <3>1. MaxEvents \in Nat /\ made[q] \in 1 .. MaxEvents + 1 /\ <<q, made[q] + 1>> \in Event
      BY <2>1, OwnEvents
    <3> QED
      BY <2>1, <3>1
  <2>3. /\ MirrorEvent(sid[q], ApplyEvent(live[q], <<q, made[q] + 1>>), <<q, made[q] + 1>>)
        /\ ApplyEvent(live[q], <<q, made[q] + 1>>) \in Session
    BY <1>2, <2>1, <2>2 DEF AppendTo
  <2>4. Told(q)' /\ Stored(q)'
    BY <1>6, EmitStored
  <2> QED
    BY <2>1, <2>2, <2>3, <2>4, AppendStep
<1>7. CASE Import(q)
  <2>1. PICK n \in {0, 1} : AppendTo(q, <<q, n>>)
    BY <1>7 DEF Import
  <2>2. To(q, "import") /\ pc[q] = "import" /\ UNCHANGED <<deleted, kind, sid, made, told, cut>>
    BY <1>1, <1>7 DEF Import, Asked, To
  <2> QED
    BY <1>4, <2>1, <2>2
<1> QED
  BY <1>3, <1>5, <1>6, <1>7

\* The request is answered with all of the events of its run.
LEMMA EndStep == ASSUME TypeInv, LogInv, NEW q \in Request, End(q) PROVE LogInv'
<1>1. /\ told' = [told EXCEPT ![q] = Own(q)] /\ pc' = [pc EXCEPT ![q] = "answered"] /\ pc[q] = "run"
      /\ UNCHANGED <<sessions, deleted, sid, cut, kind, made>>
  BY DEF End, Answer, To, Own, sessionVars
<1>2. /\ told'[q] = Own(q) /\ pc'[q] = "answered"
      /\ \A p \in Request \ {q} : pc'[p] = pc[p] /\ told'[p] = told[p]
  BY <1>1 DEF TypeInv, TypeOK
<1>3. Own(q)' = Own(q) /\ Made(q)' = Made(q) /\ Log(q)' = Log(q)
  BY <1>1 DEF Own, Made, Log
<1>4. Stored(q)'
  <2> SUFFICES ASSUME ~ cut[q], sid[q] \notin deleted
               PROVE  /\ Selected(Log(q), Made(q)) = Own(q)
                      /\ told'[q] = Selected(Log(q), Range(told'[q]))
                      /\ \A n \in 2 .. MaxEvents + 1 : Contains(Log(q), <<q, n>>) => n <= made[q]
    BY <1>1, <1>2, <1>3 DEF Stored, Untouched
  <2>1. /\ Selected(Log(q), Made(q)) = Own(q)
        /\ \A n \in 2 .. MaxEvents + 1 : Contains(Log(q), <<q, n>>) => n <= made[q]
    BY DEF LogInv, StoredInv, Stored
  <2>2. Range(told'[q]) = Made(q)
    BY <1>2, OwnRange
  <2> QED
    BY <1>2, <2>1, <2>2
<1>5. Told(q)'
  <2>1. made[q] \in 1 .. MaxEvents + 1 /\ MaxEvents \in Nat
    BY OwnEvents
  <2>2. \A i \in 1 .. Len(Own(q)) : Own(q)[i] \in {q} \X (0 .. MaxEvents + 1)
    <3>1. Len(Own(q)) = made[q] - 1
      BY OwnEvents
    <3>2. \A i \in 1 .. made[q] - 1 : i + 1 \in 0 .. MaxEvents + 1
      BY <2>1
    <3> QED
      BY <3>1, <3>2 DEF Own
  <2> QED
    BY <1>2, <2>2, OwnOnce DEF Told, Begun
<1>6. \A p \in Request \ {q} : Stored(p)' /\ Told(p)'
  <2>1. \A p \in Request \ {q} : UNCHANGED Kept(p)
    BY <1>1, <1>2 DEF Kept
  <2> QED
    BY <1>1, <2>1, OthersStored
<1>7. AbsentInv'
  BY <1>1 DEF LogInv, AbsentInv, Has
<1> QED
  BY <1>4, <1>5, <1>6, <1>7 DEF LogInv, ToldInv, StoredInv

\* A session is created or deleted: who was in it does not count on it any more.
LEMMA CutSteps ==
    ASSUME TypeInv, LogInv, NEW q \in Request, CutBy(q, sid[q]), UNCHANGED <<sid, made, kind>>,
           told' = told \/ told' = [told EXCEPT ![q] = <<>>], kind[q] \notin Runs,
           pc[q] \in {"look", "insert"},
           NEW place \in {"import", "answered"}, pc' = [pc EXCEPT ![q] = place],
           sessions'[sid[q]].session = NewSession,
           \A r \in Sid \ {sid[q]} : sessions'[r] = sessions[r] /\ (r \in deleted <=> r \in deleted'),
           ~ sessions'[sid[q]].present => sid[q] \in deleted'
    PROVE  LogInv'
<1>1. /\ \A p \in Request : told[p] \in Seq(Event) /\ sid[p] \in Sid
      /\ pc'[q] = place /\ \A p \in Request \ {q} : pc'[p] = pc[p] /\ told'[p] = told[p]
  BY DEF TypeInv, TypeOK
<1>2. ASSUME NEW p \in Request PROVE Told(p)'
  <2>1. Told(p)
    BY DEF LogInv, ToldInv
  <2>2. CASE p = q
    <3>1. told'[q] = <<>> /\ made[q] = 1
      BY <1>1, <2>1, <2>2 DEF Told, Begun, TypeInv, TypeOK
    <3> QED
      BY <1>1, <2>2, <3>1, OwnOnce DEF Told, Begun
  <2>3. CASE p # q
    BY <1>1, <2>1, <2>3 DEF Told, Begun, Own
  <2> QED
    BY <2>2, <2>3
<1>3. ASSUME NEW p \in Request PROVE Stored(p)'
  <2>1. Told(p) /\ Stored(p)
    BY DEF LogInv, ToldInv, StoredInv
  <2>2. CASE sid[p] = sid[q] /\ (p = q \/ pc[p] \in {"new", "look"})
    <3>1. told'[p] = <<>> /\ made'[p] = 1
      <4>1. ~ Begun(p)
        BY <2>2 DEF Begun
      <4> QED
        BY <1>1, <2>1, <4>1 DEF Told, TypeInv, TypeOK
    <3>2. Log(p)' = <<>>
      BY <2>2, SessionFacts DEF Log
    <3> QED
      BY <3>1, <3>2, StoredNew
  <2>3. CASE sid[p] = sid[q] /\ p # q /\ pc[p] \notin {"new", "look"}
    <3>1. cut'[p]
      BY <2>3 DEF CutBy
    <3> QED
      BY <3>1 DEF Stored
  <2>4. CASE sid[p] # sid[q]
    <3>1. p # q /\ sid[p] \in Sid \ {sid[q]} /\ Log(p)' = Log(p) /\ pc'[p] = pc[p] /\ told'[p] = told[p]
      BY <1>1, <2>4 DEF Log
    <3>2. cut'[p] = cut[p]
      BY <2>4, <3>1 DEF CutBy, TypeInv, TypeOK
    <3> QED
      BY <2>1, <3>1, <3>2, StoredFrame DEF HasImported
  <2> QED
    BY <2>2, <2>3, <2>4
<1>4. AbsentInv'
  <2>1. AbsentInv
    BY DEF LogInv
  <2> QED
    BY <2>1 DEF AbsentInv, Has
<1> QED
  BY <1>2, <1>3, <1>4 DEF LogInv, ToldInv, StoredInv

LEMMA CreateSteps == ASSUME TypeInv, LogInv, NEW q \in Request, CreateInsert(q) \/ DeleteIt(q) PROVE LogInv'
<1>1. sessions \in [Sid -> Slot] /\ sid[q] \in Sid /\ told \in [Request -> Seq(Event)] /\ pc \in [Request -> Places]
  BY DEF TypeInv, TypeOK
<1>2. CASE CreateInsert(q) /\ Refuse(q) /\ UNCHANGED <<sessionVars, cut>>
  <2>1. UNCHANGED <<sessions, deleted, sid, made, told, cut, kind>> /\ pc' = [pc EXCEPT ![q] = "answered"]
    BY <1>1, <1>2 DEF CreateInsert, Refuse, Answer, To, sessionVars
  <2>2. pc[q] = "insert" /\ pc'[q] = "answered" /\ \A p \in Request \ {q} : pc'[p] = pc[p] /\ kind'[p] = kind[p]
    BY <1>1, <1>2, <2>1 DEF CreateInsert, Asked
  <2> QED
    BY <2>1, <2>2, QuietStep DEF Untouched, Begun
<1>3. CASE /\ CreateInsert(q) /\ InsertSession(sid[q]) /\ CutBy(q, sid[q]) /\ deleted' = deleted \ {sid[q]}
           /\ To(q, "import") /\ UNCHANGED <<live, told>>
  <2>1. /\ kind[q] \notin Runs /\ pc[q] = "insert" /\ UNCHANGED <<sid, made, kind, told>>
        /\ pc' = [pc EXCEPT ![q] = "import"]
        /\ sessions' = [sessions EXCEPT ![sid[q]] = [present |-> TRUE, session |-> NewSession]]
    BY <1>3 DEF CreateInsert, Asked, Runs, To, InsertSession
  <2>2. /\ sessions'[sid[q]].session = NewSession /\ sessions'[sid[q]].present
        /\ \A r \in Sid \ {sid[q]} : sessions'[r] = sessions[r] /\ (r \in deleted <=> r \in deleted')
    BY <1>1, <1>3, <2>1
  <2> QED
    BY <1>3, <2>1, <2>2, CutSteps
<1>4. CASE DeleteIt(q)
  <2>1. /\ kind[q] \notin Runs /\ pc[q] = "look" /\ UNCHANGED <<sid, made, kind>>
        /\ told' = [told EXCEPT ![q] = <<>>] /\ pc' = [pc EXCEPT ![q] = "answered"]
        /\ sessions' = [sessions EXCEPT ![sid[q]] = NoSlot] /\ CutBy(q, sid[q]) /\ deleted' = deleted \cup {sid[q]}
    BY <1>4 DEF DeleteIt, Asked, Runs, Answer, To, DeleteSession
  <2>2. /\ sessions'[sid[q]].session = NewSession /\ sid[q] \in deleted'
        /\ \A r \in Sid \ {sid[q]} : sessions'[r] = sessions[r] /\ (r \in deleted <=> r \in deleted')
    BY <1>1, <2>1 DEF NoSlot
  <2> QED
    BY <2>1, <2>2, CutSteps
<1> QED
  BY <1>2, <1>3, <1>4 DEF CreateInsert

\* The runner finds the session, or puts one in the place of one that has gone.
LEMMA StartStep == ASSUME TypeInv, LogInv, NEW q \in Request, Start(q) PROVE LogInv'
<1>1. /\ sessions \in [Sid -> Slot] /\ sid[q] \in Sid /\ told \in [Request -> Seq(Event)]
      /\ pc \in [Request -> Places] /\ UNCHANGED <<deleted, sid, made, kind, cut>> /\ pc[q] \in {"found", "start"}
  BY DEF TypeInv, TypeOK, Start
<1>2. told' = told /\ \A p \in Request \ {q} : pc'[p] = pc[p] /\ kind'[p] = kind[p]
  BY <1>1 DEF Start, Refuse, Answer, To
<1>3. pc'[q] \in {"user", "answered"}
  BY <1>1 DEF Start, Refuse, Answer, To
<1>4. CASE sessions' = sessions
  BY <1>1, <1>2, <1>3, <1>4, QuietStep DEF Untouched, Begun
<1>5. CASE ~ Has(sid[q]) /\ InsertSession(sid[q])
  <2>1. /\ sid[q] \in deleted /\ \A r \in Sid \ {sid[q]} : sessions'[r] = sessions[r]
        /\ sessions'[sid[q]].present
    BY <1>1, <1>5 DEF LogInv, AbsentInv, InsertSession
  <2>2. Told(q)'
    <3>1. Told(q)
      BY DEF LogInv, ToldInv
    <3>2. told[q] = <<>> /\ made[q] = 1
      BY <1>1, <3>1 DEF Told, Begun
    <3> QED
      BY <1>1, <1>2, <1>3, <3>2, OwnOnce DEF Told, Begun
  <2>3. Stored(q)'
    BY <1>1, <2>1 DEF Stored
  <2>4. \A p \in Request \ {q} : Stored(p)' /\ Told(p)'
    <3>1. \A p \in Request \ {q} : UNCHANGED Kept(p)
      BY <1>1, <1>2 DEF Kept
    <3> QED
      BY <1>1, <2>1, <3>1, OthersStored
  <2>5. AbsentInv'
    BY <1>1, <2>1 DEF LogInv, AbsentInv, Has
  <2> QED
    BY <2>2, <2>3, <2>4, <2>5 DEF LogInv, ToldInv, StoredInv
<1> QED
  BY <1>4, <1>5 DEF Start

\* The answer of a request that has created its session is its snapshot.
LEMMA ImportedStep == ASSUME TypeInv, LogInv, BroughtInv, NEW q \in Request, Imported(q) PROVE LogInv'
<1>1. /\ told \in [Request -> Seq(Event)] /\ pc \in [Request -> Places] /\ pc[q] = "import" /\ kind[q] = "create"
      /\ UNCHANGED <<sessions, deleted, sid, cut, kind, made>>
      /\ told' = [told EXCEPT ![q] = live[q].events] /\ pc' = [pc EXCEPT ![q] = "answered"]
  BY DEF TypeInv, TypeOK, Imported, Asked, Answer, To, sessionVars
<1>2. /\ told'[q] = live[q].events /\ pc'[q] = "answered"
      /\ \A p \in Request \ {q} : pc'[p] = pc[p] /\ told'[p] = told[p]
  BY <1>1
<1>3. Told(q)'
  <2>1. \A i \in 1 .. Len(live[q].events) : live[q].events[i] \in {q} \X {0, 1}
    BY <1>1 DEF BroughtInv, Brought, Early
  <2>2. {q} \X {0, 1} \subseteq {q} \X (0 .. MaxEvents + 1)
    BY EventFacts
  <2> QED
    BY <1>1, <1>2, <2>1, <2>2 DEF Told, Begun
<1>4. Stored(q)'
  <2>1. Stored(q) /\ Log(q)' = Log(q) /\ Made(q)' = Made(q) /\ Own(q)' = Own(q)
    BY <1>1 DEF LogInv, StoredInv, Log, Made, Own
  <2> QED
    BY <1>1, <1>2, <2>1 DEF Stored, HasImported, Untouched
<1>5. \A p \in Request \ {q} : Stored(p)' /\ Told(p)'
  <2>1. \A p \in Request \ {q} : UNCHANGED Kept(p)
    BY <1>1, <1>2 DEF Kept
  <2> QED
    BY <1>1, <2>1, OthersStored
<1>6. AbsentInv'
  BY <1>1 DEF LogInv, AbsentInv, Has
<1> QED
  BY <1>3, <1>4, <1>5, <1>6 DEF LogInv, ToldInv, StoredInv

LEMMA NextLog == TypeInv /\ LogInv /\ BroughtInv /\ [Next]_vars => LogInv'
<1> SUFFICES ASSUME TypeInv, LogInv, BroughtInv, [Next]_vars PROVE LogInv'
  OBVIOUS
<1>1. ASSUME NEW q \in Request, NEW v \in 1 .. MaxVersion, Removes(q, v) PROVE LogInv'
  BY <1>1 DEF Removes, Forget, LogInv, ToldInv, StoredInv, AbsentInv, Told, Stored, Own, Made, Log, Begun, Has,
              HasImported, sessionVars
<1>2. ASSUME NEW q \in Request, FileStep(q), UNCHANGED <<sessionVars, requestVars, tellVars>> PROVE LogInv'
  BY <1>2 DEF LogInv, ToldInv, StoredInv, AbsentInv, Told, Stored, Own, Made, Log, Begun, Has, HasImported,
              sessionVars, requestVars
<1>3. CASE UNCHANGED vars
  BY <1>3 DEF LogInv, ToldInv, StoredInv, AbsentInv, Told, Stored, Own, Made, Log, Begun, Has, HasImported, vars,
              sessionVars, requestVars
<1> QED
  BY <1>1, <1>2, <1>3, ImportedStep, QuietSteps, AppendSteps, EndStep, CreateSteps, StartStep DEF Next, RunStep

\* The events a request brings with it.
LEMMA BringsTyped ==
    ASSUME TypeInv, ToldInv, NEW p \in Request, Brought(p)
    PROVE  Brings(p) \in Seq(Event)
           /\ \A i \in 1 .. Len(Brings(p)) : Brings(p)[i] \in {p} \X (0 .. MaxEvents + 1)
<1>1. {p} \X {0, 1} \subseteq {p} \X (0 .. MaxEvents + 1) /\ Told(p)
  BY EventFacts DEF ToldInv
<1>2. live[p].events \in Seq(Event) /\ told[p] \in Seq(Event)
  BY DEF TypeInv, TypeOK, Session
<1> QED
  BY <1>1, <1>2 DEF Brings, Brought, Told

\* Another request's step: the log stays, or gets an event of that request.
LEMMA BroughtFrame ==
    ASSUME TypeInv, ToldInv, NEW p \in Request, Brought(p),
           UNCHANGED <<sid[p], told[p], live[p], pc[p], kind[p]>>,
           ~ cut'[p] /\ sid[p] \notin deleted' =>
              /\ ~ cut[p] /\ sid[p] \notin deleted
              /\ \/ Log(p)' = Log(p)
                 \/ \E e \in Event : /\ Log(p)' = Append(Log(p), e)
                                     /\ e \notin {p} \X (0 .. MaxEvents + 1)
    PROVE  Brought(p)'
<1> DEFINE B == Brings(p)
<1>1. Brings(p)' = B /\ (HasImported(p)' <=> HasImported(p))
  BY DEF Brings, HasImported
<1>2. Log(p) \in Seq(Event) /\ B \in Seq(Event) /\ Range(B) \subseteq {p} \X (0 .. MaxEvents + 1)
  <2>1. B \in Seq(Event) /\ \A i \in 1 .. Len(B) : B[i] \in {p} \X (0 .. MaxEvents + 1)
    BY BringsTyped
  <2> QED
    BY <2>1, LogTyped DEF Range
<1>3. ASSUME ~ cut'[p], sid[p] \notin deleted'
      PROVE  /\ pc[p] \in Early \/ HasImported(p) => WithoutRepeats(B) = Selected(Log(p)', Range(B))
             /\ pc[p] \in Early => \A i \in {0, 1} : Contains(Log(p)', <<p, i>>) <=> Contains(live[p].events, <<p, i>>)
  <2>1. /\ pc[p] \in Early \/ HasImported(p) => WithoutRepeats(B) = Selected(Log(p), Range(B))
        /\ pc[p] \in Early => \A i \in {0, 1} : Contains(Log(p), <<p, i>>) <=> Contains(live[p].events, <<p, i>>)
    BY <1>3 DEF Brought
  <2>2. CASE Log(p)' = Log(p)
    BY <2>1, <2>2
  <2>3. ASSUME NEW e \in Event, Log(p)' = Append(Log(p), e), e \notin {p} \X (0 .. MaxEvents + 1)
        PROVE  /\ Selected(Log(p)', Range(B)) = Selected(Log(p), Range(B))
               /\ \A i \in {0, 1} : Contains(Log(p)', <<p, i>>) <=> Contains(Log(p), <<p, i>>)
    <3>1. e \notin Range(B)
      BY <1>2, <2>3
    <3>2. Selected(Append(Log(p), e), Range(B)) = Selected(Log(p), Range(B))
      <4> HIDE DEF B
      <4> QED
        BY <1>2, <3>1, SelectedAppend
    <3>3. \A x : Contains(Append(Log(p), e), x) <=> Contains(Log(p), x) \/ x = e
      BY <1>2, AppendFacts
    <3>4. \A i \in {0, 1} : <<p, i>> # e
      <4>1. {p} \X {0, 1} \subseteq {p} \X (0 .. MaxEvents + 1)
        BY EventFacts
      <4> QED
        BY <2>3, <4>1
    <3> QED
      BY <2>3, <3>2, <3>3, <3>4
  <2> QED
    BY <1>3, <2>1, <2>2, <2>3
<1> HIDE DEF B
<1> QED
  BY <1>1, <1>3 DEF Brought

\* A new log, before anything is brought.
LEMMA BroughtNew ==
    ASSUME NEW p \in Request, Log(p)' = <<>>, pc'[p] \in Early, live'[p].events = <<>>
    PROVE  Brought(p)'
<1>1. \A x : ~ Contains(<<>>, x)
  BY DEF Contains
<1>2. Brings(p)' = <<>> /\ ~ HasImported(p)'
  BY DEF Brings, HasImported, Early
<1>3. Selected(<<>>, Range(<<>>)) = <<>> /\ WithoutRepeats(<<>>) = <<>>
  <2>1. <<>> \in Seq({}) /\ NoDuplicates(<<>>)
    BY DEF NoDuplicates
  <2> QED
    BY <2>1, SelectedOfNothing, WithoutRepeatsSame
<1>4. \A i \in 1 .. Len(<<>>) : FALSE
  OBVIOUS
<1> QED
  BY <1>1, <1>2, <1>3, <1>4 DEF Brought, Early

\* The requests that a step of request q does not concern.
LEMMA OthersBrought ==
    ASSUME TypeInv, LogInv, BroughtInv, NEW q \in Request, NEW p \in Request \ {q},
           UNCHANGED <<cut[p], sid[p], told[p], live[p], pc[p], kind[p], deleted>>,
           \/ sessions' = sessions
           \/ \E s \in Session, n \in 0 .. MaxEvents + 1 : MirrorEvent(sid[q], s, <<q, n>>)
           \/ sid[q] \in deleted /\ \A r \in Sid \ {sid[q]} : sessions'[r] = sessions[r]
    PROVE  Brought(p)'
<1>1. Brought(p) /\ ToldInv /\ AbsentInv
  BY DEF LogInv, BroughtInv
<1>2. sid[p] \notin deleted =>
          \/ Log(p)' = Log(p)
          \/ \E e \in Event : Log(p)' = Append(Log(p), e) /\ e \notin {p} \X (0 .. MaxEvents + 1)
  BY <1>1, OthersLog
<1> QED
  BY <1>1, <1>2, BroughtFrame

\* Before it imports, and when it is refused, a request has brought nothing.
LEMMA NothingBrought ==
    ASSUME TypeInv, LogInv, BroughtInv, NEW q \in Request, UNCHANGED <<sessions, deleted, sid, cut, told>>,
           live'[q].events = <<>>, pc[q] \in {"new", "look", "insert"},
           pc'[q] \in {"look", "insert", "answered"}
    PROVE  Brought(q)'
<1>1. Brought(q) /\ Log(q)' = Log(q) /\ told'[q] = <<>> /\ live[q].events = <<>> /\ Log(q) \in Seq(Event)
  BY LogTyped DEF BroughtInv, Brought, Log, LogInv, ToldInv, Told, Begun
<1>2. Brings(q)' = <<>> /\ Range(<<>>) = {}
  BY <1>1 DEF Brings, Range
<1>3. Selected(Log(q), {}) = <<>> /\ WithoutRepeats(<<>>) = <<>>
  <2>1. <<>> \in Seq({}) /\ NoDuplicates(<<>>)
    BY DEF NoDuplicates
  <2> QED
    BY <1>1, <2>1, NothingTold, WithoutRepeatsSame
<1>4. \A i \in 1 .. Len(<<>>) : FALSE
  OBVIOUS
<1>5. \A i \in {0, 1} : ~ cut[q] /\ sid[q] \notin deleted /\ Contains(Log(q), <<q, i>>) => FALSE
  <2>1. \A x : ~ Contains(<<>>, x)
    BY DEF Contains
  <2> QED
    BY <1>1, <2>1 DEF Brought, Early
<1> QED
  BY <1>1, <1>2, <1>3, <1>4, <1>5 DEF Brought, Early

\* A request that does not create its session brings nothing.
LEMMA NoneBrought ==
    ASSUME NEW q \in Request, kind'[q] # "create", pc'[q] \notin Early
    PROVE  Brought(q)'
BY DEF Brought, HasImported, Early

\* One event of the request more.
LEMMA ImportBrought == ASSUME TypeInv, LogInv, BroughtInv, NEW q \in Request, Import(q) PROVE Brought(q)'
<1> DEFINE L == live[q].events
<1>1. /\ pc[q] = "import" /\ UNCHANGED <<deleted, pc, kind, sid, told, cut>> /\ Brought(q)
      /\ live[q] \in Session /\ L \in Seq(Event) /\ Log(q) \in Seq(Event)
  BY LogTyped DEF Import, Asked, BroughtInv, TypeInv, TypeOK, Session
<1>2. PICK n \in {0, 1} : AppendTo(q, <<q, n>>)
  BY DEF Import
<1> DEFINE e == <<q, n>>
<1>3. e \in Event /\ n \in 0 .. MaxEvents + 1
  BY EventFacts
<1>4. live'[q].events = Append(L, e) /\ ApplyEvent(live[q], e) \in Session /\ MirrorEvent(sid[q], ApplyEvent(live[q], e), e)
  <2>1. ApplyEvent(live[q], e) \in Session
    <3>1. sessions[sid[q]] \in Slot
      BY DEF TypeInv, TypeOK
    <3> QED
      BY <1>1, <1>3, <3>1, AppendSessionFacts
  <2>2. live'[q] = ApplyEvent(live[q], e)
    BY <1>2 DEF AppendTo, TypeInv, TypeOK
  <2> QED
    BY <1>2, <2>1, <2>2 DEF AppendTo, ApplyEvent
<1>5. Brings(q) = L /\ Brings(q)' = Append(L, e)
  BY <1>1, <1>4 DEF Brings, Early
<1>6. \A x : Contains(Append(L, e), x) <=> Contains(L, x) \/ x = e
  BY <1>1, <1>3, AppendFacts
<1>7. \A i \in 1 .. Len(Append(L, e)) : Append(L, e)[i] \in {q} \X {0, 1}
  <2>1. Len(Append(L, e)) = Len(L) + 1 /\ Append(L, e)[Len(L) + 1] = e /\ Len(L) \in Nat
        /\ \A i \in 1 .. Len(L) : Append(L, e)[i] = L[i]
    <3> HIDE DEF L, e
    <3> QED
      BY <1>1, <1>3
  <2>2. \A i \in 1 .. Len(L) : L[i] \in {q} \X {0, 1}
    BY <1>1 DEF Brought, Early
  <2>3. \A i \in 1 .. Len(L) + 1 : i \in 1 .. Len(L) \/ i = Len(L) + 1
    <3>1. Len(L) \in Nat
      BY <2>1
    <3> HIDE DEF L
    <3> QED
      BY <3>1
  <2>4. e \in {q} \X {0, 1}
    OBVIOUS
  <2> HIDE DEF L, e
  <2>5. \A i \in 1 .. Len(L) + 1 : Append(L, e)[i] \in {q} \X {0, 1}
    BY <2>1, <2>2, <2>3, <2>4
  <2> QED
    BY <2>1, <2>5
<1>8. ASSUME ~ cut[q], sid[q] \notin deleted
      PROVE  /\ WithoutRepeats(Append(L, e)) = Selected(Log(q)', Range(Append(L, e)))
             /\ \A i \in {0, 1} : Contains(Log(q)', <<q, i>>) <=> Contains(Append(L, e), <<q, i>>)
  <2>1. /\ WithoutRepeats(L) = Selected(Log(q), Range(L))
        /\ \A i \in {0, 1} : Contains(Log(q), <<q, i>>) <=> Contains(L, <<q, i>>)
    BY <1>1, <1>5, <1>8 DEF Brought, Early
  <2>2. Log(q)' = IF Contains(Log(q), e) THEN Log(q) ELSE Append(Log(q), e)
    <3>1. sessions'[sid[q]].session.events = IF Contains(Log(q), e) THEN Log(q) ELSE Append(Log(q), e)
      BY <1>3, <1>4, <1>8, MirrorLog DEF LogInv
    <3> QED
      BY <1>1, <3>1 DEF Log
  <2>3. \A x : Contains(L, x) <=> x \in Range(L)
    BY <1>1 DEF Contains, Range
  <2>4. Range(Append(L, e)) = Range(L) \cup {e}
    <3>1. Append(L, e) \in Seq(Event)
      BY <1>1, <1>3
    <3>2. \A x : Contains(Append(L, e), x) <=> x \in Range(Append(L, e))
      BY <3>1 DEF Contains, Range
    <3> HIDE DEF L, e
    <3> QED
      BY <1>6, <2>3, <3>2
  <2>5. \A x : Contains(Append(Log(q), e), x) <=> Contains(Log(q), x) \/ x = e
    BY <1>1, <1>3, AppendFacts
  <2>6. WithoutRepeats(Append(L, e)) = IF Contains(L, e) THEN WithoutRepeats(L) ELSE Append(WithoutRepeats(L), e)
    <3> HIDE DEF L, e
    <3> QED
      BY <1>1, <1>3, WithoutRepeatsAppend
  <2>7. \A A : Selected(Append(Log(q), e), A) = IF e \in A THEN Append(Selected(Log(q), A), e) ELSE Selected(Log(q), A)
    <3> HIDE DEF e
    <3> QED
      BY <1>1, <1>3, SelectedAppend
  <2>8. CASE Contains(Log(q), e)
    <3>1. Contains(L, e) /\ Range(Append(L, e)) = Range(L)
      BY <2>1, <2>3, <2>4, <2>8
    <3> QED
      BY <1>6, <2>1, <2>2, <2>6, <2>8, <3>1
  <2>9. CASE ~ Contains(Log(q), e)
    <3>1. ~ Contains(L, e)
      BY <2>1, <2>9
    <3>2. Selected(Log(q), Range(L) \cup {e}) = Selected(Log(q), Range(L))
      <4>1. \A i \in 1 .. Len(Log(q)) : Log(q)[i] # e
        BY <2>9 DEF Contains
      <4>2. \A i \in 1 .. Len(Log(q)) : Log(q)[i] \in Range(L) \cup {e} <=> Log(q)[i] \in Range(L)
        BY <4>1
      <4> HIDE DEF L, e
      <4> QED
        BY <1>1, <4>2, SelectedSame
    <3> HIDE DEF L, e
    <3> QED
      BY <1>6, <2>1, <2>2, <2>4, <2>5, <2>6, <2>7, <2>9, <3>1, <3>2
  <2> QED
    BY <2>8, <2>9
<1> HIDE DEF L, e
<1> QED
  BY <1>1, <1>4, <1>5, <1>7, <1>8 DEF Brought, Early, HasImported

\* The steps of a request that does not create its session.
LEMMA NotBringing ==
    ASSUME TypeInv, LogInv, BroughtInv, NEW q \in Request, kind'[q] # "create", pc'[q] \notin Early,
           UNCHANGED deleted,
           \A p \in Request \ {q} : UNCHANGED <<cut[p], sid[p], told[p], live[p], pc[p], kind[p]>>,
           \/ sessions' = sessions
           \/ \E s \in Session, n \in 0 .. MaxEvents + 1 : MirrorEvent(sid[q], s, <<q, n>>)
           \/ sid[q] \in deleted /\ \A r \in Sid \ {sid[q]} : sessions'[r] = sessions[r]
    PROVE  BroughtInv'
<1>1. Brought(q)'
  BY NoneBrought
<1>2. \A p \in Request \ {q} : Brought(p)'
  BY OthersBrought
<1> QED
  BY <1>1, <1>2 DEF BroughtInv

\* A step of request q that writes to no session.
LEMMA QuietBrought ==
    ASSUME TypeInv, LogInv, BroughtInv, NEW q \in Request,
           \/ Look(q) \/ Frame(q) \/ End(q) \/ Fails(q) \/ Disconnect(q) \/ Loaded(q) \/ Deleted(q)
           \/ \E n \in Name : ToolSaves(q, n) \/ DeleteArtifact(q, n) \/ \E v \in 0 .. MaxVersion : Load(q, n, v)
    PROVE  BroughtInv'
<1>1. UNCHANGED <<sessions, deleted, sid, kind, cut>>
  BY DEF Look, Frame, End, Fails, Disconnect, Loaded, Deleted, ToolSaves, DeleteArtifact, Forget, Load, sessionVars
<1>2. \A p \in Request \ {q} : pc'[p] = pc[p] /\ told'[p] = told[p] /\ live'[p] = live[p]
  BY DEF Look, Frame, End, Fails, Disconnect, Loaded, Deleted, ToolSaves, DeleteArtifact, Forget, Load,
         Answer, Refuse, To, TypeInv, TypeOK
<1>3. pc'[q] \in {"found", "run", "save", "answered", "load", "delete"}
  BY DEF Look, Frame, End, Fails, Disconnect, Loaded, Deleted, ToolSaves, DeleteArtifact, Forget, Load,
         Asked, Answer, Refuse, To, TypeInv, TypeOK
<1>4. kind[q] # "create"
  <2>1. kind[q] \in Runs \cup {"patch", "load", "delete_artifact"} \/ pc[q] \in {"run", "save", "frame", "load", "delete"}
    BY DEF Look, Frame, End, Fails, Disconnect, Loaded, Deleted, ToolSaves, DeleteArtifact, Load, Asked
  <2> QED
    BY <2>1 DEF BroughtInv, Brought, Early, Runs
<1> QED
  BY <1>1, <1>2, <1>3, <1>4, NotBringing DEF Early

\* A step of request q that appends one of its events, of a run or a patch.
LEMMA AppendBrought ==
    ASSUME TypeInv, LogInv, BroughtInv, NEW q \in Request, Patch(q) \/ StateDelta(q) \/ Begin(q) \/ Emit(q)
    PROVE  BroughtInv'
<1>1. live[q] \in Session /\ sessions[sid[q]] \in Slot /\ {0, 1} \subseteq 0 .. MaxEvents + 1
  BY EventFacts DEF TypeInv, TypeOK
<1>2. \A e \in Event : ApplyEvent(live[q], e) \in Session
  BY <1>1, AppendSessionFacts
<1>3. UNCHANGED <<deleted, sid, kind, cut>>
  BY DEF Patch, StateDelta, Begin, Emit
<1>4. \A p \in Request \ {q} : pc'[p] = pc[p] /\ told'[p] = told[p] /\ live'[p] = live[p]
  BY DEF Patch, StateDelta, Begin, Emit, Answer, AppendTo, To, TypeInv, TypeOK
<1>5. pc'[q] \in {"answered", "start", "run", "frame"}
  BY DEF Patch, StateDelta, Begin, Emit, Answer, To, TypeInv, TypeOK
<1>6. kind[q] # "create"
  <2>1. kind[q] \in Runs \cup {"patch"} \/ pc[q] \in {"user", "run", "save"}
    BY DEF Patch, StateDelta, Begin, Emit, Asked
  <2> QED
    BY <2>1 DEF BroughtInv, Brought, Early, Runs
<1>7. \E n \in 0 .. MaxEvents + 1 : <<q, n>> \in Event /\ MirrorEvent(sid[q], ApplyEvent(live[q], <<q, n>>), <<q, n>>)
  <2>1. CASE Patch(q) \/ StateDelta(q)
    BY <1>1, <2>1, OwnEvents DEF Patch, StateDelta, AppendTo
  <2>2. CASE Begin(q)
    BY <1>1, <2>2, OwnEvents DEF Begin, AppendTo
  <2>3. CASE Emit(q)
    <3>1. /\ made[q] <= MaxEvents
          /\ MirrorEvent(sid[q], ApplyEvent(live[q], <<q, made[q] + 1>>), <<q, made[q] + 1>>)
      BY <2>3 DEF Emit, AppendTo
    <3>2. <<q, made[q] + 1>> \in Event /\ MaxEvents \in Nat /\ made[q] \in 1 .. MaxEvents + 1
      BY <3>1, OwnEvents
    <3>3. made[q] + 1 \in 0 .. MaxEvents + 1
      BY <3>1, <3>2
    <3> QED
      BY <3>1, <3>2, <3>3
  <2> QED
    BY <2>1, <2>2, <2>3
<1>8. \E s \in Session, n \in 0 .. MaxEvents + 1 : MirrorEvent(sid[q], s, <<q, n>>)
  BY <1>2, <1>7
<1> QED
  BY <1>3, <1>4, <1>5, <1>6, <1>8, NotBringing DEF Early

\* The runner loads the session, or puts one in the place of one that has gone.
LEMMA StartBrought == ASSUME TypeInv, LogInv, BroughtInv, NEW q \in Request, Start(q) PROVE BroughtInv'
<1>1. sessions \in [Sid -> Slot] /\ sid[q] \in Sid /\ UNCHANGED <<deleted, sid, kind, cut>> /\ kind[q] \in Runs
  BY DEF TypeInv, TypeOK, Start
<1>2. \A p \in Request \ {q} : pc'[p] = pc[p] /\ told'[p] = told[p] /\ live'[p] = live[p]
  BY DEF Start, Refuse, Answer, To, TypeInv, TypeOK
<1>3. pc'[q] \in {"user", "answered"}
  BY DEF Start, Refuse, Answer, To, TypeInv, TypeOK
<1>4. sessions' = sessions \/ (~ Has(sid[q]) /\ InsertSession(sid[q]))
  BY DEF Start
<1>5. sessions' = sessions \/ (sid[q] \in deleted /\ \A r \in Sid \ {sid[q]} : sessions'[r] = sessions[r])
  BY <1>1, <1>4 DEF LogInv, AbsentInv, InsertSession
<1> QED
  BY <1>1, <1>2, <1>3, <1>5, NotBringing DEF Early, Runs

\* A session is created or deleted: who was in it does not count on it any more, and
\* who comes to it later finds a new one.
LEMMA CutBrought ==
    ASSUME TypeInv, LogInv, BroughtInv, NEW q \in Request, NEW p \in Request \ {q}, CutBy(q, sid[q]),
           UNCHANGED <<sid[p], told[p], live[p], pc[p], kind[p]>>, sessions'[sid[q]].session = NewSession,
           \A r \in Sid \ {sid[q]} : sessions'[r] = sessions[r] /\ (r \in deleted <=> r \in deleted')
    PROVE  Brought(p)'
<1>1. Brought(p) /\ ToldInv /\ sid[p] \in Sid
  BY DEF BroughtInv, LogInv, TypeInv, TypeOK
<1>2. CASE sid[p] = sid[q] /\ pc[p] \in {"new", "look"}
  <2>1. Log(p)' = <<>> /\ live[p].events = <<>>
    BY <1>1, <1>2, SessionFacts DEF Log, Brought
  <2> QED
    BY <1>2, <2>1, BroughtNew DEF Early
<1>3. CASE sid[p] = sid[q] /\ pc[p] \notin {"new", "look"}
  <2>1. cut'[p]
    BY <1>3 DEF CutBy
  <2> QED
    BY <1>1, <2>1, BroughtFrame
<1>4. CASE sid[p] # sid[q]
  <2>1. Log(p)' = Log(p) /\ cut'[p] = cut[p] /\ (sid[p] \in deleted <=> sid[p] \in deleted')
    BY <1>1, <1>4 DEF Log, CutBy, TypeInv, TypeOK
  <2> QED
    BY <1>1, <2>1, BroughtFrame
<1> QED
  BY <1>2, <1>3, <1>4

LEMMA CreateBrought ==
    ASSUME TypeInv, LogInv, BroughtInv, NEW q \in Request,
           \/ Arrive(q) \/ CreateLook(q) \/ CreateInsert(q) \/ Import(q) \/ Imported(q) \/ DeleteIt(q)
    PROVE  BroughtInv'
<1>1. /\ sessions \in [Sid -> Slot] /\ sid[q] \in Sid /\ live \in [Request -> Session]
      /\ NewSession.events = <<>> /\ Brought(q) /\ sid' = sid
  BY SessionFacts DEF TypeInv, TypeOK, BroughtInv, Arrive, CreateLook, CreateInsert, Import, Imported, DeleteIt
<1>2. \A p \in Request \ {q} : pc'[p] = pc[p] /\ told'[p] = told[p] /\ live'[p] = live[p] /\ kind'[p] = kind[p]
  BY DEF Arrive, CreateLook, CreateInsert, Import, Imported, DeleteIt, Asked, AppendTo, Refuse, Answer, To,
         TypeInv, TypeOK
<1>3. ASSUME \/ Arrive(q) \/ CreateLook(q)
             \/ CreateInsert(q) /\ Refuse(q) /\ UNCHANGED <<sessionVars, cut>>
      PROVE  BroughtInv'
  <2>1. UNCHANGED <<sessions, deleted, cut>> /\ told' = told
    <3>1. Refuse(q) => told' = told
      BY DEF Refuse, Answer, TypeInv, TypeOK
    <3> QED
      BY <1>3, <3>1 DEF Arrive, CreateLook, sessionVars
  <2>2. pc[q] \in {"new", "look", "insert"} /\ pc'[q] \in {"look", "insert", "answered"}
    BY <1>3 DEF Arrive, CreateLook, CreateInsert, Asked, Refuse, Answer, To, TypeInv, TypeOK
  <2>3. live'[q].events = <<>>
    <3>1. live[q].events = <<>>
      BY <1>1, <2>2 DEF Brought
    <3>2. live' = live \/ live'[q] = NewSession
      BY <1>1, <1>3 DEF Arrive, CreateLook, Refuse, Answer
    <3> QED
      BY <1>1, <3>1, <3>2
  <2>4. Brought(q)'
    BY <1>1, <2>1, <2>2, <2>3, NothingBrought
  <2>5. \A p \in Request \ {q} : Brought(p)'
    BY <1>1, <1>2, <2>1, OthersBrought
  <2> QED
    BY <2>4, <2>5 DEF BroughtInv
<1>4. CASE /\ CreateInsert(q) /\ InsertSession(sid[q]) /\ CutBy(q, sid[q]) /\ deleted' = deleted \ {sid[q]}
           /\ To(q, "import") /\ UNCHANGED <<live, told>>
  <2>1. /\ sessions'[sid[q]].session = NewSession /\ Log(q)' = <<>>
        /\ \A r \in Sid \ {sid[q]} : sessions'[r] = sessions[r] /\ (r \in deleted <=> r \in deleted')
    BY <1>1, <1>4 DEF InsertSession, Log
  <2>2. pc'[q] = "import" /\ live'[q].events = <<>>
    BY <1>1, <1>4 DEF CreateInsert, Asked, To, Brought, TypeInv, TypeOK
  <2>3. Brought(q)'
    BY <2>1, <2>2, BroughtNew DEF Early
  <2>4. \A p \in Request \ {q} : Brought(p)'
    BY <1>1, <1>2, <1>4, <2>1, CutBrought
  <2> QED
    BY <2>3, <2>4 DEF BroughtInv
<1>5. CASE DeleteIt(q)
  <2>1. /\ kind'[q] = "delete" /\ pc'[q] = "answered" /\ CutBy(q, sid[q])
        /\ sessions' = [sessions EXCEPT ![sid[q]] = NoSlot] /\ deleted' = deleted \cup {sid[q]}
    BY <1>5 DEF DeleteIt, Asked, Answer, To, DeleteSession, TypeInv, TypeOK
  <2>2. /\ sessions'[sid[q]].session = NewSession
        /\ \A r \in Sid \ {sid[q]} : sessions'[r] = sessions[r] /\ (r \in deleted <=> r \in deleted')
    BY <1>1, <2>1 DEF NoSlot
  <2>3. Brought(q)'
    BY <2>1, NoneBrought DEF Early
  <2>4. \A p \in Request \ {q} : Brought(p)'
    BY <1>1, <1>2, <2>1, <2>2, CutBrought
  <2> QED
    BY <2>3, <2>4 DEF BroughtInv
<1>6. CASE Import(q)
  <2>1. Brought(q)'
    BY <1>6, ImportBrought
  <2>2. UNCHANGED <<deleted, cut>> /\ \E n \in {0, 1} : MirrorEvent(sid[q], ApplyEvent(live[q], <<q, n>>), <<q, n>>)
    BY <1>6 DEF Import, AppendTo
  <2>3. \E s \in Session, n \in 0 .. MaxEvents + 1 : MirrorEvent(sid[q], s, <<q, n>>)
    <3>1. \A e \in Event : ApplyEvent(live[q], e) \in Session
      BY <1>1, AppendSessionFacts
    <3>2. \A n \in {0, 1} : n \in 0 .. MaxEvents + 1 /\ <<q, n>> \in Event
      BY EventFacts
    <3> QED
      BY <2>2, <3>1, <3>2
  <2>4. \A p \in Request \ {q} : Brought(p)'
    BY <1>1, <1>2, <2>2, <2>3, OthersBrought
  <2> QED
    BY <2>1, <2>4 DEF BroughtInv
<1>7. CASE Imported(q)
  <2>1. /\ UNCHANGED <<sessions, deleted, cut, kind>> /\ kind[q] = "create" /\ pc[q] = "import"
        /\ pc'[q] = "answered" /\ told'[q] = live[q].events
    BY <1>7 DEF Imported, Asked, Answer, To, sessionVars, TypeInv, TypeOK
  <2>2. Brings(q)' = Brings(q) /\ Log(q)' = Log(q)
    BY <1>1, <2>1 DEF Brings, Early, Log
  <2>3. Brought(q)'
    BY <1>1, <2>1, <2>2 DEF Brought, Early, HasImported
  <2>4. \A p \in Request \ {q} : Brought(p)'
    BY <1>1, <1>2, <2>1, OthersBrought
  <2> QED
    BY <2>3, <2>4 DEF BroughtInv
<1> QED
  BY <1>3, <1>4, <1>5, <1>6, <1>7 DEF CreateInsert

LEMMA InitBrought == Init => BroughtInv
<1> SUFFICES ASSUME Init, NEW q \in Request PROVE Brought(q)
  BY DEF BroughtInv
<1>1. pc[q] = "new" /\ kind[q] = "none" /\ live[q].events = <<>>
  BY SessionFacts DEF Init
<1>2. Log(q) = <<>>
  <2>1. sid[q] \in Sid /\ sessions[sid[q]] \in {NoSlot, [NoSlot EXCEPT !.present = TRUE]}
    BY InitTypes, LogTyped DEF Init
  <2>2. sessions[sid[q]].session = NewSession
    BY <2>1 DEF NoSlot
  <2> QED
    BY <2>2, SessionFacts DEF Log
<1>3. Selected(<<>>, Range(<<>>)) = <<>> /\ WithoutRepeats(<<>>) = <<>>
  <2>1. <<>> \in Seq({}) /\ NoDuplicates(<<>>)
    BY DEF NoDuplicates
  <2> QED
    BY <2>1, SelectedOfNothing, WithoutRepeatsSame
<1>4. (\A i \in 1 .. Len(<<>>) : FALSE) /\ \A x : ~ Contains(<<>>, x)
  BY DEF Contains
<1> QED
  BY <1>1, <1>2, <1>3, <1>4 DEF Brought, Early, Brings

LEMMA NextBrought == TypeInv /\ LogInv /\ BroughtInv /\ [Next]_vars => BroughtInv'
<1> SUFFICES ASSUME TypeInv, LogInv, BroughtInv, [Next]_vars PROVE BroughtInv'
  OBVIOUS
<1>1. ASSUME UNCHANGED <<sessionVars, kind, sid, live, told, cut, pc>> PROVE BroughtInv'
  <2> SUFFICES ASSUME NEW q \in Request PROVE Brought(q)'
    BY DEF BroughtInv
  <2>1. UNCHANGED <<sessions, deleted, kind, sid, live, told, cut, pc>>
    BY <1>1 DEF sessionVars
  <2>2. Brought(q) /\ Brings(q)' = Brings(q) /\ Log(q)' = Log(q) /\ (HasImported(q)' <=> HasImported(q))
    BY <2>1 DEF BroughtInv, Brings, Log, HasImported
  <2> QED
    BY <2>1, <2>2 DEF Brought
<1>2. ASSUME NEW q \in Request, NEW v \in 1 .. MaxVersion, Removes(q, v) PROVE BroughtInv'
  BY <1>1, <1>2 DEF Removes, Forget
<1>3. ASSUME NEW q \in Request, FileStep(q), UNCHANGED <<sessionVars, requestVars, tellVars>> PROVE BroughtInv'
  BY <1>1, <1>3 DEF requestVars
<1>4. CASE UNCHANGED vars
  BY <1>1, <1>4 DEF vars, requestVars
<1> QED
  BY <1>2, <1>3, <1>4, QuietBrought, AppendBrought, StartBrought, CreateBrought DEF Next, RunStep

\* What a client has been told of (the events of its run, the event of its patch, the
\* events it imported) is in the session, once and in that order, whatever other
\* requests append, unless the session was deleted or created under the request.
THEOREM ToldEventsAreStored == Spec => []ToldIsStored
<1>1. TypeInv /\ LogInv /\ BroughtInv => ToldIsStored
  <2> SUFFICES ASSUME TypeInv, LogInv, BroughtInv, NEW q \in Request, ~ cut[q], sid[q] \notin deleted
               PROVE  WithoutRepeats(told[q]) = Selected(Log(q), Range(told[q]))
    BY DEF ToldIsStored, Log
  <2>1. Told(q) /\ Stored(q) /\ Brought(q) /\ told[q] \in Seq(Event) /\ pc[q] \in Places
    BY DEF LogInv, ToldInv, StoredInv, BroughtInv, TypeInv, TypeOK
  <2>2. CASE HasImported(q)
    BY <2>1, <2>2 DEF Brought, HasImported, Brings, Early
  <2>3. CASE ~ HasImported(q)
    <3>1. told[q] = Selected(Log(q), Range(told[q]))
      BY <2>1, <2>3 DEF Stored
    <3>2. NoDuplicates(told[q])
      BY <2>1, <2>3, OwnOnce DEF Told, HasImported, Begun
    <3> QED
      BY <2>1, <3>1, <3>2, WithoutRepeatsSame
  <2> QED
    BY <2>2, <2>3
<1>2. Spec => []TypeInv
  BY InitTypes, NextTypes, PTL DEF Spec
<1> QED
  BY <1>1, <1>2, InitLog, NextLog, InitBrought, NextBrought, PTL DEF Spec

-----------------------------------------------------------------------------
(* An announced artifact can be loaded.                                    *)

\* A file that a save has made is one of the versions.
LEMMA FileIsVersion ==
    ASSUME NEW n \in Name, NEW v \in 1 .. MaxVersion, NEW e \in Event, NEW b, files[n][v] = [ino |-> e, body |-> b]
    PROVE  v \in Versions(n)
BY EventFacts DEF Versions, Absent

\* The save, the event and the announcement of a version have their types.
LEMMA HeldTypes ==
    ASSUME TypeInv
    PROVE  /\ \A q \in Request : pc[q] = "save" =>
                 /\ <<q, made[q] + 1>> \in Event /\ job[q].name \in Name /\ job[q].body = <<q, made[q] + 1>>
                 /\ result[q].is = "saved" => result[q].version \in 1 .. MaxVersion
           /\ \A e \in Event : delta[e] # NoDelta => delta[e][1] \in Name /\ delta[e][2] \in 1 .. MaxVersion
           /\ \A a \in announced : a.name \in Name /\ a.version \in 1 .. MaxVersion /\ a.body \in Event
           /\ \A q \in Request : \A a \in hope[q] : a.name \in Name /\ a.version \in 1 .. MaxVersion /\ a.body \in Event
<1>1. ASSUME NEW q \in Request, pc[q] = "save"
      PROVE  /\ <<q, made[q] + 1>> \in Event /\ job[q].name \in Name /\ job[q].body = <<q, made[q] + 1>>
             /\ result[q].is = "saved" => result[q].version \in 1 .. MaxVersion
  <2>1. Job(q)
    BY DEF TypeInv, JobInv
  <2> QED
    BY <1>1, <2>1, OwnEvents DEF Job
<1>2. \A e \in Event : delta[e] # NoDelta => delta[e][1] \in Name /\ delta[e][2] \in 1 .. MaxVersion
  <2>1. \A e \in Event : delta[e] \in (Name \X (1 .. MaxVersion)) \cup {NoDelta}
    BY DEF TypeInv, TypeOK
  <2> QED
    BY <2>1
<1>3. announced \subseteq Announcement /\ \A q \in Request : hope[q] \subseteq Announcement
  BY DEF TypeInv, TypeOK
<1> QED
  BY <1>1, <1>2, <1>3 DEF Announcement

\* What a step of request q leaves of the others, when it takes no version away.
LEMMA KeptFrame ==
    ASSUME TypeInv, KeptInv, NEW q \in Request, backend' = backend, overlapped \subseteq overlapped',
           \A n \in Name \ overlapped' : \A v \in 1 .. MaxVersion : \A e \in Event :
                IsFile(n, v, e, e) => IsFile(n, v, e, e)',
           \A n \in Name : Versions(n) \subseteq Versions(n)',
           stale' = stale, announced \subseteq announced',
           \A p \in Request \ {q} : UNCHANGED Local(p) /\ hope'[p] = hope[p]
    PROVE  /\ \A p \in Request \ {q} : SaveHeld(p)' /\ LoadHeld(p)'
           /\ \A e \in Event : delta'[e] = delta[e] => EventHeld(e)'
           /\ \A a \in announced : Whole(a.name, a.version, a.body)'
<1>1. \A n \in Name, v \in 1 .. MaxVersion, e \in Event : Whole(n, v, e) => Whole(n, v, e)'
  BY DEF Whole
<1>2. ASSUME NEW p \in Request \ {q} PROVE SaveHeld(p)'
  <2> SUFFICES ASSUME pc'[p] = "save", <<p, made'[p] + 1>> \notin stale'
               PROVE  /\ at'[p] = "write" /\ job'[p].name \notin overlapped' =>
                            job'[p].version \in Versions(job[p].name)'
                      /\ at'[p] = "idle" /\ result'[p].is = "saved" =>
                            Whole(job[p].name, result[p].version, <<p, made[p] + 1>>)'
    BY DEF SaveHeld, Local, Whole, IsFile, Versions
  <2>1. pc[p] = "save" /\ made'[p] = made[p] /\ at'[p] = at[p] /\ job'[p] = job[p] /\ result'[p] = result[p]
    BY DEF Local
  <2>2. SaveHeld(p)
    BY DEF KeptInv, SavedInv
  <2>3. /\ <<p, made[p] + 1>> \in Event /\ job[p].name \in Name
        /\ result[p].is = "saved" => result[p].version \in 1 .. MaxVersion
    BY <2>1, HeldTypes
  <2> QED
    BY <1>1, <2>1, <2>2, <2>3 DEF SaveHeld
<1>3. ASSUME NEW p \in Request \ {q} PROVE LoadHeld(p)'
  <2>1. LoadHeld(p)
    BY DEF KeptInv, LoadInv
  <2>2. pc'[p] = pc[p] /\ at'[p] = at[p] /\ job'[p] = job[p] /\ result'[p] = result[p] /\ hope'[p] = hope[p]
    BY DEF Local
  <2>3. \A a \in hope[p] : Finds(p, a) => Finds(p, a)'
    BY <2>2 DEF Finds
  <2>4. \A a \in hope[p] : Versions(a.name) \subseteq Versions(a.name)'
    BY HeldTypes
  <2> QED
    BY <2>1, <2>2, <2>3, <2>4 DEF LoadHeld
<1>4. ASSUME NEW e \in Event, delta'[e] = delta[e] PROVE EventHeld(e)'
  <2>1. EventHeld(e) /\ (delta[e] # NoDelta => delta[e][1] \in Name /\ delta[e][2] \in 1 .. MaxVersion)
    BY HeldTypes DEF KeptInv, SavedInv
  <2>2. delta[e] # NoDelta /\ Whole(delta[e][1], delta[e][2], e) => Whole(delta[e][1], delta[e][2], e)'
    <3> SUFFICES ASSUME delta[e] # NoDelta, Whole(delta[e][1], delta[e][2], e)
                 PROVE  delta[e][1] \notin overlapped' => files'[delta[e][1]][delta[e][2]] = [ino |-> e, body |-> e]
      BY <1>4 DEF Whole, IsFile
    <3> QED
      BY <1>1, <2>1 DEF Whole, IsFile
  <2> QED
    BY <1>4, <2>1, <2>2 DEF EventHeld
<1>5. ASSUME NEW a \in announced PROVE Whole(a.name, a.version, a.body)'
  BY <1>1, HeldTypes DEF KeptInv, SavedInv
<1> QED
  BY <1>2, <1>3, <1>4, <1>5

\* A step after which request q writes nothing, or goes on as it was: to a name that
\* another one writes to it at most takes versions away.
WritesOn(n) == \A v \in 1 .. MaxVersion : files'[n][v] \in {files[n][v], Absent}

LEMMA WriterFrame ==
    ASSUME TypeInv, KeptInv, NEW q \in Request, overlapped \subseteq overlapped',
           \A p \in Request \ {q} : UNCHANGED Local(p),
           at'[q] \notin {"open", "write"} \/ UNCHANGED <<at[q], job[q]>>,
           \A n \in Name \ overlapped' :
                (Writers(n) \subseteq {q} /\ at'[q] \notin {"open", "write"}) \/ WritesOn(n)
    PROVE  \A n \in Name \ overlapped' : OneWriter(n)'
<1> SUFFICES ASSUME NEW n \in Name \ overlapped', NEW c \in Writers(n)'
             PROVE  /\ Writers(n)' = {c}
                    /\ at'[c] = "open" => \A v \in Versions(n)' : v < job'[c].version
                    /\ at'[c] = "write" => /\ job'[c].ino = job'[c].body
                                           /\ job'[c].version \in Versions(n)' =>
                                                files'[n][job'[c].version] = [ino |-> job'[c].body, body |-> Torn]
  BY DEF OneWriter, IsFile
<1>1. \A p \in Writers(n)' : p \in Writers(n) /\ p \in Request /\ at'[p] = at[p] /\ job'[p] = job[p] /\ at'[p] \in {"open", "write"}
  BY EventFacts DEF Writers, Local
<1>2. OneWriter(n) /\ c \in Writers(n)
  BY <1>1 DEF KeptInv, FileInv
<1>3. Writers(n) = {c} /\ Writers(n)' = {c}
  BY <1>1, <1>2 DEF OneWriter
<1>4. WritesOn(n)
  BY <1>1, <1>2
<1>5. Versions(n)' \subseteq Versions(n) /\ \A v \in Versions(n)' : files'[n][v] = files[n][v]
  BY <1>4 DEF Versions, WritesOn
<1> QED
  BY <1>1, <1>2, <1>3, <1>5 DEF OneWriter, IsFile

\* A step of request q that leaves the artifacts alone, or drops its call.
LEMMA KeptElsewhere ==
    ASSUME TypeInv, KeptInv, NEW q \in Request, UNCHANGED artifactVars \/ Abandon(q),
           pc'[q] \notin {"save", "load"}, stale' = stale, announced \subseteq announced', hope' = hope,
           \A a \in announced' \ announced : Whole(a.name, a.version, a.body),
           \A e \in Event : delta'[e] = delta[e] \/ (e \notin stale /\ delta'[e] # NoDelta => Whole(delta'[e][1], delta'[e][2], e)),
           \A p \in Request \ {q} : pc'[p] = pc[p] /\ made'[p] = made[p]
    PROVE  KeptInv'
<1>1. /\ UNCHANGED <<backend, overlapped, files, kept, job, result>>
      /\ at'[q] \notin {"open", "write"} \/ at'[q] = at[q]
      /\ \A p \in Request \ {q} : at'[p] = at[p]
  BY EventFacts DEF artifactVars, Abandon, Go, TypeInv, TypeOK, ArtifactTypeOK
<1>2. \A p \in Request \ {q} : UNCHANGED Local(p) /\ hope'[p] = hope[p]
  BY <1>1 DEF Local
<1>3. /\ \A p \in Request \ {q} : SaveHeld(p)' /\ LoadHeld(p)'
      /\ \A e \in Event : delta'[e] = delta[e] => EventHeld(e)'
      /\ \A a \in announced : Whole(a.name, a.version, a.body)'
  <2>1. /\ \A n \in Name \ overlapped' : \A v \in 1 .. MaxVersion : \A e \in Event :
                IsFile(n, v, e, e) => IsFile(n, v, e, e)'
        /\ \A n \in Name : Versions(n) \subseteq Versions(n)'
    BY <1>1 DEF IsFile, Versions
  <2> QED
    BY <1>1, <1>2, <2>1, KeptFrame
<1>4. \A n \in Name \ overlapped' : OneWriter(n)'
  BY <1>1, <1>2, WriterFrame DEF WritesOn
<1>5. FileInv'
  BY <1>1, <1>4 DEF KeptInv, FileInv, Versions
<1>6. SaveHeld(q)' /\ LoadHeld(q)'
  BY DEF SaveHeld, LoadHeld, KeptInv, LoadInv
<1>7. \A e \in Event : EventHeld(e)'
  BY <1>1, <1>3 DEF EventHeld, Whole, IsFile
<1>8. \A a \in announced' : Whole(a.name, a.version, a.body)'
  BY <1>1, <1>3 DEF Whole, IsFile
<1> QED
  BY <1>3, <1>5, <1>6, <1>7, <1>8 DEF KeptInv, SavedInv, LoadInv

\* What the events of a list announce has been saved.
LEMMA AnnouncesWhole ==
    ASSUME TypeInv, KeptInv, NEW events \in Seq(Event)
    PROVE  \A a \in Announces(events) : Whole(a.name, a.version, a.body)
<1>1. Range(events) \subseteq Event
  BY DEF Range
<1>2. \A e \in Event \ stale : delta[e] # NoDelta => Whole(delta[e][1], delta[e][2], e)
  BY DEF KeptInv, SavedInv, EventHeld
<1> QED
  BY <1>1, <1>2 DEF Announces

LEMMA ElsewhereSteps ==
    ASSUME TypeInv, KeptInv, NEW q \in Request,
           \/ Arrive(q) \/ CreateLook(q) \/ CreateInsert(q) \/ Import(q) \/ Imported(q) \/ Look(q) \/ Patch(q) \/ DeleteIt(q)
           \/ RunStep(q) /\ ~ \E n \in Name : ToolSaves(q, n)
           \/ Loaded(q) \/ Deleted(q)
    PROVE  KeptInv'
<1>1. pc \in [Request -> Places] /\ made \in [Request -> 1 .. MaxEvents + 1] /\ Job(q)
      /\ delta \in [Event -> (Name \X (1 .. MaxVersion)) \cup {NoDelta}]
  BY DEF TypeInv, TypeOK, JobInv
<1>2. CASE Arrive(q) \/ CreateLook(q) \/ CreateInsert(q) \/ Import(q) \/ Imported(q) \/ Look(q) \/ Patch(q) \/ DeleteIt(q)
           \/ StateDelta(q) \/ Start(q) \/ Begin(q) \/ Fails(q) \/ Disconnect(q) \/ Loaded(q) \/ Deleted(q)
  <2>1. UNCHANGED <<made, delta, stale, announced, hope>>
    BY <1>2 DEF Arrive, CreateLook, CreateInsert, Import, Imported, Look, Patch, DeleteIt, StateDelta, Start, Begin, Fails,
                Disconnect, Loaded, Deleted, tellVars
  <2>2. UNCHANGED artifactVars \/ Abandon(q)
    BY <1>2 DEF Arrive, CreateLook, CreateInsert, Import, Imported, Look, Patch, DeleteIt, StateDelta, Start, Begin,
                Fails, Disconnect, Loaded, Deleted, Asked
  <2>3. pc'[q] \notin {"save", "load"} /\ \A p \in Request \ {q} : pc'[p] = pc[p]
    BY <1>1, <1>2 DEF Arrive, CreateLook, CreateInsert, Import, Imported, Look, Patch, DeleteIt, StateDelta, Start, Begin, Fails,
                Disconnect, Loaded, Deleted, Asked, Answer, Refuse, To
  <2> QED
    BY <2>1, <2>2, <2>3, KeptElsewhere
<1>3. CASE Frame(q) \/ End(q)
  <2>1. PICK events \in Seq(Event) : announced' = announced \cup Announces(events)
    <3>1. Own(q) \in Seq(Event) /\ told[q] \in Seq(Event)
      BY OwnEvents
    <3> QED
      BY <1>3, <3>1 DEF Frame, End, Own
  <2>2. /\ UNCHANGED <<made, delta, stale, hope>> /\ UNCHANGED artifactVars /\ pc'[q] \notin {"save", "load"}
        /\ \A p \in Request \ {q} : pc'[p] = pc[p]
    BY <1>1, <1>3 DEF Frame, End, Answer, To
  <2> QED
    BY <2>1, <2>2, AnnouncesWhole, KeptElsewhere
<1>4. CASE Emit(q)
  <2> DEFINE e == <<q, made[q] + 1>>
  <2>1. /\ UNCHANGED <<stale, hope, announced>> /\ UNCHANGED artifactVars /\ pc'[q] \notin {"save", "load"}
        /\ \A p \in Request \ {q} : pc'[p] = pc[p] /\ made'[p] = made[p]
        /\ at[q] = "idle" /\ delta' = [delta EXCEPT ![e] = Delta(q)] /\ made[q] <= MaxEvents
    BY <1>1, <1>4 DEF Emit, To
  <2>2. e \in Event
    BY <2>1, OwnEvents
  <2>3. e \notin stale /\ Delta(q) # NoDelta => Whole(Delta(q)[1], Delta(q)[2], e)
    <3>1. SaveHeld(q)
      BY DEF KeptInv, SavedInv
    <3>2. Delta(q) # NoDelta => /\ pc[q] = "save" /\ result[q].is = "saved"
                                /\ Delta(q)[1] = job[q].name /\ Delta(q)[2] = result[q].version
      BY DEF Delta
    <3> QED
      BY <2>1, <3>1, <3>2 DEF SaveHeld
  <2>4. \A x \in Event : delta'[x] = IF x = e THEN Delta(q) ELSE delta[x]
    BY <1>1, <2>1, <2>2
  <2>5. \A x \in Event : delta'[x] = delta[x] \/ (x \notin stale /\ delta'[x] # NoDelta => Whole(delta'[x][1], delta'[x][2], x))
    BY <2>3, <2>4
  <2> QED
    BY <2>1, <2>5, KeptElsewhere
<1> QED
  BY <1>2, <1>3, <1>4 DEF RunStep

\* A step of the artifact service for request q that takes no version away, after which
\* the request does not write.
LEMMA ServiceStep ==
    ASSUME TypeInv, KeptInv, NEW q \in Request, backend' = backend, overlapped \subseteq overlapped',
           at'[q] \notin {"open", "write"}, stale' = stale, announced' = announced, delta' = delta,
           \A p \in Request \ {q} : UNCHANGED Local(p) /\ hope'[p] = hope[p],
           \A n \in Name \ overlapped' : Writers(n) \subseteq {q} \/ files'[n] = files[n],
           \A n \in Name : Versions(n) \subseteq Versions(n)',
           \A n \in Name \ overlapped' : \A v \in 1 .. MaxVersion : \A e \in Event :
                IsFile(n, v, e, e) => IsFile(n, v, e, e)',
           \A n \in Name : Versions(n)' # {} => n \in kept',
           backend = "memory" => \A n \in Name : \A v \in Versions(n)' : files'[n][v].body \in Event,
           SaveHeld(q)', LoadHeld(q)'
    PROVE  KeptInv'
<1>1. /\ \A p \in Request \ {q} : SaveHeld(p)' /\ LoadHeld(p)'
      /\ \A e \in Event : EventHeld(e)'
      /\ \A a \in announced' : Whole(a.name, a.version, a.body)'
  BY KeptFrame
<1>2. \A n \in Name \ overlapped' : OneWriter(n)'
  BY WriterFrame DEF WritesOn
<1>3. FileInv'
  BY <1>2 DEF FileInv
<1> QED
  BY <1>1, <1>3 DEF KeptInv, SavedInv, LoadInv

LEMMA MakeDirKept ==
    ASSUME TypeInv, KeptInv, NEW q \in Request, MakeDir(q), UNCHANGED <<requestVars, tellVars>>
    PROVE  KeptInv'
<1>1. /\ at[q] \in {"mkdir", "dropped"} /\ at'[q] = (IF at[q] = "mkdir" THEN "scan" ELSE "idle") /\ kept \subseteq kept'
      /\ UNCHANGED <<backend, files, job, result, overlapped, pc, made, hope, stale, delta, announced>>
      /\ \A p \in Request \ {q} : at'[p] = at[p]
  BY EventFacts DEF MakeDir, Go, requestVars, tellVars, TypeInv, TypeOK, ArtifactTypeOK
<1>2. Job(q) /\ FileInv /\ LoadHeld(q)
  BY DEF TypeInv, JobInv, KeptInv, LoadInv
<1>3. \A p \in Request \ {q} : UNCHANGED Local(p) /\ hope'[p] = hope[p]
  BY <1>1 DEF Local
<1>4. /\ \A n \in Name : Versions(n)' = Versions(n) /\ files'[n] = files[n]
      /\ \A n \in Name, v \in 1 .. MaxVersion, e \in Event : IsFile(n, v, e, e) => IsFile(n, v, e, e)'
  BY <1>1 DEF Versions, IsFile
<1>5. SaveHeld(q)'
  BY <1>1, <1>2 DEF SaveHeld, Job
<1>6. LoadHeld(q)'
  BY <1>1, <1>2 DEF LoadHeld, Job
<1> QED
  BY <1>1, <1>2, <1>3, <1>4, <1>5, <1>6, ServiceStep DEF FileInv

LEMMA RemoveDirKept ==
    ASSUME TypeInv, KeptInv, NEW q \in Request, RemoveDir(q), UNCHANGED <<requestVars, tellVars>>
    PROVE  KeptInv'
<1>1. /\ at' = [at EXCEPT ![q] = "idle"] /\ at'[q] = "idle" /\ at[q] = "rmdir" /\ Job(q)
      /\ UNCHANGED <<backend, files, job, overlapped, pc, made, hope, stale, delta, announced>>
      /\ \A p \in Request \ {q} : at'[p] = at[p] /\ result'[p] = result[p]
      /\ (kept' = kept \/ (Versions(job[q].name) = {} /\ kept' = kept \ {job[q].name}))
  <2>1. /\ at[q] = "rmdir" /\ Job(q)
        /\ UNCHANGED <<backend, files, job, overlapped, pc, made, hope, stale, delta, announced>>
    BY DEF RemoveDir, requestVars, tellVars, TypeInv, JobInv
  <2>4. kept' = kept \/ (Versions(job[q].name) = {} /\ kept' = kept \ {job[q].name})
    BY DEF RemoveDir
  <2>2. PICK r \in {Nothing, Failed} : Return(q, r)
    BY DEF RemoveDir
  <2>3. /\ at' = [at EXCEPT ![q] = "idle"] /\ at'[q] = "idle"
        /\ \A p \in Request \ {q} : at'[p] = at[p] /\ result'[p] = result[p]
    BY <2>2, EventFacts DEF Return, Go, TypeInv, TypeOK, ArtifactTypeOK
  <2> QED
    BY <2>1, <2>3, <2>4
<1>2. pc[q] = "delete" /\ FileInv /\ LoadHeld(q)
  BY <1>1 DEF Job, KeptInv, LoadInv
<1>3. \A p \in Request \ {q} : UNCHANGED Local(p) /\ hope'[p] = hope[p]
  BY <1>1 DEF Local
<1>4. /\ \A n \in Name : Versions(n)' = Versions(n) /\ files'[n] = files[n]
      /\ \A n \in Name, v \in 1 .. MaxVersion, e \in Event : IsFile(n, v, e, e) => IsFile(n, v, e, e)'
  BY <1>1 DEF Versions, IsFile
<1>5. SaveHeld(q)'
  BY <1>1, <1>2 DEF SaveHeld
<1>6. LoadHeld(q)'
  BY <1>1, <1>2 DEF LoadHeld
<1> QED
  BY <1>1, <1>2, <1>3, <1>4, <1>5, <1>6, ServiceStep DEF FileInv

\* What a load that has found a version reads: that version, or, while a save writes a
\* newer one, an error.
LEMMA ReadKept ==
    ASSUME TypeInv, KeptInv, NEW q \in Request, Read(q), UNCHANGED <<requestVars, tellVars>>
    PROVE  KeptInv'
<1> DEFINE n == job[q].name
           v == job[q].version
<1>1. /\ at[q] = "read" /\ Job(q)
      /\ UNCHANGED <<backend, files, job, kept, overlapped, pc, made, hope, stale, delta, announced>>
  BY DEF Read, requestVars, tellVars, TypeInv, JobInv
<1>2. PICK r \in {Content(n, v), Failed} : Return(q, r) /\ (r = Failed => Content(n, v) \in {Nothing, Failed})
  BY DEF Read
<1>3. /\ at'[q] = "idle" /\ result'[q] = r
      /\ \A p \in Request \ {q} : at'[p] = at[p] /\ result'[p] = result[p]
  BY <1>2, EventFacts DEF Return, Go, TypeInv, TypeOK, ArtifactTypeOK
<1>4. pc[q] = "load" /\ FileInv /\ LoadHeld(q)
  BY <1>1 DEF Job, KeptInv, LoadInv
<1>5. \A p \in Request \ {q} : UNCHANGED Local(p) /\ hope'[p] = hope[p]
  BY <1>1, <1>3 DEF Local
<1>6. /\ \A m \in Name : Versions(m)' = Versions(m) /\ files'[m] = files[m]
      /\ \A m \in Name, w \in 1 .. MaxVersion, e \in Event : IsFile(m, w, e, e) => IsFile(m, w, e, e)'
  BY <1>1 DEF Versions, IsFile
<1>7. SaveHeld(q)'
  BY <1>1, <1>4 DEF SaveHeld
<1>8. ASSUME NEW a \in hope[q], a.name \notin overlapped PROVE Finds(q, a)'
  <2>1. /\ n = a.name /\ v >= a.version /\ v \in Versions(n) /\ backend = "files"
        /\ a \in announced /\ a.name \in Name /\ a.version \in 1 .. MaxVersion /\ a.body \in Event
    BY <1>1, <1>4, <1>8, HeldTypes DEF LoadHeld
  <2>2. IsFile(n, a.version, a.body, a.body)
    BY <1>8, <2>1 DEF KeptInv, SavedInv, Whole
  <2>3. files[n][v] # Absent /\ v \in 1 .. MaxVersion
    BY <2>1 DEF Versions
  <2>4. CASE v = a.version
    <3>1. Content(n, v) = Returned("part", v, a.body)
      BY <2>1, <2>2, <2>3, <2>4, EventFacts DEF IsFile, Content
    <3>2. r = Returned("part", v, a.body)
      BY <1>2, <3>1 DEF Failed, Nothing, Returned
    <3> QED
      BY <1>3, <2>4, <3>2 DEF Finds, Returned
  <2>5. CASE v # a.version
    <3>1. v > a.version
      BY <2>1, <2>3, <2>5
    <3>2. r = Failed \/ r = Returned("part", v, files[n][v].body)
      BY <1>2, <2>3 DEF Content
    <3> QED
      BY <1>1, <1>3, <2>1, <3>1, <3>2 DEF Finds, Failed, Returned
  <2> QED
    BY <2>4, <2>5
<1>9. LoadHeld(q)'
  BY <1>1, <1>3, <1>4, <1>8 DEF LoadHeld
<1> QED
  BY <1>1, <1>3, <1>4, <1>5, <1>6, <1>7, <1>9, ServiceStep DEF FileInv

\* The version after the latest one is new, and nobody else writes to the name, unless
\* the step makes it a name two saves have run over each other on.
LEMMA ScanKept ==
    ASSUME TypeInv, KeptInv, NEW q \in Request, Scan(q), UNCHANGED <<requestVars, tellVars>>
    PROVE  KeptInv'
<1> DEFINE n == job[q].name
           next == Latest(n) + 1
<1>1. /\ at[q] = "scan" /\ Job(q) /\ n \in Name
      /\ UNCHANGED <<backend, files, kept, pc, made, hope, stale, delta, announced>>
      /\ overlapped' = IF Writers(n) # {} THEN overlapped \cup {n} ELSE overlapped
  BY DEF Scan, ScanWith, requestVars, tellVars, TypeInv, JobInv, Job
<1>2. /\ pc[q] = "save" /\ FileInv /\ SaveHeld(q) /\ LoadHeld(q) /\ overlapped \subseteq overlapped'
  BY <1>1 DEF Job, KeptInv, LoadInv, SavedInv
<1>3. /\ \A m \in Name : Versions(m)' = Versions(m) /\ files'[m] = files[m]
      /\ \A m \in Name, w \in 1 .. MaxVersion, e \in Event : IsFile(m, w, e, e) => IsFile(m, w, e, e)'
  BY <1>1 DEF Versions, IsFile
<1>4. LoadHeld(q)'
  BY <1>1, <1>2 DEF LoadHeld
<1>5. CASE Return(q, Failed) /\ UNCHANGED job
  <2>1. /\ at'[q] = "idle" /\ result'[q].is = "error"
        /\ \A p \in Request \ {q} : at'[p] = at[p] /\ result'[p] = result[p]
    BY <1>5, EventFacts DEF Return, Go, Failed, Returned, TypeInv, TypeOK, ArtifactTypeOK
  <2>2. \A p \in Request \ {q} : UNCHANGED Local(p) /\ hope'[p] = hope[p]
    BY <1>1, <1>5, <2>1 DEF Local
  <2>3. SaveHeld(q)'
    BY <2>1 DEF SaveHeld
  <2> QED
    BY <1>1, <1>2, <1>3, <1>4, <2>1, <2>2, <2>3, ServiceStep DEF FileInv
<1>6. CASE next <= MaxVersion /\ job' = [job EXCEPT ![q].version = next] /\ Go(q, "open") /\ UNCHANGED result
  <2>1. /\ at'[q] = "open" /\ job'[q].version = next /\ job'[q].name = n
        /\ \A p \in Request \ {q} : at'[p] = at[p] /\ job'[p] = job[p] /\ result'[p] = result[p]
    <3> HIDE DEF next
    <3> QED
      BY <1>6, EventFacts DEF Go, TypeInv, TypeOK, ArtifactTypeOK
  <2>2. \A p \in Request \ {q} : UNCHANGED Local(p) /\ hope'[p] = hope[p]
    BY <1>1, <2>1 DEF Local
  <2>3. SaveHeld(q)'
    BY <2>1 DEF SaveHeld
  <2>4. /\ \A p \in Request \ {q} : SaveHeld(p)' /\ LoadHeld(p)'
        /\ \A e \in Event : EventHeld(e)'
        /\ \A a \in announced : Whole(a.name, a.version, a.body)'
    BY <1>1, <1>2, <1>3, <2>2, KeptFrame
  <2>5. \A m \in Name \ {n} : Writers(m)' = Writers(m)
    BY <1>1, <2>1, EventFacts DEF Writers
  <2>6. ASSUME NEW m \in Name \ overlapped' PROVE OneWriter(m)'
    <3>1. CASE m # n
      <4>1. OneWriter(m) /\ Writers(m)' = Writers(m) /\ Versions(m)' = Versions(m) /\ files'[m] = files[m]
        BY <1>2, <1>3, <2>5, <2>6, <3>1 DEF FileInv
      <4>2. \A c \in Writers(m) : c \in Request \ {q} /\ at'[c] = at[c] /\ job'[c] = job[c]
        BY <1>1, <2>1, EventFacts DEF Writers
      <4> QED
        BY <4>1, <4>2 DEF OneWriter, IsFile
    <3>2. CASE m = n
      <4>1. Writers(n) = {}
        BY <1>1, <2>6, <3>2
      <4>2. Writers(n)' = {q}
        BY <1>1, <2>1, <4>1, EventFacts DEF Writers
      <4>3. \A v \in Versions(n) : v < next
        <5>1. \A v \in Versions(n) : v <= Latest(n)
          BY <1>1, LatestFacts DEF TypeInv
        <5>2. Latest(n) \in Nat /\ Versions(n) \subseteq Nat
          BY <1>1, LatestFacts, EventFacts DEF TypeInv, Versions
        <5> QED
          BY <5>1, <5>2
      <4> QED
        BY <1>3, <2>1, <3>2, <4>2, <4>3, <1>1 DEF OneWriter
    <3> QED
      BY <3>1, <3>2
  <2>7. FileInv'
    BY <1>1, <1>2, <1>3, <2>6 DEF FileInv
  <2> QED
    BY <1>1, <1>4, <2>3, <2>4, <2>7 DEF KeptInv, SavedInv, LoadInv
<1> QED
  BY <1>5, <1>6 DEF Scan, ScanWith

\* The only writer of a name makes a file that was not there; on a name two saves have
\* run over each other on it may truncate the other's.
LEMMA OpenKept ==
    ASSUME TypeInv, KeptInv, NEW q \in Request, Open(q), UNCHANGED <<requestVars, tellVars>>
    PROVE  KeptInv'
<1>0. PICK n \in Name, v \in 1 .. MaxVersion : n = job[q].name /\ v = job[q].version
  BY DEF Open, TypeInv, JobInv, Job
<1> USE <1>0
<1> DEFINE ino == IF files[n][v] = Absent THEN job[q].body ELSE files[n][v].ino
<1>1. /\ at[q] = "open" /\ Job(q) /\ n \in Name /\ v \in 1 .. MaxVersion /\ job[q].body \in Event
      /\ UNCHANGED <<backend, kept, overlapped, pc, made, hope, stale, delta, announced>>
  BY DEF Open, requestVars, tellVars, TypeInv, JobInv, Job
<1>2. /\ pc[q] \in {"save", "answered"} /\ backend # "memory" /\ FileInv /\ LoadHeld(q) /\ q \in Writers(n)
  BY <1>1, EventFacts DEF Job, KeptInv, LoadInv, Writers
<1>3. LoadHeld(q)'
  BY <1>1, <1>2 DEF LoadHeld
<1>4. CASE Return(q, Failed) /\ UNCHANGED <<files, job>>
  <2>1. /\ at'[q] = "idle" /\ result'[q].is = "error"
        /\ \A p \in Request \ {q} : at'[p] = at[p] /\ result'[p] = result[p]
    BY <1>4, EventFacts DEF Return, Go, Failed, Returned, TypeInv, TypeOK, ArtifactTypeOK
  <2>2. \A p \in Request \ {q} : UNCHANGED Local(p) /\ hope'[p] = hope[p]
    BY <1>1, <1>4, <2>1 DEF Local
  <2>3. SaveHeld(q)'
    BY <2>1 DEF SaveHeld
  <2>4. /\ \A m \in Name : Versions(m)' = Versions(m) /\ files'[m] = files[m]
        /\ \A m \in Name, w \in 1 .. MaxVersion, e \in Event : IsFile(m, w, e, e) => IsFile(m, w, e, e)'
    BY <1>4 DEF Versions, IsFile
  <2> QED
    BY <1>1, <1>2, <1>3, <2>1, <2>2, <2>3, <2>4, ServiceStep DEF FileInv
<1>5. CASE /\ n \in kept /\ Go(q, "write") /\ job' = [job EXCEPT ![q].ino = ino]
           /\ files' = [files EXCEPT ![n][v] = [ino |-> ino, body |-> Torn]] /\ UNCHANGED result
  <2>1. ino \in Event
    <3>1. files[n][v] \in File \cup {Absent}
      BY <1>1, FilesTyped DEF TypeInv
    <3> QED
      BY <1>1, <3>1, EventFacts DEF File
  <2>2. n \notin overlapped => files[n][v] = Absent /\ ino = job[q].body /\ Writers(n) = {q}
    <3> SUFFICES ASSUME n \notin overlapped PROVE files[n][v] = Absent /\ Writers(n) = {q}
      OBVIOUS
    <3>1. OneWriter(n)
      BY <1>1, <1>2 DEF FileInv
    <3>2. Writers(n) = {q} /\ \A w \in Versions(n) : w < v
      BY <1>1, <1>2, <3>1 DEF OneWriter
    <3>3. v \notin Versions(n)
      BY <1>1, <3>2
    <3> QED
      BY <1>1, <3>2, <3>3 DEF Versions
  <2> HIDE DEF ino
  <2>3. /\ at'[q] = "write" /\ job'[q].version = v /\ job'[q].name = n /\ job'[q].body = job[q].body /\ job'[q].ino = ino
        /\ \A p \in Request \ {q} : at'[p] = at[p] /\ job'[p] = job[p] /\ result'[p] = result[p]
    BY <1>5, EventFacts DEF Go, TypeInv, TypeOK, ArtifactTypeOK
  <2>4. /\ files'[n][v] = [ino |-> ino, body |-> Torn]
        /\ \A m \in Name : \A w \in 1 .. MaxVersion : m # n \/ w # v => files'[m][w] = files[m][w]
        /\ \A m \in Name \ {n} : files'[m] = files[m]
    BY <1>1, <1>5 DEF TypeInv, TypeOK, ArtifactTypeOK
  <2>5. files'[n][v] # Absent /\ v \in Versions(n)'
    <3>1. files'[n][v].ino = ino
      BY <2>4
    <3>2. files'[n][v] # Absent
      BY <2>1, <3>1, EventFacts DEF Absent
    <3> QED
      BY <3>2 DEF Versions
  <2>6. \A m \in Name : Versions(m) \subseteq Versions(m)' /\ (Versions(m)' # {} => m \in kept)
    <3>1. \A m \in Name : Versions(m) \subseteq Versions(m)'
      BY <2>4, <2>5 DEF Versions
    <3>2. \A m \in Name \ {n} : Versions(m)' = Versions(m)
      BY <2>4 DEF Versions
    <3> QED
      BY <1>2, <1>5, <3>1, <3>2 DEF FileInv
  <2>7. ASSUME NEW m \in Name \ overlapped', NEW w \in 1 .. MaxVersion, NEW e \in Event, IsFile(m, w, e, e)
        PROVE  IsFile(m, w, e, e)'
    <3>1. ~ (m = n /\ w = v)
      BY <1>1, <2>2, <2>7, EventFacts DEF IsFile, Absent
    <3> QED
      BY <2>4, <2>7, <3>1 DEF IsFile
  <2>8. \A p \in Request \ {q} : UNCHANGED Local(p) /\ hope'[p] = hope[p]
    BY <1>1, <2>3 DEF Local
  <2>9. /\ \A p \in Request \ {q} : SaveHeld(p)' /\ LoadHeld(p)'
        /\ \A e \in Event : EventHeld(e)'
        /\ \A a \in announced : Whole(a.name, a.version, a.body)'
    BY <1>1, <2>6, <2>7, <2>8, KeptFrame
  <2>10. SaveHeld(q)'
    BY <2>3, <2>5 DEF SaveHeld
  <2>11. ASSUME NEW m \in Name \ overlapped' PROVE OneWriter(m)'
    <3>1. Writers(m)' = Writers(m)
      BY <1>1, <2>3, EventFacts DEF Writers
    <3>2. CASE m # n
      <4>1. OneWriter(m) /\ Versions(m)' = Versions(m) /\ files'[m] = files[m]
        BY <1>1, <1>2, <2>4, <2>11, <3>2 DEF FileInv, Versions
      <4>2. \A c \in Writers(m) : c \in Request \ {q} /\ at'[c] = at[c] /\ job'[c] = job[c]
        BY <2>3, <3>2, EventFacts DEF Writers
      <4> QED
        BY <3>1, <4>1, <4>2 DEF OneWriter, IsFile
    <3>3. CASE m = n
      <4>1. Writers(n)' = {q} /\ ino = job[q].body
        BY <1>1, <2>2, <2>11, <3>1, <3>3
      <4> QED
        BY <2>3, <2>4, <3>3, <4>1 DEF OneWriter, IsFile
    <3> QED
      BY <3>2, <3>3
  <2>12. FileInv'
    BY <1>1, <1>2, <2>6, <2>11 DEF FileInv
  <2> QED
    BY <1>1, <1>3, <2>9, <2>10, <2>12 DEF KeptInv, SavedInv, LoadInv
<1> QED
  BY <1>4, <1>5 DEF Open

\* The writer of a name that nobody else writes to writes its own file, unless the name
\* was deleted meanwhile.
LEMMA WriteKept ==
    ASSUME TypeInv, KeptInv, NEW q \in Request, Write(q), UNCHANGED <<requestVars, tellVars>>
    PROVE  KeptInv'
<1> DEFINE n == job[q].name
           v == job[q].version
           f == files[n][v]
           body == job[q].body
<1>1. /\ at[q] = "write" /\ Job(q) /\ n \in Name /\ v \in 1 .. MaxVersion /\ body \in Event /\ job[q].ino \in Event
      /\ UNCHANGED <<backend, kept, job, overlapped, pc, made, hope, stale, delta, announced>>
  BY WriteIs DEF requestVars, tellVars, TypeInv, JobInv, Job
<1>2. /\ pc[q] \in {"save", "answered"} /\ backend # "memory" /\ FileInv /\ LoadHeld(q) /\ SaveHeld(q)
      /\ q \in Writers(n) /\ (pc[q] = "save" => body = <<q, made[q] + 1>>)
  BY <1>1, EventFacts DEF Job, KeptInv, LoadInv, SavedInv, Writers
<1>3. LoadHeld(q)'
  BY <1>1, <1>2 DEF LoadHeld
<1>4. /\ at'[q] = "idle" /\ result'[q].version = v
      /\ \A p \in Request \ {q} : at'[p] = at[p] /\ result'[p] = result[p]
  <2>1. Return(q, Returned("saved", v, body))
    BY WriteIs
  <2> QED
    BY <2>1, EventFacts DEF Return, Go, Returned, TypeInv, TypeOK, ArtifactTypeOK
<1>5. f \in File \cup {Absent}
  BY <1>1, FilesTyped DEF TypeInv
<1>6. CASE UNCHANGED files /\ f.ino # job[q].ino
  <2>1. \A p \in Request \ {q} : UNCHANGED Local(p) /\ hope'[p] = hope[p]
    BY <1>1, <1>4 DEF Local
  <2>2. /\ \A m \in Name : Versions(m)' = Versions(m) /\ files'[m] = files[m]
        /\ \A m \in Name, w \in 1 .. MaxVersion, e \in Event : IsFile(m, w, e, e) => IsFile(m, w, e, e)'
    BY <1>6 DEF Versions, IsFile
  <2>3. SaveHeld(q)'
    <3>1. n \notin overlapped => v \notin Versions(n)
      <4> SUFFICES ASSUME n \notin overlapped, v \in Versions(n) PROVE FALSE
        OBVIOUS
      <4>1. OneWriter(n)
        BY <1>1, <1>2 DEF FileInv
      <4>2. f = [ino |-> body, body |-> Torn] /\ job[q].ino = body
        BY <1>1, <1>2, <4>1 DEF OneWriter, IsFile
      <4> QED
        BY <1>6, <4>2
    <3>2. pc[q] = "save" => <<q, made[q] + 1>> \in stale \/ n \in overlapped
      BY <1>1, <1>2, <3>1 DEF SaveHeld
    <3> QED
      BY <1>1, <1>4, <3>2 DEF SaveHeld, Whole
  <2> QED
    BY <1>1, <1>2, <1>3, <1>4, <2>1, <2>2, <2>3, ServiceStep DEF FileInv
<1>7. CASE f.ino = job[q].ino /\ \/ files' = [files EXCEPT ![n][v].body = body]
                                 \/ f.body # Torn /\ files' = [files EXCEPT ![n][v].body = Mixed]
  <2>1. f \in File /\ f # Absent /\ v \in Versions(n)
    <3>1. f # Absent
      <4>1. f.ino \in Event
        BY <1>1, <1>7
      <4> HIDE DEF f
      <4> QED
        BY <4>1, EventFacts DEF Absent
    <3>2. v \in Versions(n)
      BY <1>1, <3>1 DEF Versions
    <3> QED
      BY <1>5, <3>1, <3>2
  <2>2. PICK b \in {body, Mixed} : files' = [files EXCEPT ![n][v].body = b] /\ (b = Mixed => f.body # Torn)
    BY <1>1, <1>7, EventFacts
  <2>3. files' = [files EXCEPT ![n][v] = [f EXCEPT !.body = b]]
    BY <2>2
  <2>4. /\ files'[n][v].ino = f.ino /\ files'[n][v].body = b
        /\ \A m \in Name : \A w \in 1 .. MaxVersion : m # n \/ w # v => files'[m][w] = files[m][w]
        /\ \A m \in Name \ {n} : files'[m] = files[m]
    <3>1. [f EXCEPT !.body = b].ino = f.ino /\ [f EXCEPT !.body = b].body = b
      BY <2>1 DEF File
    <3> HIDE DEF f
    <3> QED
      BY <1>1, <2>3, <3>1 DEF TypeInv, TypeOK, ArtifactTypeOK
  <2>5. files'[n][v] # Absent
    <3>1. files'[n][v].ino \in Event
      BY <1>1, <1>7, <2>4
    <3> QED
      BY <3>1, EventFacts DEF Absent
  <2>6. \A m \in Name : Versions(m)' = Versions(m)
    BY <2>1, <2>4, <2>5 DEF Versions
  <2>7. n \notin overlapped => f = [ino |-> body, body |-> Torn] /\ Writers(n) = {q}
    <3> SUFFICES ASSUME n \notin overlapped PROVE f = [ino |-> body, body |-> Torn] /\ Writers(n) = {q}
      OBVIOUS
    <3>1. OneWriter(n)
      BY <1>1, <1>2 DEF FileInv
    <3> QED
      BY <1>1, <1>2, <2>1, <3>1 DEF OneWriter, IsFile
  <2>8. ASSUME NEW m \in Name \ overlapped', NEW w \in 1 .. MaxVersion, NEW e \in Event, IsFile(m, w, e, e)
        PROVE  IsFile(m, w, e, e)'
    <3>1. ~ (m = n /\ w = v)
      BY <1>1, <2>7, <2>8, EventFacts DEF IsFile
    <3> QED
      BY <2>4, <2>8, <3>1 DEF IsFile
  <2>9. n \notin overlapped => IsFile(n, v, body, body)'
    <3> SUFFICES ASSUME n \notin overlapped PROVE files'[n][v] = [ino |-> body, body |-> body]
      BY <1>1 DEF IsFile
    <3>1. b = body
      BY <2>2, <2>7
    <3>2. files' = [files EXCEPT ![n][v] = [ino |-> body, body |-> body]]
      <4>1. [f EXCEPT !.body = b] = [ino |-> body, body |-> body]
        BY <2>7, <3>1
      <4> QED
        BY <2>3, <4>1
    <3> QED
      BY <1>1, <3>2 DEF TypeInv, TypeOK, ArtifactTypeOK
  <2>10. SaveHeld(q)'
    BY <1>1, <1>2, <1>4, <2>9 DEF SaveHeld, Whole, IsFile
  <2>11. \A p \in Request \ {q} : UNCHANGED Local(p) /\ hope'[p] = hope[p]
    BY <1>1, <1>4 DEF Local
  <2>12. \A m \in Name \ overlapped' : Writers(m) \subseteq {q} \/ files'[m] = files[m]
    BY <1>1, <2>4, <2>7
  <2> QED
    BY <1>1, <1>2, <1>3, <1>4, <2>6, <2>8, <2>10, <2>11, <2>12, ServiceStep DEF FileInv
<1> QED
  BY <1>6, <1>7, WriteIs, Zenon

\* A save in memory makes a new version, a save on files begins.
LEMMA ToolSavesKept ==
    ASSUME TypeInv, KeptInv, NEW q \in Request, NEW n \in Name, ToolSaves(q, n)
    PROVE  KeptInv'
<1> DEFINE e == <<q, made[q] + 1>>
<1>1. /\ pc'[q] = "save" /\ at[q] = "idle" /\ Save(q, n, e) /\ made[q] <= MaxEvents /\ pc[q] = "run"
      /\ UNCHANGED <<backend, overlapped, made, hope, stale, delta, announced>>
      /\ \A p \in Request \ {q} : pc'[p] = pc[p]
  BY DEF ToolSaves, Save, To, tellVars, TypeInv, TypeOK
<1>2. e \in Event /\ FileInv /\ LoadHeld(q)
  BY <1>1, OwnEvents DEF KeptInv, LoadInv
<1>3. job'[q].name = n /\ \A p \in Request \ {q} : job'[p] = job[p]
  BY <1>1, EventFacts DEF Save, JobOf, TypeInv, TypeOK, ArtifactTypeOK
<1>4. LoadHeld(q)'
  BY <1>1, <1>2 DEF LoadHeld
<1>5. CASE backend = "files" /\ Go(q, "mkdir") /\ result' = [result EXCEPT ![q] = Pending] /\ UNCHANGED <<kept, files>>
  <2>1. /\ at'[q] = "mkdir" /\ \A p \in Request \ {q} : at'[p] = at[p] /\ result'[p] = result[p]
    BY <1>5, EventFacts DEF Go, TypeInv, TypeOK, ArtifactTypeOK
  <2>2. \A p \in Request \ {q} : UNCHANGED Local(p) /\ hope'[p] = hope[p]
    BY <1>1, <1>3, <2>1 DEF Local
  <2>3. SaveHeld(q)'
    BY <2>1 DEF SaveHeld
  <2>4. /\ \A m \in Name : Versions(m)' = Versions(m) /\ files'[m] = files[m]
        /\ \A m \in Name, w \in 1 .. MaxVersion, x \in Event : IsFile(m, w, x, x) => IsFile(m, w, x, x)'
    BY <1>5 DEF Versions, IsFile
  <2> QED
    BY <1>1, <1>2, <1>4, <1>5, <2>1, <2>2, <2>3, <2>4, ServiceStep DEF FileInv
<1>6. CASE backend = "memory" /\ Latest(n) < MaxVersion /\ kept' = kept \cup {n} /\ Saved(q, n, Latest(n) + 1, e)
  <2>0. PICK v \in 1 .. MaxVersion : v = Latest(n) + 1 /\ v \notin Versions(n)
    <3>1. Latest(n) \in Nat /\ MaxVersion \in Nat /\ \A w \in Versions(n) : w <= Latest(n)
      BY LatestFacts, EventFacts DEF TypeInv
    <3>2. Latest(n) + 1 \in 1 .. MaxVersion /\ Latest(n) + 1 \notin Versions(n)
      BY <1>6, <3>1
    <3> QED
      BY <3>2
  <2>1. /\ files' = [files EXCEPT ![n][v] = [ino |-> e, body |-> e]]
        /\ at' = [at EXCEPT ![q] = "idle"] /\ result' = [result EXCEPT ![q] = Returned("saved", v, e)]
    BY <1>6, <2>0 DEF Saved, Return, Go
  <2>2. /\ at'[q] = "idle" /\ result'[q].version = v
        /\ \A p \in Request \ {q} : at'[p] = at[p] /\ result'[p] = result[p]
    BY <2>1, EventFacts DEF Returned, TypeInv, TypeOK, ArtifactTypeOK
  <2> HIDE DEF e
  <2>3. /\ files'[n][v] = [ino |-> e, body |-> e] /\ files[n][v] = Absent
        /\ \A m \in Name : \A w \in 1 .. MaxVersion : m # n \/ w # v => files'[m][w] = files[m][w]
        /\ \A m \in Name \ {n} : files'[m] = files[m]
    BY <2>0, <2>1 DEF TypeInv, TypeOK, ArtifactTypeOK, Versions
  <2>4. files'[n][v] # Absent
    <3>1. files'[n][v].ino = e
      BY <2>3
    <3> QED
      BY <1>2, <3>1, EventFacts DEF Absent
  <2>5. ASSUME NEW m \in Name
        PROVE  /\ Versions(m) \subseteq Versions(m)' /\ (Versions(m)' # {} => m \in kept')
               /\ \A w \in Versions(m)' : files'[m][w].body \in Event
    <3>1. Versions(m) \subseteq Versions(m)' /\ \A w \in Versions(m)' : w \in Versions(m) \/ (m = n /\ w = v)
      BY <2>3, <2>4 DEF Versions
    <3>2. Versions(m)' # {} => m \in kept'
      BY <1>2, <1>6, <3>1 DEF FileInv
    <3>3. \A w \in Versions(m)' : files'[m][w].body \in Event
      <4>1. \A w \in Versions(m) : files[m][w].body \in Event /\ w \in 1 .. MaxVersion
        BY <1>2, <1>6 DEF FileInv, Versions
      <4>2. files'[n][v].body \in Event
        BY <1>2, <2>3
      <4>3. \A w \in Versions(m) : ~ (m = n /\ w = v)
        BY <2>0
      <4> QED
        BY <2>3, <3>1, <4>1, <4>2, <4>3
    <3> QED
      BY <3>1, <3>2, <3>3
  <2>6. ASSUME NEW m \in Name, NEW w \in 1 .. MaxVersion, NEW x \in Event, IsFile(m, w, x, x)
        PROVE  IsFile(m, w, x, x)'
    <3>1. ~ (m = n /\ w = v)
      BY <2>3, <2>6, EventFacts DEF IsFile, Absent
    <3> QED
      BY <2>3, <2>6, <3>1 DEF IsFile
  <2>7. \A m \in Name : Writers(m) = {}
    <3>1. \A c \in Request : at[c] = "idle"
      BY <1>6 DEF TypeInv, JobInv, Job
    <3> QED
      BY <3>1, EventFacts DEF Writers
  <2>8. \A p \in Request \ {q} : UNCHANGED Local(p) /\ hope'[p] = hope[p]
    BY <1>1, <1>3, <2>2 DEF Local
  <2>9. SaveHeld(q)'
    BY <1>1, <1>3, <2>2, <2>3 DEF SaveHeld, Whole, IsFile, e
  <2> QED
    BY <1>1, <1>2, <1>4, <2>2, <2>5, <2>6, <2>7, <2>8, <2>9, ServiceStep
<1> QED
  BY <1>1, <1>5, <1>6 DEF Save

\* A load finds the version its client was told of or a newer one, or is about to read it.
LEMMA LoadKept ==
    ASSUME TypeInv, KeptInv, NEW q \in Request, NEW n \in Name, NEW w \in 0 .. MaxVersion, Load(q, n, w)
    PROVE  KeptInv'
<1> DEFINE found == IF w = 0 THEN Latest(n) ELSE w
<1>1. /\ pc'[q] = "load" /\ Find(q, n, w) /\ at[q] = "idle"
      /\ UNCHANGED <<backend, kept, files, overlapped, made, stale, delta, announced>>
      /\ hope'[q] = {a \in announced : a.name = n /\ w \in {0, a.version}}
      /\ \A p \in Request \ {q} : pc'[p] = pc[p] /\ hope'[p] = hope[p]
  BY DEF Load, Find, To, tellVars, TypeInv, TypeOK
<1>2. FileInv /\ \A a \in announced : Whole(a.name, a.version, a.body)
  BY DEF KeptInv, SavedInv
<1>3. /\ \A m \in Name : Versions(m)' = Versions(m) /\ files'[m] = files[m]
      /\ \A m \in Name, v \in 1 .. MaxVersion, x \in Event : IsFile(m, v, x, x) => IsFile(m, v, x, x)'
  BY <1>1 DEF Versions, IsFile
<1>4. SaveHeld(q)'
  BY <1>1 DEF SaveHeld
<1>5. ASSUME NEW a \in hope'[q], n \notin overlapped
      PROVE  /\ IsFile(n, a.version, a.body, a.body) /\ a.name = n /\ a.version \in 1 .. MaxVersion /\ a.body \in Event
             /\ found \in Versions(n) /\ found >= a.version /\ n \in kept /\ found # 0
  <2>1. /\ a.name = n /\ w \in {0, a.version} /\ a.version \in 1 .. MaxVersion /\ a.body \in Event
        /\ IsFile(n, a.version, a.body, a.body)
    BY <1>1, <1>2, <1>5, HeldTypes DEF Whole
  <2>2. a.version \in Versions(n) /\ n \in kept
    <3>1. a.version \in Versions(n)
      BY <2>1, FileIsVersion DEF IsFile
    <3> QED
      BY <1>2, <3>1 DEF FileInv
  <2>3. found \in Versions(n) /\ found >= a.version /\ found # 0
    <3>1. CASE w = 0
      <4>1. Latest(n) \in 0 .. MaxVersion /\ a.version <= Latest(n) /\ (Latest(n) # 0 => Latest(n) \in Versions(n))
        BY <2>2, LatestFacts DEF TypeInv
      <4> QED
        BY <2>1, <3>1, <4>1
    <3>2. CASE w = a.version
      BY <2>1, <2>2, <3>2
    <3> QED
      BY <2>1, <3>1, <3>2
  <2> QED
    BY <2>1, <2>2, <2>3
<1>6. CASE ((Return(q, Nothing) /\ (n \notin kept \/ found = 0)) \/ (backend = "memory" /\ Return(q, Content(n, found)))) /\ UNCHANGED job
  <2>1. PICK r \in {Nothing, Content(n, found)} : Return(q, r) /\ (r = Content(n, found) \/ n \notin kept \/ found = 0)
           /\ (n \in kept /\ found # 0 => backend = "memory")
    BY <1>6
  <2>2. at'[q] = "idle" /\ result'[q] = r /\ \A p \in Request \ {q} : at'[p] = at[p] /\ result'[p] = result[p]
    BY <2>1, EventFacts DEF Return, Go, TypeInv, TypeOK, ArtifactTypeOK
  <2>3. \A p \in Request \ {q} : UNCHANGED Local(p) /\ hope'[p] = hope[p]
    BY <1>1, <1>6, <2>2 DEF Local
  <2>4. ASSUME NEW a \in hope'[q], n \notin overlapped PROVE Finds(q, a)'
    <3>1. /\ IsFile(n, a.version, a.body, a.body) /\ found \in Versions(n) /\ found >= a.version /\ a.version \in 1 .. MaxVersion
          /\ r = Content(n, found) /\ backend = "memory"
      BY <1>5, <2>1, <2>4
    <3>2. files[n][found] # Absent /\ files[n][found].body \in Event /\ found \in 1 .. MaxVersion
      BY <1>2, <3>1 DEF FileInv, Versions
    <3>3. r = Returned("part", found, files[n][found].body)
      BY <3>1, <3>2, EventFacts DEF Content
    <3> HIDE DEF found
    <3>4. r.is = "part" /\ r.version = found /\ r.body = files[n][found].body
      BY <3>3 DEF Returned
    <3>5. found = a.version => r.body = a.body
      BY <3>1, <3>4 DEF IsFile
    <3>6. found = a.version \/ found > a.version
      BY <3>1, <3>2
    <3> QED
      BY <2>2, <3>4, <3>5, <3>6 DEF Finds
  <2>5. LoadHeld(q)'
    <3>1. \A a \in hope'[q] : a.name = n
      BY <1>1
    <3>2. hope'[q] \subseteq announced'
      BY <1>1
    <3> QED
      BY <1>1, <2>2, <2>4, <3>1, <3>2 DEF LoadHeld
  <2> QED
    BY <1>1, <1>2, <1>3, <1>4, <2>2, <2>3, <2>5, ServiceStep DEF FileInv
<1>7. CASE /\ Go(q, "read") /\ job' = [job EXCEPT ![q] = JobOf(n, found, NoBody)] /\ backend # "memory"
           /\ result' = [result EXCEPT ![q] = Pending]
  <2> HIDE DEF found
  <2>1. /\ at'[q] = "read" /\ job'[q] = JobOf(n, found, NoBody)
        /\ \A p \in Request \ {q} : at'[p] = at[p] /\ job'[p] = job[p] /\ result'[p] = result[p]
    BY <1>7, EventFacts DEF Go, TypeInv, TypeOK, ArtifactTypeOK
  <2>2. job'[q].name = n /\ job'[q].version = found
    BY <2>1 DEF JobOf
  <2>3. backend' = "files"
    BY <1>1, <1>7 DEF TypeInv, TypeOK, ArtifactTypeOK
  <2>4. \A p \in Request \ {q} : UNCHANGED Local(p) /\ hope'[p] = hope[p]
    BY <1>1, <2>1 DEF Local
  <2>5. LoadHeld(q)'
    <3>1. hope'[q] \subseteq announced' /\ \A a \in hope'[q] : a.name = n
      BY <1>1
    <3>2. ASSUME NEW a \in hope'[q], n \notin overlapped'
          PROVE  found >= a.version /\ found \in Versions(n)'
      BY <1>1, <1>3, <1>5, <3>2
    <3>3. ASSUME NEW a \in hope'[q], a.name \notin overlapped'
          PROVE  job'[q].name = a.name /\ job'[q].version >= a.version /\ job'[q].version \in Versions(a.name)'
      <4>1. a.name = n /\ found >= a.version /\ found \in Versions(n)'
        BY <3>1, <3>2, <3>3
      <4> QED
        BY <2>2, <4>1
    <3> QED
      BY <2>1, <2>3, <3>1, <3>3 DEF LoadHeld
  <2> QED
    BY <1>1, <1>2, <1>3, <1>4, <2>1, <2>4, <2>5, ServiceStep DEF FileInv
<1> QED
  BY <1>1, <1>6, <1>7 DEF Find

\* Versions of a name go away, and what clients, events and runs have of the name with
\* them: what is left is of other names.
LEMMA ForgottenKept ==
    ASSUME TypeInv, KeptInv, NEW q \in Request, NEW n \in Name, Forget(n), UNCHANGED <<backend, overlapped>>,
           pc'[q] = "delete", at'[q] \notin {"open", "write"}, \A p \in Request \ {q} : UNCHANGED Local(p),
           WritesOn(n), Versions(n)' # {} => n \in kept',
           \A m \in Name \ {n} : files'[m] = files[m] /\ (m \in kept => m \in kept')
    PROVE  KeptInv'
<1>1. /\ UNCHANGED <<made, delta>> /\ stale' = stale \cup Carrying(n)
      /\ announced' = {a \in announced : a.name # n}
      /\ \A p \in Request : hope'[p] = {a \in hope[p] : a.name # n}
  BY DEF Forget, TypeInv, TypeOK
<1>2. FileInv /\ SavedInv /\ LoadInv
  BY DEF KeptInv
<1>3. \A p \in Request \ {q} : pc'[p] = pc[p] /\ at'[p] = at[p] /\ job'[p] = job[p] /\ result'[p] = result[p]
  BY DEF Local
<1>4. \A v \in Versions(n)' : v \in Versions(n) /\ files'[n][v] = files[n][v]
  BY DEF WritesOn, Versions
<1>5. \A m \in Name \ {n} : Versions(m)' = Versions(m)
  BY DEF Versions
<1>7. FileInv'
  <2>1. \A m \in Name \ overlapped' : OneWriter(m)'
    BY WriterFrame DEF WritesOn
  <2>2. ASSUME NEW m \in Name
        PROVE  /\ Versions(m)' # {} => m \in kept'
               /\ backend = "memory" => \A v \in Versions(m)' : files'[m][v].body \in Event
    <3>1. CASE m = n
      BY <1>2, <1>4, <3>1 DEF FileInv
    <3>2. CASE m # n
      BY <1>2, <1>5, <3>2 DEF FileInv
    <3> QED
      BY <3>1, <3>2
  <2> QED
    BY <2>1, <2>2 DEF FileInv
<1>8. ASSUME NEW m \in Name \ {n}, NEW v, NEW e, Whole(m, v, e) PROVE Whole(m, v, e)'
  BY <1>1, <1>4, <1>8 DEF Whole, IsFile
<1>9. ASSUME NEW p \in Request PROVE SaveHeld(p)'
  <2>1. CASE p = q
    BY <1>1, <2>1 DEF SaveHeld
  <2>2. ASSUME p # q, pc[p] = "save", <<p, made[p] + 1>> \notin stale' PROVE SaveHeld(p)'
    <3>1. /\ pc'[p] = pc[p] /\ at'[p] = at[p] /\ job'[p] = job[p] /\ result'[p] = result[p] /\ made'[p] = made[p]
          /\ job[p].name \in Name /\ SaveHeld(p)
      BY <1>1, <1>2, <1>3, <2>2, HeldTypes DEF SavedInv
    <3>2. <<p, made[p] + 1>> \notin stale /\ (at[p] \in {"write", "idle"} => job[p].name # n)
      BY <1>1, <2>2 DEF Carrying
    <3>3. CASE job[p].name = n
      BY <3>1, <3>2, <3>3 DEF SaveHeld
    <3>4. CASE job[p].name # n
      <4> DEFINE m == job[p].name
      <4>1. m \in Name \ {n} /\ files'[m] = files[m] /\ Versions(m) = {v \in 1 .. MaxVersion : files'[m][v] # Absent}
        BY <1>4, <3>1, <3>4 DEF Versions
      <4> QED
        BY <1>1, <2>2, <3>1, <3>2, <4>1 DEF SaveHeld, Whole, IsFile, Versions
    <3> QED
      BY <3>3, <3>4
  <2>3. CASE p # q /\ ~ (pc[p] = "save" /\ <<p, made[p] + 1>> \notin stale')
    BY <1>1, <1>3, <2>3 DEF SaveHeld
  <2> QED
    BY <2>1, <2>2, <2>3
<1>10. ASSUME NEW e \in Event PROVE EventHeld(e)'
  <2>1. CASE delta[e] # NoDelta /\ e \notin stale'
    <3>1. delta[e][1] \in Name /\ delta[e][1] # n /\ e \notin stale
      BY <1>1, <2>1, HeldTypes DEF Carrying
    <3>2. Whole(delta[e][1], delta[e][2], e)
      BY <1>2, <2>1, <3>1 DEF SavedInv, EventHeld
    <3> QED
      BY <1>1, <1>4, <3>1, <3>2 DEF EventHeld, Whole, IsFile
  <2>2. CASE ~ (delta[e] # NoDelta /\ e \notin stale')
    BY <1>1, <2>2 DEF EventHeld
  <2> QED
    BY <2>1, <2>2
<1>11. \A a \in announced' : Whole(a.name, a.version, a.body)'
  <2>1. ASSUME NEW a \in announced' PROVE Whole(a.name, a.version, a.body)'
    <3>1. a.name \in Name \ {n} /\ Whole(a.name, a.version, a.body)
      BY <1>1, <1>2, <2>1, HeldTypes DEF SavedInv
    <3> QED
      BY <1>8, <3>1
  <2> QED
    BY <2>1
<1>12. ASSUME NEW p \in Request PROVE LoadHeld(p)'
  <2>1. LoadHeld(p) /\ hope'[p] \subseteq announced'
    BY <1>1, <1>2 DEF LoadInv, LoadHeld
  <2>2. CASE p = q
    BY <1>1, <2>1, <2>2 DEF LoadHeld
  <2>3. CASE p # q
    <3>1. pc'[p] = pc[p] /\ at'[p] = at[p] /\ job'[p] = job[p] /\ result'[p] = result[p]
      BY <1>1, <1>3, <2>3
    <3>2. \A a \in hope'[p] : a \in hope[p] /\ a.name \in Name \ {n} /\ Versions(a.name)' = Versions(a.name)
      BY <1>1, <1>5, HeldTypes
    <3>3. \A a \in hope'[p] : Finds(p, a) => Finds(p, a)'
      BY <1>1, <3>1 DEF Finds
    <3> QED
      BY <1>1, <2>1, <3>1, <3>2, <3>3 DEF LoadHeld
  <2> QED
    BY <2>2, <2>3
<1> QED
  BY <1>7, <1>9, <1>10, <1>11, <1>12 DEF KeptInv, SavedInv, LoadInv

LEMMA DeleteKept ==
    ASSUME TypeInv, KeptInv, NEW q \in Request, NEW n \in Name, DeleteArtifact(q, n)
    PROVE  KeptInv'
<1>1. /\ pc'[q] = "delete" /\ Delete(q, n) /\ Forget(n) /\ UNCHANGED <<backend, overlapped, made>>
      /\ \A p \in Request \ {q} : pc'[p] = pc[p]
  BY DEF DeleteArtifact, Delete, Forget, To, TypeInv, TypeOK
<1>2. /\ at'[q] \in {"idle", "rmdir"}
      /\ \A p \in Request \ {q} : at'[p] = at[p] /\ job'[p] = job[p] /\ result'[p] = result[p]
  BY <1>1, EventFacts DEF Delete, Return, Go, TypeInv, TypeOK, ArtifactTypeOK
<1>3. \A p \in Request \ {q} : UNCHANGED Local(p)
  BY <1>1, <1>2 DEF Local
<1>4. CASE kept' = kept \ {n} /\ files' = [files EXCEPT ![n] = [v \in 1 .. MaxVersion |-> Absent]]
  <2>1. /\ \A v \in 1 .. MaxVersion : files'[n][v] = Absent
        /\ \A m \in Name \ {n} : files'[m] = files[m] /\ (m \in kept => m \in kept')
    BY <1>4 DEF TypeInv, TypeOK, ArtifactTypeOK
  <2>2. Versions(n)' = {}
    BY <2>1 DEF Versions
  <2> QED
    BY <1>1, <1>2, <1>3, <2>1, <2>2, ForgottenKept DEF WritesOn
<1>5. CASE UNCHANGED <<kept, files>>
  <2>1. Versions(n)' # {} => n \in kept'
    BY <1>5 DEF KeptInv, FileInv, Versions
  <2> QED
    BY <1>1, <1>2, <1>3, <1>5, <2>1, ForgottenKept DEF WritesOn
<1> QED
  BY <1>1, <1>4, <1>5 DEF Delete

\* One version of a name that is being deleted goes away.
LEMMA RemovesKept ==
    ASSUME TypeInv, KeptInv, NEW q \in Request, NEW v \in 1 .. MaxVersion, Removes(q, v)
    PROVE  KeptInv'
<1>1. PICK n \in Name : n = job[q].name
  BY DEF Removes, Unlink, TypeInv, JobInv, Job
<1>2. /\ at[q] = "rmdir" /\ files' = [files EXCEPT ![n][v] = Absent] /\ Forget(n)
      /\ UNCHANGED <<backend, kept, at, job, result, overlapped, pc, made>>
  BY <1>1 DEF Removes, Unlink, Forget
<1>3. pc'[q] = "delete" /\ at'[q] \notin {"open", "write"}
  BY <1>2 DEF TypeInv, JobInv, Job
<1>4. \A p \in Request \ {q} : UNCHANGED Local(p)
  BY <1>2 DEF Local
<1>5. WritesOn(n) /\ \A m \in Name \ {n} : files'[m] = files[m] /\ (m \in kept => m \in kept')
  BY <1>2 DEF WritesOn, TypeInv, TypeOK, ArtifactTypeOK
<1>6. Versions(n)' # {} => n \in kept'
  <2>1. Versions(n)' \subseteq Versions(n)
    BY <1>5 DEF Versions, WritesOn
  <2> QED
    BY <1>2, <2>1 DEF KeptInv, FileInv
<1>7. UNCHANGED <<backend, overlapped>>
  BY <1>2
<1> QED
  BY <1>2, <1>3, <1>4, <1>5, <1>6, <1>7, ForgottenKept

LEMMA InitKept == Init => KeptInv
<1> SUFFICES ASSUME Init PROVE KeptInv
  OBVIOUS
<1>1. \A n \in Name : Versions(n) = {} /\ Writers(n) = {}
  BY EventFacts DEF Init, ArtifactInit, Versions, Writers
<1>2. FileInv
  BY <1>1 DEF FileInv, OneWriter
<1>3. SavedInv
  BY DEF Init, SavedInv, SaveHeld, EventHeld
<1>4. LoadInv
  BY DEF Init, LoadInv, LoadHeld
<1> QED
  BY <1>2, <1>3, <1>4 DEF KeptInv

LEMMA NextKept == TypeInv /\ KeptInv /\ [Next]_vars => KeptInv'
<1> SUFFICES ASSUME TypeInv, KeptInv, [Next]_vars PROVE KeptInv'
  OBVIOUS
<1>1. ASSUME NEW q \in Request, FileStep(q), UNCHANGED <<sessionVars, requestVars, tellVars>> PROVE KeptInv'
  BY <1>1, MakeDirKept, ScanKept, OpenKept, WriteKept, ReadKept, RemoveDirKept DEF FileStep
<1>2. CASE UNCHANGED vars
  BY <1>2 DEF KeptInv, FileInv, SavedInv, LoadInv, OneWriter, SaveHeld, EventHeld, LoadHeld, Whole, IsFile, Finds,
     Versions, Writers, vars, artifactVars, requestVars, tellVars
<1>3. ASSUME NEW q \in Request, RunStep(q) PROVE KeptInv'
  BY <1>3, ElsewhereSteps, ToolSavesKept
<1> QED
  BY <1>1, <1>2, <1>3, ElsewhereSteps, LoadKept, DeleteKept, RemovesKept DEF Next

\* An artifact that a client has been told of can be loaded, and the latest version is no
\* older, for any runs, loads and deletions (fs.rs gives a version the number after the
\* latest one, and writes it in steps).  It needs that a name that no two saves were in
\* the way of each other on has one writer, which makes its own file, and that the
\* history leaves out what a deletion took away before a client was told of it.
THEOREM AnnouncedCanBeLoaded == Spec => []AnnouncedLoads
<1>1. KeptInv => AnnouncedLoads
  BY DEF KeptInv, LoadInv, LoadHeld, Finds, AnnouncedLoads
<1>2. Spec => []TypeInv
  BY InitTypes, NextTypes, PTL DEF Spec
<1> QED
  BY <1>1, <1>2, InitKept, NextKept, PTL DEF Spec

=============================================================================
