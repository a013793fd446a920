--------------------------- MODULE ArtifactService ---------------------------
(***************************************************************************)
(* Versioned artifacts of one session, in memory (services/mem/artifact.rs) *)
(* or as files, one per version (services/fs.rs).  A call in memory is one *)
(* step; on files it is a sequence of file operations, between which other *)
(* calls run.  A name stands for its directory: sanitize is left out, and  *)
(* with it two names of one directory.                                     *)
(***************************************************************************)
EXTENDS Naturals, FiniteSets, FiniteSetsExt

CONSTANTS
    Caller,      \* calls that may run at the same time
    Name,        \* artifact names
    Body,        \* what is saved: every save has a body of its own
    NoBody,      \* no body
    Torn, Mixed, \* a file that is being written, one that two saves have written
    MaxVersion   \* bound: versions of a name

ASSUME ArtifactAssumption == MaxVersion \in Nat \ {0} /\ {NoBody, Torn, Mixed} \cap Body = {}

VARIABLES
    backend,    \* "memory" or "files"
    kept,       \* the names with an entry in the map, or with a directory
    files,      \* their versions
    at,         \* where each call is
    job,        \* its name, version (0: the latest), body and the file it has open
    result,     \* of the call: a version, or what a load has found
    overlapped  \* history: names two saves on files have run over each other on

artifactVars == <<backend, kept, files, at, job, result, overlapped>>

\* A version: the save that made the file, and what is in it now.
File   == [ino : Body, body : Body \cup {Torn, Mixed}]
Absent == [ino |-> NoBody, body |-> NoBody]

Versions(n) == {v \in 1 .. MaxVersion : files[n][v] # Absent}
Latest(n)   == Max(Versions(n) \cup {0})

JobOf(name, version, body) == [name |-> name, version |-> version, body |-> body, ino |-> NoBody]
NoJob == JobOf("none", 0, NoBody)
Returned(kind, version, body) == [is |-> kind, version |-> version, body |-> body]
Pending == Returned("pending", 0, NoBody)
Failed  == Returned("error", 0, NoBody)
Nothing == Returned("none", 0, NoBody)

\* The variables have their types.
ArtifactTypeOK ==
    /\ backend \in {"memory", "files"} /\ kept \subseteq Name /\ overlapped \subseteq Name
    /\ files \in [Name -> [1 .. MaxVersion -> File \cup {Absent}]]
    /\ at \in [Caller -> {"idle", "mkdir", "dropped", "scan", "open", "write", "read", "rmdir"}]
    /\ job \in [Caller -> [name : Name \cup {"none"}, version : 0 .. MaxVersion,
                           body : Body \cup {NoBody}, ino : Body \cup {NoBody}]]
    /\ result \in [Caller -> [is : {"pending", "error", "none", "saved", "part"}, version : 0 .. MaxVersion,
                              body : Body \cup {NoBody}]]

ArtifactInit ==
    /\ backend \in {"memory", "files"} /\ kept = {}
    /\ files = [n \in Name |-> [v \in 1 .. MaxVersion |-> Absent]]
    /\ at = [c \in Caller |-> "idle"] /\ job = [c \in Caller |-> NoJob]
    /\ result = [c \in Caller |-> Pending] /\ overlapped = {}

Go(c, place)    == at' = [at EXCEPT ![c] = place]
Return(c, what) == Go(c, "idle") /\ result' = [result EXCEPT ![c] = what]

-----------------------------------------------------------------------------
(* save_artifact.                                                          *)

Saved(c, n, v, body) ==
    /\ files' = [files EXCEPT ![n][v] = [ino |-> body, body |-> body]]
    /\ Return(c, Returned("saved", v, body))

\* In memory: the version is the length of the list after the push.
Save(c, n, body) ==
    /\ at[c] = "idle"
    /\ job' = [job EXCEPT ![c] = JobOf(n, 0, body)]
    /\ \/ /\ backend = "memory" /\ Latest(n) < MaxVersion
          /\ kept' = kept \cup {n} /\ Saved(c, n, Latest(n) + 1, body)
       \/ /\ backend = "files"
          /\ Go(c, "mkdir") /\ result' = [result EXCEPT ![c] = Pending]
          /\ UNCHANGED <<kept, files>>
    /\ UNCHANGED <<backend, overlapped>>

MakeDir(c) ==
    /\ at[c] \in {"mkdir", "dropped"} /\ Go(c, IF at[c] = "mkdir" THEN "scan" ELSE "idle")
    /\ kept' = kept \cup {job[c].name}
    /\ UNCHANGED <<backend, files, job, result, overlapped>>

\* The calls that are about to write a version of n.
Writers(n) == {c \in Caller : at[c] \in {"open", "write"} /\ job[c].name = n}

ScanWith(c, next) ==
    LET n == job[c].name IN
    /\ at[c] = "scan"
    /\ \/ /\ n \in kept /\ next <= MaxVersion
          /\ job' = [job EXCEPT ![c].version = next] /\ Go(c, "open") /\ UNCHANGED result
       \/ n \notin kept /\ Return(c, Failed) /\ UNCHANGED job
    /\ overlapped' = IF Writers(n) # {} THEN overlapped \cup {n} ELSE overlapped
    /\ UNCHANGED <<backend, kept, files>>

\* Mutant: the highest version is the one that is written.
ScanReusing(c) == ScanWith(c, Max({1, Latest(job[c].name)}))

\* The highest version in the directory and one more.
Scan(c) == ScanWith(c, Latest(job[c].name) + 1)

\* The file is made, or the other save's is truncated.
Open(c) ==
    LET n == job[c].name  v == job[c].version
        ino == IF files[n][v] = Absent THEN job[c].body ELSE files[n][v].ino IN
    /\ at[c] = "open"
    /\ \/ /\ n \in kept /\ Go(c, "write") /\ job' = [job EXCEPT ![c].ino = ino]
          /\ files' = [files EXCEPT ![n][v] = [ino |-> ino, body |-> Torn]] /\ UNCHANGED result
       \/ n \notin kept /\ Return(c, Failed) /\ UNCHANGED <<files, job>>
    /\ UNCHANGED <<backend, kept, overlapped>>

\* Over what another save has written to the file the bytes can mix.  A file
\* that has been deleted meanwhile takes them with it.
Write(c) ==
    LET n == job[c].name  v == job[c].version  f == files[n][v] IN
    /\ at[c] = "write" /\ Return(c, Returned("saved", v, job[c].body))
    /\ \/ f.ino = job[c].ino /\ files' = [files EXCEPT ![n][v].body = job[c].body]
       \/ /\ f.ino = job[c].ino /\ f.body # Torn
          /\ files' = [files EXCEPT ![n][v].body = Mixed]
       \/ f.ino # job[c].ino /\ UNCHANGED files
    /\ UNCHANGED <<backend, kept, job, overlapped>>

-----------------------------------------------------------------------------
(* load_artifact, delete_artifact.                                         *)

\* What is read of a version: a body that is not JSON is an error.
Content(n, v) ==
    LET f == files[n][v] IN
    IF f = Absent THEN Nothing
    ELSE IF f.body \in Body THEN Returned("part", v, f.body) ELSE Failed

\* The version asked for or the latest one.
Find(c, n, v) ==
    LET found == IF v = 0 THEN Latest(n) ELSE v IN
    /\ at[c] = "idle"
    /\ IF n \notin kept \/ found = 0
       THEN Return(c, Nothing) /\ UNCHANGED job
       ELSE IF backend = "memory" THEN Return(c, Content(n, found)) /\ UNCHANGED job
       ELSE /\ Go(c, "read") /\ job' = [job EXCEPT ![c] = JobOf(n, found, NoBody)]
            /\ result' = [result EXCEPT ![c] = Pending]
    /\ UNCHANGED <<backend, kept, files, overlapped>>

\* The file may have been deleted after it was looked for: an error.
Read(c) ==
    /\ at[c] = "read"
    /\ LET found == Content(job[c].name, job[c].version) IN
       \/ Return(c, found)
       \/ found = Nothing /\ Return(c, Failed)
    /\ UNCHANGED <<backend, kept, files, job, overlapped>>

\* In memory the entry goes with all of its versions.
Delete(c, n) ==
    /\ at[c] = "idle"
    /\ \/ /\ backend = "memory" /\ Return(c, Nothing) /\ kept' = kept \ {n}
          /\ files' = [files EXCEPT ![n] = [v \in 1 .. MaxVersion |-> Absent]] /\ UNCHANGED job
       \/ /\ backend = "files" /\ n \notin kept /\ Return(c, Failed) /\ UNCHANGED <<kept, files, job>>
       \/ /\ backend = "files" /\ n \in kept /\ Go(c, "rmdir")
          /\ job' = [job EXCEPT ![c] = JobOf(n, 0, NoBody)]
          /\ result' = [result EXCEPT ![c] = Pending] /\ UNCHANGED <<kept, files>>
    /\ UNCHANGED <<backend, overlapped>>

\* remove_dir_all unlinks one entry after the other, those made meanwhile too, ...
Unlink(c, v) ==
    /\ at[c] = "rmdir" /\ v \in Versions(job[c].name)
    /\ files' = [files EXCEPT ![job[c].name][v] = Absent]
    /\ UNCHANGED <<backend, kept, at, job, result, overlapped>>

\* ... and then the directory, or fails: at any entry, and at a directory a save
\* has written to meanwhile.
RemoveDir(c) ==
    LET n == job[c].name IN
    /\ at[c] = "rmdir"
    /\ \/ Versions(n) = {} /\ Return(c, Nothing) /\ kept' = kept \ {n}
       \/ Return(c, Failed) /\ UNCHANGED kept
    /\ UNCHANGED <<backend, files, job, overlapped>>

\* The call is dropped at an await: a file operation that it waits for goes on, the
\* write of a file (which opens it first) and the making of a directory too, but
\* nothing that would come after.
Abandon(c) ==
    /\ at[c] # "idle"
    /\ IF at[c] \in {"scan", "read"} THEN Go(c, "idle")
       ELSE IF at[c] = "mkdir" THEN Go(c, "dropped") ELSE UNCHANGED at
    /\ UNCHANGED <<backend, kept, files, job, result, overlapped>>

FileStep(c) == MakeDir(c) \/ Scan(c) \/ Open(c) \/ Write(c) \/ Read(c) \/ RemoveDir(c)

=============================================================================
