---------------------------- MODULE PushNotifier ----------------------------
(***************************************************************************)
(* Webhooks of an A2A task: tasks/pushNotificationConfig/set and /delete   *)
(* (a2a/server.rs), the configurations the task service keeps              *)
(* (a2a/task_service.rs) and PushNotifier (a2a/push_notifier.rs), which    *)
(* spawns one subscriber per configuration and keeps its JoinHandle in a   *)
(* map.  Removing a subscriber, subscribing and inserting the new handle   *)
(* are three steps of register, with an await between the first two.       *)
(*                                                                         *)
(* A subscriber has the name of the set call that spawned it, which is     *)
(* also the name of the configuration the call stored.                     *)
(***************************************************************************)
EXTENDS TaskService

CONSTANTS
    Config,     \* configuration ids
    Setter,     \* the set calls, and the subscribers they spawn
    Deleter,    \* tasks/pushNotificationConfig/delete calls
    Every,      \* a delete call without a configuration id
    None,       \* no configuration, no subscriber
    Asks,       \* what the calls may be about
    Attempts,   \* POSTs per update (3 in the code)
    MaxUpdates  \* bound: artifact updates of a task's run

ASSUME SetterAssumption == Setter \subseteq Receiver
ASSUME NoneAssumption == None \notin Setter /\ Every \notin Config
ASSUME AsksAssumption ==
    Asks \subseteq {f \in [Setter \cup Deleter -> Config \cup {Every}] : \A s \in Setter : f[s] # Every}
ASSUME AttemptsAssumption == Attempts \in Nat \ {0}
ASSUME UpdatesAssumption == MaxUpdates \in Nat

VARIABLES
    owner,     \* the task a call is about
    key,       \* the configuration id of a call
    configs,   \* push_configs: the set call whose configuration is stored
    active,    \* the map of handles: the subscriber of a configuration
    spc,       \* set calls
    delpc,     \* delete calls
    sub,       \* the spawned subscribers
    aborted,   \* those whose handle was aborted
    sending,   \* the update a subscriber delivers
    tries,     \* POSTs made for it
    agent,     \* the run of a task: what it does to the task next
    settledAs, \* the status it ends with
    updates,   \* artifact updates it has made
    cancels,   \* the tasks/cancel call of a task
    up,        \* FALSE once the notifier is dropped
    muddled    \* history: configurations whose calls overlapped

pushVars == <<configs, active, spc, delpc, muddled>>
subVars  == <<sub, sending, tries>>
runVars  == <<agent, settledAs, updates, cancels>>
fixed    == <<owner, key>>
notifierVars == <<taskVars, pushVars, subVars, aborted, runVars, fixed, up>>

Keys == Task \X Config
Call == Setter \cup Deleter

\* final_task_status, or that of a run that fails.
Outcome == {"completed", "input_required", "failed"}

NotifierTypeOK ==
    /\ TaskTypeOK
    /\ owner \in [Call -> Task]
    /\ key \in Asks
    /\ configs \in [Keys -> Setter \cup {None}]
    /\ active \in [Keys -> Setter \cup {None}]
    /\ spc \in [Setter -> {"new", "stored", "removed", "spawned", "ok", "error"}]
    /\ delpc \in [Deleter -> {"new", "deleted", "ok"}]
    /\ sub \in [Setter -> {"none", "receive", "deliver", "ending", "ended", "stopped"}]
    /\ aborted \subseteq Setter
    /\ sending \in [Setter -> Update \cup {None}]
    /\ tries \in [Setter -> 0 .. Attempts]
    /\ agent \in [Task -> {"new", "run", "settled", "over", "dropped"}]
    /\ settledAs \in [Task -> Outcome \cup {"none"}]
    /\ updates \in [Task -> 0 .. MaxUpdates]
    /\ cancels \in [Task -> {"no", "checked", "set", "done"}]
    /\ up \in BOOLEAN
    /\ muddled \subseteq Keys

NotifierInit ==
    /\ TaskInit
    /\ owner \in [Call -> Task]
    /\ key \in Asks
    /\ configs = [k \in Keys |-> None]
    /\ active = [k \in Keys |-> None]
    /\ spc = [s \in Setter |-> "new"]
    /\ delpc = [d \in Deleter |-> "new"]
    /\ sub = [s \in Setter |-> "none"]
    /\ aborted = {}
    /\ sending = [s \in Setter |-> None]
    /\ tries = [s \in Setter |-> 0]
    /\ agent = [t \in Task |-> "new"]
    /\ settledAs = [t \in Task |-> "none"]
    /\ updates = [t \in Task |-> 0]
    /\ cancels = [t \in Task |-> "no"]
    /\ up = TRUE
    /\ muddled = {}

KeyOf(s)      == <<owner[s], key[s]>>
KeysOf(d)     == {k \in Keys : k[1] = owner[d] /\ key[d] \in {Every, k[2]}}
Handles(keys) == {active[k] : k \in keys} \ {None}

\* Set calls that are between storing the configuration and inserting the
\* handle, and delete calls between the two deletions.
SettingNow(k)  == {s \in Setter : KeyOf(s) = k /\ spc[s] \in {"stored", "removed", "spawned"}}
DeletingNow(k) == {d \in Deleter : k \in KeysOf(d) /\ delpc[d] = "deleted"}
EndingNow(k)   == {s \in Setter : KeyOf(s) = k /\ sub[s] = "ending"}

Running(s) == sub[s] \in {"receive", "deliver"} /\ s \notin aborted

-----------------------------------------------------------------------------
(* tasks/pushNotificationConfig/set.                                       *)

\* Refused: the URL is plaintext and not loopback, or there is no such task.
SetRefused(s) ==
    /\ spc[s] = "new"
    /\ up
    /\ spc' = [spc EXCEPT ![s] = "error"]
    /\ UNCHANGED <<taskVars, configs, active, delpc, subVars, aborted, runVars, fixed, up, muddled>>

\* set_push_config, which keeps one configuration per id.
SetConfig(s) ==
    LET k == KeyOf(s) IN
    /\ spc[s] = "new"
    /\ up
    /\ Exists(owner[s])
    /\ spc' = [spc EXCEPT ![s] = "stored"]
    /\ configs' = [configs EXCEPT ![k] = s]
    /\ muddled' = IF SettingNow(k) \cup DeletingNow(k) = {} THEN muddled ELSE muddled \cup {k}
    /\ UNCHANGED <<taskVars, active, delpc, subVars, aborted, runVars, fixed, up>>

\* Mutant: the previous handle is dropped, which detaches its subscriber.
RegisterDetaches(s) ==
    /\ spc[s] = "stored"
    /\ spc' = [spc EXCEPT ![s] = "removed"]
    /\ active' = [active EXCEPT ![KeyOf(s)] = None]
    /\ UNCHANGED <<taskVars, configs, delpc, subVars, aborted, runVars, fixed, up, muddled>>

\* register: the handle of the previous subscriber is taken and aborted.
RegisterRemoves(s) ==
    /\ spc[s] = "stored"
    /\ spc' = [spc EXCEPT ![s] = "removed"]
    /\ active' = [active EXCEPT ![KeyOf(s)] = None]
    /\ aborted' = aborted \cup Handles({KeyOf(s)})
    /\ UNCHANGED <<taskVars, configs, delpc, subVars, runVars, fixed, up, muddled>>

\* subscribe, and the subscriber is spawned; it runs before its handle is in
\* the map.
RegisterSpawns(s) ==
    /\ spc[s] = "removed"
    /\ \/ /\ Subscribe(s, owner[s])
          /\ spc' = [spc EXCEPT ![s] = "spawned"]
          /\ sub' = [sub EXCEPT ![s] = "receive"]
       \/ /\ ~Open(owner[s])
          /\ spc' = [spc EXCEPT ![s] = "ok"]
          /\ UNCHANGED <<taskVars, sub>>
    /\ UNCHANGED <<configs, active, delpc, sending, tries, aborted, runVars, fixed, up, muddled>>

\* The handle is inserted, over whatever the map holds; a subscriber that has
\* ended by now leaves its handle there.
RegisterInserts(s) ==
    /\ spc[s] = "spawned"
    /\ spc' = [spc EXCEPT ![s] = "ok"]
    /\ active' = [active EXCEPT ![KeyOf(s)] = s]
    /\ muddled' = IF EndingNow(KeyOf(s)) \subseteq {s} THEN muddled ELSE muddled \cup {KeyOf(s)}
    /\ UNCHANGED <<taskVars, configs, delpc, subVars, aborted, runVars, fixed, up>>

-----------------------------------------------------------------------------
(* tasks/pushNotificationConfig/delete.                                    *)

\* delete_push_config: one configuration, or all of the task's.
DeleteConfig(d) ==
    /\ delpc[d] = "new"
    /\ up
    /\ delpc' = [delpc EXCEPT ![d] = "deleted"]
    /\ configs' = [k \in Keys |-> IF k \in KeysOf(d) THEN None ELSE configs[k]]
    /\ muddled' = muddled \cup {k \in KeysOf(d) : SettingNow(k) # {}}
    /\ UNCHANGED <<taskVars, active, spc, subVars, aborted, runVars, fixed, up>>

\* Mutant: every subscriber of the task is stopped.
UnregisterAll(d) ==
    LET keys == {k \in Keys : k[1] = owner[d]} IN
    /\ delpc[d] = "deleted"
    /\ delpc' = [delpc EXCEPT ![d] = "ok"]
    /\ aborted' = aborted \cup Handles(keys)
    /\ active' = [k \in Keys |-> IF k \in keys THEN None ELSE active[k]]
    /\ UNCHANGED <<taskVars, configs, spc, subVars, runVars, fixed, up, muddled>>

\* unregister, under the lock of the map.
Unregister(d) ==
    /\ delpc[d] = "deleted"
    /\ delpc' = [delpc EXCEPT ![d] = "ok"]
    /\ aborted' = aborted \cup Handles(KeysOf(d))
    /\ active' = [k \in Keys |-> IF k \in KeysOf(d) THEN None ELSE active[k]]
    /\ UNCHANGED <<taskVars, configs, spc, subVars, runVars, fixed, up, muddled>>

\* The server goes away, once no call holds its state: Drop aborts what the
\* map holds.
DropNotifier ==
    /\ up
    /\ \A s \in Setter : spc[s] \in {"new", "ok", "error"}
    /\ \A d \in Deleter : delpc[d] \in {"new", "ok"}
    /\ up' = FALSE
    /\ aborted' = aborted \cup Handles(Keys)
    /\ active' = [k \in Keys |-> None]
    /\ UNCHANGED <<taskVars, configs, spc, delpc, subVars, runVars, fixed, muddled>>

-----------------------------------------------------------------------------
(* A subscriber.                                                           *)

Sub(s, from, to) == sub[s] = from /\ sub' = [sub EXCEPT ![s] = to]

\* recv, and the first POST.  An abort is seen at the next await, so the poll
\* that was running may still begin one delivery.
ReceiveUpdate(s) ==
    /\ Sub(s, "receive", "deliver")
    /\ Receive(s)
    /\ sending' = [sending EXCEPT ![s] = Head(queue[s])]
    /\ tries' = [tries EXCEPT ![s] = 1]
    /\ UNCHANGED <<pushVars, aborted, runVars, fixed, up>>

\* Mutant: only a terminal status ends the loop.
AfterDeliveryTerminal(s) ==
    IF IsFinal(sending[s]) /\ sending[s].state \in Terminal THEN "ending" ELSE "receive"

\* After an update: the loop ends with a final one.
AfterDelivery(s) == IF IsFinal(sending[s]) THEN "ending" ELSE "receive"

\* The update is dropped, unless it ended the loop.
Delivered(s) ==
    /\ tries' = [tries EXCEPT ![s] = 0]
    /\ sending' = [sending EXCEPT ![s] = IF AfterDelivery(s) = "receive" THEN None ELSE @]

\* The POST succeeds, or fails and is repeated or, after the last, given up.
Post(s) ==
    /\ s \notin aborted
    /\ \/ Sub(s, "deliver", AfterDelivery(s)) /\ Delivered(s)
       \/ /\ sub[s] = "deliver"
          /\ tries[s] < Attempts
          /\ tries' = [tries EXCEPT ![s] = @ + 1]
          /\ UNCHANGED <<sub, sending>>
       \/ tries[s] = Attempts /\ Sub(s, "deliver", AfterDelivery(s)) /\ Delivered(s)
    /\ UNCHANGED <<taskVars, pushVars, aborted, runVars, fixed, up>>

\* The task ends: it removes the entry of its configuration, whosever it is.
\* There is no await between the loop and this, so an abort comes too late.
Cleanup(s) ==
    /\ Sub(s, "ending", "ended")
    /\ active' = [active EXCEPT ![KeyOf(s)] = None]
    /\ Unsubscribe(s)
    /\ UNCHANGED <<configs, spc, delpc, sending, tries, aborted, runVars, fixed, up, muddled>>

\* An aborted task stops at its await.
Stopped(s) ==
    /\ s \in aborted
    /\ sub[s] \in {"receive", "deliver"}
    /\ sub' = [sub EXCEPT ![s] = "stopped"]
    /\ sending' = [sending EXCEPT ![s] = None] /\ tries' = [tries EXCEPT ![s] = 0]
    /\ Unsubscribe(s)
    /\ UNCHANGED <<pushVars, aborted, runVars, fixed, up>>

SubStep(s) == ReceiveUpdate(s) \/ Post(s) \/ Cleanup(s) \/ Stopped(s)

-----------------------------------------------------------------------------
(* The task, as module A2aServer has it: the run announces artifacts, then *)
(* settles the task and announces that; a cancel may come at any time      *)
(* before a terminal state.  The task is known to clients, who call about  *)
(* it, only after it was announced as working (start_task).                *)

Agent(t, from, to)  == agent[t] = from /\ agent' = [agent EXCEPT ![t] = to]
Cancel(t, from, to) == cancels[t] = from /\ cancels' = [cancels EXCEPT ![t] = to]

TaskCreated(t) ==
    /\ Agent(t, "new", "run")
    /\ CreateTask(t, NewTask)
    /\ UNCHANGED <<pushVars, subVars, aborted, settledAs, updates, cancels, fixed, up>>

\* The caller of message/stream goes away, or finds the task canceled, before
\* the drain is spawned: the run is dropped with the handler.
RunDropped(t) ==
    /\ Agent(t, "run", "dropped")
    /\ updates[t] = 0
    /\ UNCHANGED <<taskVars, pushVars, subVars, aborted, settledAs, updates, cancels, fixed, up>>

ArtifactAppended(t) ==
    /\ Agent(t, "run", "run")
    /\ updates[t] < MaxUpdates
    /\ updates' = [updates EXCEPT ![t] = @ + 1]
    /\ Broadcast(t, Artifact(updates[t] + 1, updates[t] = 0))
    /\ UNCHANGED <<pushVars, subVars, aborted, settledAs, cancels, fixed, up>>

\* The last update_status of the drain, whatever the task's state is by now.
TaskSettled(t) ==
    /\ Agent(t, "run", "settled")
    /\ \E state \in Outcome : settledAs' = [settledAs EXCEPT ![t] = state] /\ SetStatus(t, state)
    /\ UNCHANGED <<pushVars, subVars, aborted, updates, cancels, fixed, up>>

FinalAnnounced(t) ==
    /\ Agent(t, "settled", "over")
    /\ Broadcast(t, Status(settledAs[t], TRUE))
    /\ UNCHANGED <<pushVars, subVars, aborted, settledAs, updates, cancels, fixed, up>>

\* cancel_task: the check and the write under the mutex, each in its turn, and
\* the broadcast.
CancelChecked(t) ==
    /\ Open(t)
    /\ Cancel(t, "no", "checked")
    /\ UNCHANGED <<taskVars, pushVars, subVars, aborted, agent, settledAs, updates, fixed, up>>

TaskCanceled(t) ==
    /\ Cancel(t, "checked", "set")
    /\ SetStatus(t, "canceled")
    /\ UNCHANGED <<pushVars, subVars, aborted, agent, settledAs, updates, fixed, up>>

CancelAnnounced(t) ==
    /\ Cancel(t, "set", "done")
    /\ Broadcast(t, Status("canceled", TRUE))
    /\ UNCHANGED <<pushVars, subVars, aborted, agent, settledAs, updates, fixed, up>>

RunStep(t)    == ArtifactAppended(t) \/ TaskSettled(t) \/ FinalAnnounced(t)
CancelTaskStep(t) == TaskCanceled(t) \/ CancelAnnounced(t)

-----------------------------------------------------------------------------
SetStep(s) == SetConfig(s) \/ RegisterRemoves(s) \/ RegisterSpawns(s) \/ RegisterInserts(s)
DeleteStep(d) == DeleteConfig(d) \/ Unregister(d)

NotifierNext ==
    \/ \E s \in Setter : SetStep(s) \/ SetRefused(s) \/ SubStep(s)
    \/ \E d \in Deleter : DeleteStep(d)
    \/ \E t \in Task : TaskCreated(t) \/ RunDropped(t) \/ RunStep(t) \/ CancelChecked(t) \/ CancelTaskStep(t)
    \/ DropNotifier

\* What the runtime goes on with: spawned tasks and handlers that are ready, the
\* drain and a cancel that has begun.  Nobody has to call, to cancel or to shut down.
Polled ==
    \/ \E s \in Setter : SubStep(s) \/ (SetStep(s) /\ spc[s] # "new")
    \/ \E d \in Deleter : Unregister(d)
    \/ \E t \in Task : RunStep(t) \/ CancelTaskStep(t)

\* It does not stop while one of them is ready.  Each takes finitely many steps,
\* so that all of them come to their turn.
Fairness == WF_notifierVars(Polled)

NotifierSpec == NotifierInit /\ [][NotifierNext]_notifierVars /\ Fairness

-----------------------------------------------------------------------------
(* Properties.                                                             *)

\* What runs for a configuration is the subscriber of the stored one, and its
\* handle is in the map, so that a delete or a new set stops it; nothing runs
\* for a deleted configuration or after Drop.  It takes one of three races to
\* break this: two sets of one id, a set and a delete of one id, or a
\* subscriber that ends after its successor was inserted
\* (push_notifier.rs:94-118, server.rs:707-718).
OneSubscriberPerConfig ==
    \A k \in Keys \ muddled :
        SettingNow(k) \cup DeletingNow(k) = {} =>
            \A s \in Setter :
                KeyOf(s) = k /\ Running(s) => active[k] = s /\ configs[k] = s

\* A webhook is stopped early only because its configuration was replaced or
\* deleted or the server went away: never by another configuration's calls, nor
\* by those of another task (push_notifier.rs:124-141).
StoppedOnlyIfReplaced ==
    \A s \in aborted : configs[KeyOf(s)] # s \/ ~up \/ KeyOf(s) \in muddled

\* A subscriber that listens before the run's final status is announced has
\* delivered, or tried to deliver, a final status when it ends, however far it
\* lags and whatever the webhook answers; even one that no longer is in the map
\* ends.  The status is the run's, unless the task was canceled: the subscriber
\* may end on that, and what the run's drain then writes over it is not posted.
\* A run that is dropped with its caller has no final status
\* (push_notifier.rs:162-187, server.rs:503-519).
FinalIsPosted ==
    \A s \in Setter :
        LET t == owner[s]
            Posted(state) == sub[s] = "ended" /\ sending[s] = Status(state, TRUE)
        IN (sub[s] = "receive" /\ agent[t] \in {"run", "settled"}) ~>
               \/ settledAs[t] # "none" /\ Posted(settledAs[t])
               \/ cancels[t] # "no" /\ Posted("canceled")
               \/ agent[t] = "dropped" /\ cancels[t] = "no"
               \/ s \in aborted

=============================================================================
