---------------------------- MODULE FolderProofs ----------------------------
(***************************************************************************)
(* Proofs about connected and watched folders, in two parts.               *)
(*                                                                         *)
(* RootLifecycle, for any number of selections, commands, events and syncs *)
(* on the way: the state stays well typed, the grant the cloud shows is    *)
(* the registry's once the registry was synchronised, and a denied folder  *)
(* is current again only under a newer connection.                         *)
(*                                                                         *)
(* Monitoring, for any folders, workers and limits and any number of       *)
(* changes, faults and switches: an event is completed only by a later     *)
(* inventory, what a batch holds has one owner, a hint stays until the     *)
(* cloud has its row, and a completed event is never processed again.      *)
(***************************************************************************)
EXTENDS RootLifecycle, Monitoring, FiniteSetTheorems, WellFoundedInduction, TLAPS


-----------------------------------------------------------------------------
(* RootLifecycle: the inductive invariant. *)

WindowSteps == Steps \ {"revision", "permissions"}
TaskStates == [todo : Seq(Steps), command : 0..Len(commands), seen : WatcherStates]
CommandRows == [type : Types, patch : Patches \cup {NoPatch}, rev : Nat,
                status : {"PENDING", "ACKNOWLEDGED", "CLOSED"}]

(* The poll runs a command, the window none; only commands compare revisions
   and write permissions. *)
TaskInv ==
    /\ commands \in Seq(CommandRows)
    /\ task["window"].todo \in Seq(WindowSteps) /\ task["window"].command = 0
    /\ task["poll"].todo # <<>> => task["poll"].command \in 1..Len(commands)

(* A record of the registry, now or earlier: the version names it. *)
Past(s) == s.rev <= native.rev /\ (s.at < native.at \/ s = native)

(* Whatever is on the way was the registry once, which never watches what it
   may not read. *)
SnapshotInv ==
    /\ native.watch => native.read
    /\ \A s \in syncs : Past(s)
    /\ \A r \in reports : Past(r.root)

HistoryTyped == history \in [denied : Nat, deniedNative : Nat, applied : Nat]

(* The row is at least as new as what was applied to it, and as the denial. *)
HistoryInv ==
    /\ history.applied \in 0..row.at /\ history.denied \in 0..row.rev
    /\ row.status = "NONE" => history.denied = 0 /\ history.applied = 0

Inv == TypeOK /\ TaskInv /\ SnapshotInv /\ HistoryTyped /\ HistoryInv /\ SyncedAgrees /\ DenialHolds

-----------------------------------------------------------------------------
(* Typing. *)

(* What a request of the window and a command do are steps of a task. *)
LEMMA ProgramTyped ==
    /\ \A kind \in {"pause", "resume", "disconnect"} : Requested(kind) \in Seq(WindowSteps)
    /\ \A c \in CommandRows : Program(c) \in Seq(Steps)
<1>1. /\ <<"disarm", "PAUSED">> \in Seq(WindowSteps) /\ <<"check">> \in Seq(WindowSteps)
      /\ <<"ask">> \in Seq(WindowSteps)
  BY DEF WindowSteps, Steps
<1>2. /\ <<"permissions">> \in Seq(Steps) /\ <<"check">> \in Seq(Steps)
      /\ <<"disarm", "PAUSED">> \in Seq(Steps) /\ <<"disarm", "STOPPED", "disconnect">> \in Seq(Steps)
  BY DEF Steps
<1>3. \A kind \in {"pause", "resume", "disconnect"} : Requested(kind) \in Seq(WindowSteps)
  BY <1>1 DEF Requested
<1>4. ASSUME NEW c \in CommandRows PROVE Program(c) \in Seq(Steps)
  <2>1. c.type \in Types
    BY DEF CommandRows
  <2> QED
    BY <1>2, <2>1 DEF Program, Types
<1> QED
  BY <1>3, <1>4

(* The sequences of steps a task may go on with. *)
LEMMA RestTyped ==
    /\ <<>> \in Seq(WindowSteps) /\ <<"WATCHING">> \in Seq(WindowSteps) /\ <<"arm">> \in Seq(WindowSteps)
    /\ <<"attention">> \in Seq(WindowSteps) /\ <<"disarm", "STOPPED">> \in Seq(WindowSteps)
    /\ <<"disarm", "STOPPED", "disconnect">> \in Seq(WindowSteps) /\ <<"disconnect">> \in Seq(WindowSteps)
    /\ <<"check">> \in Seq(WindowSteps) /\ <<"revision">> \in Seq(Steps)
    /\ \A s \in Seq(WindowSteps) : s \in Seq(Steps)
  BY DEF WindowSteps, Steps

(* A task that is idle. *)
LEMMA IdleTyped ==
    ASSUME TaskInv PROVE IdleTask \in TaskStates /\ IdleTask.todo = <<>> /\ IdleTask.command = 0
<1>1. <<>> \in Seq(Steps)
  BY RestTyped
<1>2. Len(commands) \in Nat
  BY DEF TaskInv
<1> QED
  BY <1>1, <1>2 DEF IdleTask, TaskStates, WatcherStates

(* A report is typed when its command and its record of the folder are. *)
ReportRows == [command : 1..Len(commands), status : {"COMPLETED", "FAILED"}, root : Registry]

(* A task that goes on with typed steps stays a task, and what it reports is the
   registry it leaves. *)
LEMMA ContinueTyped ==
    ASSUME TypeOK, TaskInv, NEW t \in Tasks, task[t].todo # <<>>, native' \in Registry, UNCHANGED commands,
           NEW rest \in Seq(Steps), t = "window" => rest \in Seq(WindowSteps), Continue(t, rest)
    PROVE  /\ task' \in [Tasks -> TaskStates] /\ reports' \subseteq ReportRows /\ TaskInv'
           /\ \A r \in reports' : r \in reports \/ r.root = native'
<1> USE DEF TypeOK, TaskStates, ReportRows
<1>1. CASE rest = <<>>
  <2>1. /\ task' = [task EXCEPT ![t] = IdleTask]
        /\ reports' = IF task[t].command = 0 THEN reports
                      ELSE reports \cup {[command |-> task[t].command, status |-> "COMPLETED", root |-> native']}
    BY <1>1 DEF Continue
  <2>2. reports' \subseteq ReportRows /\ \A r \in reports' : r \in reports \/ r.root = native'
    BY <2>1 DEF Tasks
  <2>3. task' \in [Tasks -> TaskStates]
    BY <2>1, IdleTyped
  <2>4. TaskInv'
    BY <2>1, IdleTyped, RestTyped DEF TaskInv, Tasks
  <2> QED
    BY <2>2, <2>3, <2>4
<1>2. CASE rest # <<>>
  <2>1. task' = [task EXCEPT ![t].todo = rest] /\ reports' = reports
    BY <1>2 DEF Continue
  <2>2. task' \in [Tasks -> TaskStates]
    BY <2>1
  <2>3. TaskInv'
    BY <2>1 DEF TaskInv, Tasks
  <2> QED
    BY <2>1, <2>2, <2>3
<1> QED
  BY <1>1, <1>2

(* The same for a handler that throws: it reports the registry it found. *)
LEMMA ThrowTyped ==
    ASSUME TypeOK, TaskInv, NEW t \in Tasks, UNCHANGED commands, Throw(t)
    PROVE  /\ task' \in [Tasks -> TaskStates] /\ reports' \subseteq ReportRows /\ TaskInv'
           /\ \A r \in reports' : r \in reports \/ r.root = native
<1> USE DEF TypeOK, TaskStates, ReportRows
<1>1. /\ task' = [task EXCEPT ![t] = IdleTask]
      /\ reports' = IF task[t].command = 0 THEN reports
                    ELSE reports \cup {[command |-> task[t].command, status |-> "FAILED", root |-> native]}
  BY DEF Throw
<1>2. reports' \subseteq ReportRows /\ \A r \in reports' : r \in reports \/ r.root = native
  BY <1>1 DEF Tasks
<1>3. task' \in [Tasks -> TaskStates]
  BY <1>1, IdleTyped
<1>4. TaskInv'
  BY <1>1, IdleTyped, RestTyped DEF TaskInv, Tasks
<1> QED
  BY <1>2, <1>3, <1>4

(* Every write of the registry leaves it well typed under a newer version. *)
LEMMA SavedTyped ==
    ASSUME native \in Registry, NEW n \in Registry, n.rev = native.rev
    PROVE  /\ Saved(n) \in Registry /\ Saved(n).rev = native.rev /\ Saved(n).at > native.at
           /\ Saved(n).watch = n.watch /\ Saved(n).read = n.read
<1>1. native.at + 1 \in Nat /\ native.at + 1 > native.at
  BY DEF Registry
<1> DEFINE v == native.at + 1
<1> HIDE DEF v
<1>2. [n EXCEPT !.at = v] \in Registry /\ [n EXCEPT !.at = v].at = v
  BY <1>1 DEF Registry, v
<1>3. [n EXCEPT !.at = v].rev = n.rev /\ [n EXCEPT !.at = v].watch = n.watch /\ [n EXCEPT !.at = v].read = n.read
  BY DEF Registry
<1> QED
  BY <1>1, <1>2, <1>3 DEF Saved, v

(* What every step of a task keeps. *)
StepKeeps ==
    /\ native' \in Registry /\ native'.rev = native.rev
    /\ native' = native \/ native'.at > native.at
    /\ native'.watch => native'.read
    /\ task' \in [Tasks -> TaskStates] /\ reports' \subseteq ReportRows /\ TaskInv'
    /\ \A r \in reports' : r \in reports \/ r.root = native \/ r.root = native'
    /\ handle' \in BOOLEAN
    /\ UNCHANGED <<row, commands, syncs, history>>

(* Every step of the poll or the window leaves the registry, the tasks and the
   reports well formed, and the cloud alone. *)
LEMMA StepTyped == ASSUME Inv, NEW t \in Tasks, Step(t) PROVE StepKeeps
<1> USE DEF Inv
<1>1. /\ native \in Registry /\ (native.watch => native.read) /\ handle \in BOOLEAN
      /\ native.read \in BOOLEAN /\ native.watch \in BOOLEAN /\ native.at \in Nat
      /\ task[t].todo # <<>> => task[t].todo \in Seq(Steps) /\ Tail(task[t].todo) \in Seq(Steps)
  BY DEF TypeOK, SnapshotInv, Registry
<1>2. t = "window" /\ task[t].todo # <<>> => Tail(task[t].todo) \in Seq(WindowSteps)
  BY DEF TaskInv
<1>3. CASE CheckRevision(t)
  <2>1. Doing(t, "revision") /\ UNCHANGED <<native, row, commands, syncs, history, handle>>
    BY <1>3 DEF CheckRevision
  <2>2. t = "poll"
    <3>1. t = "window" => Head(task[t].todo) \in WindowSteps
      BY <2>1 DEF Doing, TaskInv
    <3> QED
      BY <2>1, <3>1 DEF Doing, WindowSteps, Tasks
  <2>3. Program(commands[task[t].command]) \in Seq(Steps)
    <3>1. commands[task[t].command] \in CommandRows
      BY <2>1, <2>2 DEF Doing, TaskInv
    <3> QED
      BY <3>1, ProgramTyped
  <2>4. CASE Continue(t, Program(commands[task[t].command]))
    BY <1>1, <2>1, <2>2, <2>3, <2>4, ContinueTyped DEF Doing, StepKeeps
  <2>5. CASE Throw(t)
    BY <1>1, <2>1, <2>5, ThrowTyped DEF StepKeeps
  <2> QED
    BY <1>3, <2>4, <2>5 DEF CheckRevision
<1>4. CASE CheckWatch(t)
  <2>1. Doing(t, "check") /\ UNCHANGED <<native, row, commands, syncs, history, handle>>
    BY <1>4 DEF CheckWatch
  <2>2. CASE Continue(t, <<"WATCHING">>) \/ Continue(t, <<"arm">>)
    BY <1>1, <2>1, <2>2, ContinueTyped, RestTyped DEF Doing, StepKeeps
  <2>3. CASE Throw(t)
    BY <1>1, <2>1, <2>3, ThrowTyped DEF StepKeeps
  <2> QED
    BY <1>4, <2>2, <2>3 DEF CheckWatch
<1>5. CASE Arm(t)
  <2>1. task[t].todo # <<>> /\ UNCHANGED <<row, commands, syncs, history>> /\ handle' \in BOOLEAN
    BY <1>1, <1>5 DEF Arm, Doing
  <2>2. native' = native
    BY <1>1, <1>5 DEF Arm
  <2>3. Continue(t, <<"WATCHING">>)
    BY <1>5 DEF Arm
  <2> QED
    BY <1>1, <1>2, <2>1, <2>2, <2>3, ContinueTyped, RestTyped DEF StepKeeps
<1>6. CASE ArmFails(t)
  <2>1. task[t].todo # <<>> /\ UNCHANGED <<row, commands, syncs, history>> /\ handle' \in BOOLEAN
    BY <1>1, <1>6 DEF ArmFails, Doing
  <2>2. native' = native
    BY <1>1, <1>6 DEF ArmFails
  <2>3. Continue(t, <<"attention">>)
    BY <1>6 DEF ArmFails
  <2> QED
    BY <1>1, <1>2, <2>1, <2>2, <2>3, ContinueTyped, RestTyped DEF StepKeeps
<1>7. CASE NeedsAttention(t)
  <2>1. /\ native' = Saved([native EXCEPT !.status = "NEEDS_ATTENTION", !.watcher = "NEEDS_ATTENTION"])
        /\ UNCHANGED <<row, commands, syncs, history, handle>> /\ Throw(t)
    BY <1>7 DEF NeedsAttention, Throw
  <2>2. /\ native' \in Registry /\ native'.rev = native.rev /\ native'.at > native.at
        /\ native'.watch => native'.read
    <3> DEFINE n == [native EXCEPT !.status = "NEEDS_ATTENTION", !.watcher = "NEEDS_ATTENTION"]
    <3>1. n \in Registry /\ n.rev = native.rev /\ n.watch = native.watch /\ n.read = native.read
      BY <1>1 DEF Registry, NativeStatuses, WatcherStates
    <3> QED
      BY <1>1, <2>1, <3>1, SavedTyped
  <2> QED
    BY <1>1, <2>1, <2>2, ThrowTyped DEF StepKeeps
<1>8. CASE Disarm(t)
  <2>1. task[t].todo # <<>> /\ UNCHANGED <<row, commands, syncs, history>> /\ handle' \in BOOLEAN
    BY <1>1, <1>8 DEF Disarm, Doing
  <2>2. native' = native
    BY <1>1, <1>8 DEF Disarm
  <2>3. Continue(t, Tail(task[t].todo))
    BY <1>8 DEF Disarm, GoOn
  <2> QED
    BY <1>1, <1>2, <2>1, <2>2, <2>3, ContinueTyped, RestTyped DEF StepKeeps
<1>9. CASE SaveWatcher(t)
  <2>1. task[t].todo # <<>> /\ UNCHANGED <<row, commands, syncs, history>> /\ handle' \in BOOLEAN
    BY <1>1, <1>9 DEF SaveWatcher, Doing
  <2>2. /\ native' \in Registry /\ native'.rev = native.rev /\ native'.at > native.at
        /\ native'.watch => native'.read
    <3>1. PICK state \in {"WATCHING", "PAUSED", "STOPPED"} :
             native' = Saved([native EXCEPT !.watcher = state,
                                            !.status = IF state = "WATCHING" THEN "CONNECTED" ELSE @])
      BY <1>9 DEF SaveWatcher
    <3> DEFINE st == IF state = "WATCHING" THEN "CONNECTED" ELSE native.status
               n == [native EXCEPT !.watcher = state, !.status = st]
    <3>2. st \in NativeStatuses /\ state \in WatcherStates
      BY <1>1 DEF Registry, NativeStatuses, WatcherStates
    <3>3. n \in Registry /\ n.rev = native.rev /\ n.watch = native.watch /\ n.read = native.read
      <4> HIDE DEF st
      <4> QED
        BY <1>1, <3>2 DEF Registry
    <3> QED
      BY <1>1, <3>1, <3>3, SavedTyped
  <2>3. Continue(t, Tail(task[t].todo))
    BY <1>9 DEF SaveWatcher, GoOn
  <2> QED
    BY <1>1, <1>2, <2>1, <2>2, <2>3, ContinueTyped, RestTyped DEF StepKeeps
<1>10. CASE SavePermissions(t)
  <2> DEFINE patch == commands[task[t].command].patch
             read == Patched(patch.read, native.read)
             watch == Patched(patch.watch, native.watch)
  <2>1. Doing(t, "permissions") /\ UNCHANGED <<row, commands, syncs, history, handle>>
    BY <1>10 DEF SavePermissions
  <2>2. read \in BOOLEAN /\ watch \in BOOLEAN
    BY <1>1 DEF Patched
  <2>3. CASE UNCHANGED native /\ Throw(t)
    BY <1>1, <2>1, <2>3, ThrowTyped DEF StepKeeps
  <2>4. CASE /\ ~(watch /\ ~read)
             /\ native' = Saved([native EXCEPT !.read = read, !.watch = watch,
                                   !.watcher = IF ~watch /\ @ = "WATCHING" THEN "PAUSED" ELSE @])
             /\ Continue(t, IF ~watch \/ patch.read = "off" THEN <<"disarm", "STOPPED">> ELSE <<>>)
    <3>1. /\ native' \in Registry /\ native'.rev = native.rev /\ native'.at > native.at
          /\ native'.watch = watch /\ native'.read = read
      <4> DEFINE w == IF ~watch /\ native.watcher = "WATCHING" THEN "PAUSED" ELSE native.watcher
                 n == [native EXCEPT !.read = read, !.watch = watch, !.watcher = w]
      <4>1. w \in WatcherStates
        BY <1>1 DEF Registry, WatcherStates
      <4>2. n \in Registry /\ n.rev = native.rev /\ n.watch = watch /\ n.read = read
        <5> HIDE DEF read, watch, w
        <5> QED
          BY <1>1, <2>2, <4>1 DEF Registry
      <4>3. native' = Saved(n)
        BY <2>4
      <4> HIDE DEF n
      <4> QED
        BY <1>1, <4>2, <4>3, SavedTyped
    <3>2. native'.watch => native'.read
      BY <2>4, <3>1
    <3> QED
      BY <1>1, <2>1, <2>4, <3>1, <3>2, ContinueTyped, RestTyped DEF Doing, StepKeeps
  <2> QED
    BY <1>10, <2>3, <2>4 DEF SavePermissions
<1>11. CASE ConfirmDisconnect(t)
  <2>1. Doing(t, "ask") /\ UNCHANGED <<native, row, commands, syncs, history, handle>>
    BY <1>11 DEF ConfirmDisconnect
  <2>2. Continue(t, <<"disarm", "STOPPED", "disconnect">>) \/ Continue(t, <<"disconnect">>)
    BY <1>11 DEF ConfirmDisconnect
  <2> QED
    BY <1>1, <2>1, <2>2, ContinueTyped, RestTyped DEF Doing, StepKeeps
<1>12. CASE CancelDisconnect(t)
  <2>1. task[t].todo # <<>> /\ UNCHANGED <<row, commands, syncs, history>> /\ handle' \in BOOLEAN
    BY <1>1, <1>12 DEF CancelDisconnect, Doing
  <2>2. native' = native
    BY <1>1, <1>12 DEF CancelDisconnect
  <2>3. Continue(t, Tail(task[t].todo))
    BY <1>12 DEF CancelDisconnect, GoOn
  <2> QED
    BY <1>1, <1>2, <2>1, <2>2, <2>3, ContinueTyped, RestTyped DEF StepKeeps
<1>13. CASE DisconnectRoot(t)
  <2>1. task[t].todo # <<>> /\ UNCHANGED <<row, commands, syncs, history>> /\ handle' \in BOOLEAN
    BY <1>1, <1>13 DEF DisconnectRoot, Doing
  <2>2. /\ native' \in Registry /\ native'.rev = native.rev /\ native'.at > native.at
        /\ native'.watch => native'.read
    <3> DEFINE n == [native EXCEPT !.watch = FALSE, !.status = "DISCONNECTED", !.watcher = "STOPPED"]
    <3>1. n \in Registry /\ n.rev = native.rev /\ n.watch = FALSE
      BY <1>1 DEF Registry, NativeStatuses, WatcherStates
    <3>2. native' = Saved(n)
      BY <1>13 DEF DisconnectRoot
    <3> QED
      BY <1>1, <3>1, <3>2, SavedTyped
  <2>3. Continue(t, Tail(task[t].todo))
    BY <1>13 DEF DisconnectRoot, GoOn
  <2> QED
    BY <1>1, <1>2, <2>1, <2>2, <2>3, ContinueTyped, RestTyped DEF StepKeeps
<1> QED
  BY <1>3, <1>4, <1>5, <1>6, <1>7, <1>8, <1>9, <1>10, <1>11, <1>12, <1>13 DEF Step

(* What the other actions leave alone. *)
LEMMA Frames ==
    /\ Register => UNCHANGED <<handle, task, row, commands, reports, syncs, history>>
    /\ WatcherError \/ Restart => handle' = FALSE /\ UNCHANGED <<native, row, commands, reports, syncs, history>>
    /\ SendSync => syncs' = syncs \cup {native} /\ UNCHANGED <<native, handle, task, row, commands, reports, history>>
    /\ LoseSync => syncs' \subseteq syncs /\ UNCHANGED <<native, handle, task, row, commands, reports, history>>
    /\ \A kind : WindowRequest(kind) => UNCHANGED <<native, handle, row, commands, reports, syncs, history>>
    /\ \A s : DeliverSync(s) => syncs' \subseteq syncs /\ UNCHANGED <<native, handle, task, reports>>
    /\ \A r : DeliverReport(r) => reports' \subseteq reports /\ UNCHANGED <<native, handle, task, syncs, history>>
    /\ \A patch : QueuePermission(patch) => UNCHANGED <<native, handle, task, row, reports, syncs, history>>
    /\ \A type : QueueWatching(type) => UNCHANGED <<native, handle, task, row, reports, syncs, history>>
    /\ \A hide : Deny(hide) => UNCHANGED <<native, handle, task, reports, syncs>>
    /\ \A c : Acknowledge(c) => UNCHANGED <<native, handle, row, reports, syncs, history>>
    /\ \A c : AcknowledgeRefused(c) \/ Expire(c) => UNCHANGED <<native, handle, task, row, reports, syncs, history>>
<1>1. Register => UNCHANGED <<handle, task, row, commands, reports, syncs, history>>
  BY DEF Register
<1>2. WatcherError \/ Restart => handle' = FALSE /\ UNCHANGED <<native, row, commands, reports, syncs, history>>
  BY DEF WatcherError, Restart
<1>3. /\ SendSync => syncs' = syncs \cup {native} /\ UNCHANGED <<native, handle, task, row, commands, reports, history>>
      /\ LoseSync => syncs' \subseteq syncs /\ UNCHANGED <<native, handle, task, row, commands, reports, history>>
  BY DEF SendSync, LoseSync
<1>4. \A kind : WindowRequest(kind) => UNCHANGED <<native, handle, row, commands, reports, syncs, history>>
  BY DEF WindowRequest
<1>5. \A s : DeliverSync(s) => syncs' \subseteq syncs /\ UNCHANGED <<native, handle, task, reports>>
  BY DEF DeliverSync
<1>6. \A r : DeliverReport(r) => reports' \subseteq reports /\ UNCHANGED <<native, handle, task, syncs, history>>
  BY DEF DeliverReport
<1>7. \A patch : QueuePermission(patch) => UNCHANGED <<native, handle, task, row, reports, syncs, history>>
  BY DEF QueuePermission
<1>8. \A type : QueueWatching(type) => UNCHANGED <<native, handle, task, row, reports, syncs, history>>
  BY DEF QueueWatching
<1>9. \A hide : Deny(hide) => UNCHANGED <<native, handle, task, reports, syncs>>
  BY DEF Deny
<1>10. \A c : Acknowledge(c) => UNCHANGED <<native, handle, row, reports, syncs, history>>
  BY DEF Acknowledge
<1>11. \A c : AcknowledgeRefused(c) \/ Expire(c) => UNCHANGED <<native, handle, task, row, reports, syncs, history>>
  BY DEF AcknowledgeRefused, Expire
<1> QED
  BY <1>1, <1>2, <1>3, <1>4, <1>5, <1>6, <1>7, <1>8, <1>9, <1>10, <1>11

-----------------------------------------------------------------------------
(* The queue of commands. *)

(* The same commands but for their status. *)
Rewritten(queue) ==
    /\ queue \in Seq(CommandRows) /\ Len(queue) = Len(commands)
    /\ \A c \in 1..Len(commands) : queue[c].rev = commands[c].rev

(* Retiring commands rewrites their rows and issues none. *)
LEMMA RetiredTyped == ASSUME TaskInv PROVE Rewritten(Retired)
<1>1. commands \in Seq(CommandRows) /\ Len(commands) \in Nat /\ DOMAIN commands = 1..Len(commands)
  BY DEF TaskInv
<1>2. ASSUME NEW c \in 1..Len(commands) PROVE Retired[c] \in CommandRows /\ Retired[c].rev = commands[c].rev
  <2>1. commands[c] \in CommandRows
    BY <1>1
  <2>2. [commands[c] EXCEPT !.status = "CLOSED"] \in CommandRows
        /\ [commands[c] EXCEPT !.status = "CLOSED"].rev = commands[c].rev
    BY <2>1 DEF CommandRows
  <2>3. Retired[c] = [commands[c] EXCEPT !.status = "CLOSED"] \/ Retired[c] = commands[c]
    BY <1>1 DEF Retired
  <2> QED
    BY <2>1, <2>2, <2>3
<1>3. Retired \in [1..Len(commands) -> CommandRows]
  <2>1. Retired = [c \in 1..Len(commands) |-> Retired[c]]
    BY <1>1 DEF Retired
  <2> QED
    BY <1>2, <2>1
<1>4. Retired \in Seq(CommandRows) /\ Len(Retired) = Len(commands)
  BY <1>1, <1>3
<1> QED
  BY <1>2, <1>4 DEF Rewritten

(* Settling one command. *)
LEMMA SettledTyped ==
    ASSUME TaskInv, NEW c \in 1..Len(commands), NEW status \in {"PENDING", "ACKNOWLEDGED", "CLOSED"}
    PROVE  Rewritten([commands EXCEPT ![c].status = status])
<1> DEFINE e == [commands[c] EXCEPT !.status = status]
<1>1. commands \in Seq(CommandRows) /\ Len(commands) \in Nat /\ commands[c] \in CommandRows
  BY DEF TaskInv
<1>2. e \in CommandRows /\ e.rev = commands[c].rev
  BY <1>1 DEF CommandRows
<1>3. [commands EXCEPT ![c].status = status] = [commands EXCEPT ![c] = e]
  OBVIOUS
<1> HIDE DEF e
<1>4. [commands EXCEPT ![c] = e] \in Seq(CommandRows) /\ Len([commands EXCEPT ![c] = e]) = Len(commands)
  BY <1>1, <1>2
<1>5. \A d \in 1..Len(commands) : [commands EXCEPT ![c] = e][d].rev = commands[d].rev
  BY <1>1, <1>2
<1> QED
  BY <1>3, <1>4, <1>5 DEF Rewritten

(* Issuing one stamps it with the revision of the row. *)
LEMMA IssueTyped ==
    ASSUME NEW queue \in Seq(CommandRows), row.rev \in Nat, NEW type \in Types, NEW patch \in Patches \cup {NoPatch}
    PROVE  /\ Issue(queue, type, patch) \in Seq(CommandRows) /\ Len(Issue(queue, type, patch)) = Len(queue) + 1
           /\ \A c \in 1..Len(queue) : Issue(queue, type, patch)[c] = queue[c]
           /\ Issue(queue, type, patch)[Len(queue) + 1].rev = row.rev
<1> DEFINE e == [type |-> type, patch |-> patch, rev |-> row.rev, status |-> "PENDING"]
<1>1. e \in CommandRows /\ e.rev = row.rev
  BY DEF CommandRows
<1>2. Issue(queue, type, patch) = Append(queue, e)
  BY DEF Issue
<1> HIDE DEF e
<1> QED
  BY <1>1, <1>2

(* Commands are never forgotten, and carry a revision the row had. *)
QueueKept ==
    /\ commands' \in Seq(CommandRows) /\ Len(commands') >= Len(commands)
    /\ \A c \in 1..Len(commands') : commands'[c].rev \in 0..row.rev

(* No step loses a command or reuses its place in the queue. *)
LEMMA QueueStep == ASSUME Inv, Next PROVE QueueKept
<1>1. /\ TaskInv /\ commands \in Seq(CommandRows) /\ Len(commands) \in Nat /\ DOMAIN commands = 1..Len(commands)
      /\ row.rev \in Nat
      /\ \A c \in 1..Len(commands) : commands[c].rev \in 0..row.rev
  BY DEF Inv, TypeOK, TaskInv, Registry
<1>2. ASSUME Rewritten(commands') PROVE QueueKept
  BY <1>1, <1>2 DEF Rewritten, QueueKept
<1>3. ASSUME NEW queue, Rewritten(queue), NEW type \in Types, NEW patch \in Patches \cup {NoPatch},
             commands' = Issue(queue, type, patch)
      PROVE  QueueKept
  <2>1. /\ queue \in Seq(CommandRows) /\ Len(queue) = Len(commands)
        /\ \A c \in 1..Len(commands) : queue[c].rev \in 0..row.rev
    BY <1>1, <1>3 DEF Rewritten
  <2>2. /\ commands' \in Seq(CommandRows) /\ Len(commands') = Len(commands) + 1
        /\ \A c \in 1..Len(commands) : commands'[c] = queue[c]
        /\ commands'[Len(commands) + 1].rev = row.rev
    <3>1. row.rev \in Nat
      BY <1>1
    <3>2. /\ Issue(queue, type, patch) \in Seq(CommandRows)
          /\ Len(Issue(queue, type, patch)) = Len(queue) + 1
          /\ \A c \in 1..Len(queue) : Issue(queue, type, patch)[c] = queue[c]
          /\ Issue(queue, type, patch)[Len(queue) + 1].rev = row.rev
      BY <2>1, <3>1, IssueTyped
    <3> QED
      BY <1>3, <2>1, <3>2
  <2>3. ASSUME NEW c \in 1..(Len(commands) + 1) PROVE commands'[c].rev \in 0..row.rev
    <3>1. CASE c \in 1..Len(commands)
      BY <2>1, <2>2, <3>1
    <3>2. CASE c = Len(commands) + 1
      BY <1>1, <2>2, <3>2
    <3> QED
      BY <1>1, <3>1, <3>2
  <2> QED
    BY <1>1, <2>2, <2>3 DEF QueueKept
<1>4. Rewritten(commands)
  BY <1>1 DEF Rewritten
<1>5. CASE UNCHANGED commands
  BY <1>2, <1>4, <1>5
<1>6. ASSUME NEW s \in syncs, DeliverSync(s) PROVE QueueKept
  BY <1>1, <1>2, <1>4, <1>6, RetiredTyped DEF DeliverSync
<1>7. ASSUME NEW r \in reports, DeliverReport(r) PROVE QueueKept
  <2>1. r.command \in 1..Len(commands)
    BY DEF Inv, TypeOK
  <2>2. commands' = commands \/ commands' = [commands EXCEPT ![r.command].status = "CLOSED"]
    BY <1>7 DEF DeliverReport
  <2> QED
    BY <1>1, <1>2, <1>4, <2>1, <2>2, SettledTyped
<1>8. ASSUME NEW patch \in Patches, QueuePermission(patch) PROVE QueueKept
  <2>1. commands' = Issue(commands, "UPDATE_ROOT_PERMISSIONS", patch)
    BY <1>8 DEF QueuePermission
  <2>2. "UPDATE_ROOT_PERMISSIONS" \in Types
    BY DEF Types
  <2> QED
    BY <1>3, <1>4, <2>1, <2>2
<1>9. ASSUME NEW type \in {"START_WATCHING", "PAUSE_WATCHING"}, QueueWatching(type) PROVE QueueKept
  <2>1. commands' = Issue(commands, type, NoPatch)
    BY <1>9 DEF QueueWatching
  <2>2. type \in Types
    BY DEF Types
  <2> QED
    BY <1>3, <1>4, <2>1, <2>2
<1>10. ASSUME NEW hide \in BOOLEAN, Deny(hide) PROVE QueueKept
  <2>1. commands' = Retired \/ commands' = Issue(Retired, "REVOKE_ROOT_ACCESS", NoPatch)
    BY <1>10 DEF Deny
  <2>2. "REVOKE_ROOT_ACCESS" \in Types
    BY DEF Types
  <2> QED
    BY <1>1, <1>2, <1>3, <2>1, <2>2, RetiredTyped
<1>11. ASSUME NEW c \in DOMAIN commands, Acknowledge(c) \/ AcknowledgeRefused(c) \/ Expire(c) PROVE QueueKept
  <2>1. \/ commands' = [commands EXCEPT ![c].status = "ACKNOWLEDGED"]
        \/ commands' = [commands EXCEPT ![c].status = "CLOSED"]
    BY <1>11 DEF Acknowledge, AcknowledgeRefused, Expire
  <2> QED
    BY <1>1, <1>2, <2>1, SettledTyped
<1>12. ASSUME NEW t \in Tasks, Step(t) PROVE UNCHANGED commands
  BY <1>12, StepTyped DEF StepKeeps
<1> QED
  BY <1>5, <1>6, <1>7, <1>8, <1>9, <1>10, <1>11, <1>12, Frames DEF Next

-----------------------------------------------------------------------------
(* The registry and the tasks. *)

(* The registry only gets newer. *)
NativeKept ==
    /\ native' \in Registry /\ native'.rev >= native.rev
    /\ native' = native \/ native'.at > native.at
    /\ native'.watch => native'.read
    /\ handle' \in BOOLEAN

(* The registry of the Bridge stays well formed. *)
LEMMA NativeStep == ASSUME Inv, Next PROVE NativeKept
<1>1. /\ native \in Registry /\ (native.watch => native.read) /\ handle \in BOOLEAN
      /\ native.rev \in 0..MaxRegistrations /\ native.at \in Nat /\ MaxRegistrations \in Nat
  BY RootAssumption DEF Inv, TypeOK, SnapshotInv, Registry
<1>2. CASE UNCHANGED native /\ handle' \in BOOLEAN
  BY <1>1, <1>2 DEF NativeKept
<1>3. CASE Register
  <2> DEFINE w == IF native.rev = 0 THEN "STOPPED" ELSE "PAUSED"
             r == native.rev + 1
             v == native.at + 1
  <2>1. native' = [status |-> "CONNECTED", read |-> TRUE, watch |-> FALSE, at |-> v, rev |-> r, watcher |-> w]
    BY <1>3 DEF Register, Saved
  <2>2. /\ w \in WatcherStates /\ r \in 0..MaxRegistrations /\ v \in Nat
        /\ r >= native.rev /\ v > native.at
    BY <1>1, <1>3 DEF WatcherStates, Register
  <2> HIDE DEF w, r, v
  <2>3. native' \in Registry
    BY <2>1, <2>2 DEF Registry, NativeStatuses
  <2>4. native'.rev = r /\ native'.at = v /\ native'.watch = FALSE
    BY <2>1
  <2>5. handle' = handle
    BY <1>3 DEF Register
  <2> QED
    BY <1>1, <2>2, <2>3, <2>4, <2>5 DEF NativeKept
<1>4. ASSUME NEW t \in Tasks, Step(t) PROVE NativeKept
  BY <1>1, <1>4, StepTyped DEF StepKeeps, NativeKept
<1>5. \/ UNCHANGED native /\ handle' \in BOOLEAN
      \/ Register
      \/ \E t \in Tasks : Step(t)
  BY <1>1, Frames DEF Next
<1> QED
  BY <1>2, <1>3, <1>4, <1>5

(* A task knows its command, whatever else happens to the queue. *)
LEMMA TaskStep == ASSUME Inv, Next PROVE task' \in [Tasks -> TaskStates'] /\ TaskInv'
<1>1. /\ task \in [Tasks -> TaskStates] /\ TaskInv /\ commands \in Seq(CommandRows) /\ Len(commands) \in Nat
      /\ commands' \in Seq(CommandRows) /\ Len(commands') \in Nat /\ Len(commands') >= Len(commands)
      /\ native.watcher \in WatcherStates /\ DOMAIN commands = 1..Len(commands)
  BY QueueStep DEF Inv, TypeOK, TaskInv, TaskStates, QueueKept, Registry
<1>2. TaskStates \subseteq TaskStates'
  BY <1>1 DEF TaskStates
<1>3. IdleTask \in TaskStates /\ IdleTask.todo = <<>> /\ IdleTask.command = 0
  BY <1>1, IdleTyped
<1>4. ASSUME NEW steps \in Seq(WindowSteps), NEW seen \in WatcherStates, NEW w,
             w = [todo |-> steps, command |-> 0, seen |-> seen]
      PROVE  w \in TaskStates /\ w.todo \in Seq(WindowSteps) /\ w.command = 0
  BY <1>1, <1>4, RestTyped DEF TaskStates
<1>5. [IdleTask EXCEPT !.todo = <<"attention">>] = [todo |-> <<"attention">>, command |-> 0, seen |-> "STOPPED"]
      /\ [IdleTask EXCEPT !.todo = <<"check">>] = [todo |-> <<"check">>, command |-> 0, seen |-> "STOPPED"]
  BY DEF IdleTask
<1>6. "STOPPED" \in WatcherStates
  BY DEF WatcherStates
<1>7. ASSUME NEW w \in TaskStates, w.todo \in Seq(WindowSteps), w.command = 0,
             task' = [task EXCEPT !["window"] = w]
      PROVE  task' \in [Tasks -> TaskStates'] /\ TaskInv'
  <2>1. task' \in [Tasks -> TaskStates'] /\ task'["window"] = w /\ task'["poll"] = task["poll"]
    BY <1>1, <1>2, <1>7 DEF Tasks
  <2> QED
    BY <1>1, <1>7, <2>1 DEF TaskInv
<1>8. CASE UNCHANGED task
  BY <1>1, <1>2, <1>8 DEF TaskInv
<1>9. CASE WatcherError
  BY <1>4, <1>5, <1>6, <1>7, <1>9, RestTyped DEF WatcherError
<1>10. CASE Restart
  <2> DEFINE w == [IdleTask EXCEPT !.todo = <<"check">>]
  <2>1. w \in TaskStates /\ w.todo \in Seq(WindowSteps) /\ w.command = 0
    BY <1>4, <1>5, <1>6, RestTyped
  <2>2. /\ task' = [t \in Tasks |-> task'[t]]
        /\ task'["poll"] = IdleTask
        /\ task'["window"] = w \/ task'["window"] = IdleTask
    BY <1>10 DEF Restart, Tasks
  <2> HIDE DEF w
  <2>3. task'["window"] \in TaskStates' /\ task'["poll"] \in TaskStates'
    BY <1>2, <1>3, <2>1, <2>2
  <2>4. task'["window"].todo \in Seq(WindowSteps) /\ task'["window"].command = 0 /\ task'["poll"].todo = <<>>
    BY <1>3, <2>1, <2>2, RestTyped
  <2>5. task' \in [Tasks -> TaskStates']
    BY <2>2, <2>3 DEF Tasks
  <2> QED
    BY <1>1, <2>4, <2>5 DEF TaskInv
<1>11. ASSUME NEW kind \in {"pause", "resume", "disconnect"}, WindowRequest(kind)
       PROVE  task' \in [Tasks -> TaskStates'] /\ TaskInv'
  <2>1. task' = [task EXCEPT !["window"] = [todo |-> Requested(kind), command |-> 0, seen |-> native.watcher]]
    BY <1>11 DEF WindowRequest
  <2>2. Requested(kind) \in Seq(WindowSteps)
    BY ProgramTyped
  <2> QED
    BY <1>1, <1>4, <1>7, <2>1, <2>2
<1>12. ASSUME NEW t \in Tasks, Step(t) PROVE task' \in [Tasks -> TaskStates'] /\ TaskInv'
  BY <1>1, <1>2, <1>12, StepTyped DEF StepKeeps
<1>13. ASSUME NEW c \in DOMAIN commands, Acknowledge(c) PROVE task' \in [Tasks -> TaskStates'] /\ TaskInv'
  <2> DEFINE steps == <<"revision">>
             p == [IdleTask EXCEPT !.todo = steps, !.command = c]
  <2>1. task' = [task EXCEPT !["poll"] = p]
    BY <1>13 DEF Acknowledge
  <2>2. p \in TaskStates /\ p.command = c
    <3>1. steps \in Seq(Steps)
      BY RestTyped
    <3>2. c \in 0..Len(commands)
      BY <1>1
    <3> HIDE DEF steps
    <3> QED
      BY <1>3, <3>1, <3>2 DEF TaskStates
  <2> HIDE DEF p
  <2>3. task' \in [Tasks -> TaskStates'] /\ task'["poll"] = p /\ task'["window"] = task["window"]
    BY <1>1, <1>2, <2>1, <2>2 DEF Tasks
  <2> QED
    BY <1>1, <2>2, <2>3 DEF TaskInv
<1> QED
  BY <1>8, <1>9, <1>10, <1>11, <1>12, <1>13, Frames DEF Next

(* What is on the way was the registry once. *)
LEMMA SnapshotStep ==
    ASSUME Inv, Next PROVE reports' \subseteq ReportRows' /\ syncs' \subseteq Registry /\ SnapshotInv'
<1>1. /\ reports \subseteq ReportRows /\ syncs \subseteq Registry /\ Len(commands) \in Nat /\ Len(commands') \in Nat
      /\ Len(commands') >= Len(commands) /\ native \in Registry /\ native.rev \in Nat /\ native.at \in Nat
      /\ \A s \in syncs : Past(s)
      /\ \A r \in reports : Past(r.root)
      /\ native'.watch => native'.read
  <2>1. Len(commands) \in Nat /\ Len(commands') \in Nat /\ Len(commands') >= Len(commands)
    BY QueueStep DEF Inv, TaskInv, QueueKept
  <2>2. /\ reports \subseteq ReportRows /\ syncs \subseteq Registry
        /\ native \in Registry /\ native.rev \in Nat /\ native.at \in Nat
    BY RootAssumption DEF Inv, TypeOK, ReportRows, Registry
  <2>3. (\A s \in syncs : Past(s)) /\ (\A r \in reports : Past(r.root)) /\ (native'.watch => native'.read)
    BY NativeStep DEF Inv, SnapshotInv, NativeKept
  <2> QED
    BY <2>1, <2>2, <2>3
<1>2. ReportRows \subseteq ReportRows'
  BY <1>1 DEF ReportRows
<1>3. ASSUME NEW s \in Registry, Past(s) \/ s = native' PROVE Past(s)'
  <2>1. /\ s.rev \in Nat /\ s.at \in Nat /\ native'.rev \in Nat /\ native'.at \in Nat
        /\ native'.rev >= native.rev /\ (native' = native \/ native'.at > native.at)
    BY NativeStep, RootAssumption DEF NativeKept, Registry
  <2>2. CASE s = native'
    BY <2>1, <2>2 DEF Past
  <2>3. CASE Past(s)
    BY <1>1, <2>1, <2>3 DEF Past
  <2> QED
    BY <1>3, <2>2, <2>3
<1>4. Past(native)
  BY <1>1 DEF Past
<1>5. syncs' \subseteq syncs \cup {native}
  <2>1. \A t \in Tasks : Step(t) => UNCHANGED syncs
    BY StepTyped DEF StepKeeps
  <2>2. CASE UNCHANGED syncs \/ syncs' \subseteq syncs
    BY <2>2
  <2>3. CASE syncs' = syncs \cup {native}
    BY <2>3
  <2> QED
    BY <2>1, <2>2, <2>3, Frames DEF Next
<1>6. reports' \subseteq ReportRows' /\ \A r \in reports' : r \in reports \/ r.root = native \/ r.root = native'
  <2>1. CASE reports' \subseteq reports
    BY <1>1, <1>2, <2>1
  <2>2. ASSUME NEW t \in Tasks, Step(t) 
        PROVE reports' \subseteq ReportRows' /\ \A r \in reports' : r \in reports \/ r.root = native \/ r.root = native'
    BY <1>2, <2>2, StepTyped DEF StepKeeps
  <2> QED
    BY <2>1, <2>2, Frames DEF Next
<1>7. \A s \in syncs' : Past(s)'
  BY <1>1, <1>3, <1>4, <1>5
<1>8. ASSUME NEW r \in reports' PROVE Past(r.root)'
  <2>1. r.root \in Registry
    BY <1>6 DEF ReportRows
  <2>2. Past(r.root) \/ r.root = native'
    BY <1>1, <1>4, <1>6
  <2> QED
    BY <1>3, <2>1, <2>2
<1> QED
  BY <1>1, <1>5, <1>6, <1>7, <1>8 DEF SnapshotInv

-----------------------------------------------------------------------------
(* The row. *)

RowStates == [status : NativeStatuses \cup {"NONE", "HIDDEN_FROM_ACTIVE_LIST"}, read : BOOLEAN,
              watch : BOOLEAN, mon : WatcherStates, rev : Nat, at : Nat]

(* The row never gets ahead of the registry, nor its revision back. *)
RowKept ==
    /\ row' \in RowStates /\ row'.rev \in row.rev..native.rev /\ row'.at \in 0..native.at

(* The parts of the state that the row's actions compare. *)
RowFacts ==
    /\ row \in RowStates /\ row.rev \in 0..native.rev /\ row.at \in 0..native.at
    /\ native.rev \in Nat /\ native.at \in Nat
    /\ \A s \in syncs : s \in Registry /\ s.rev \in 0..native.rev /\ s.at \in 0..native.at
    /\ \A r \in reports : r.root \in Registry /\ r.root.at \in 0..native.at

(* What the invariant says of the root row. *)
LEMMA RowFactsHold == ASSUME Inv PROVE RowFacts
<1>1. native \in Registry /\ native.rev \in Nat /\ native.at \in Nat
  BY RootAssumption DEF Inv, TypeOK, Registry
<1>2. row \in RowStates /\ row.rev \in 0..native.rev /\ row.at \in 0..native.at
  BY <1>1 DEF Inv, TypeOK, RowStates
<1>3. ASSUME NEW s \in Registry, Past(s) PROVE s.rev \in 0..native.rev /\ s.at \in 0..native.at
  BY <1>1, <1>3, RootAssumption DEF Past, Registry
<1>4. \A s \in syncs : s \in Registry /\ Past(s)
  BY DEF Inv, TypeOK, SnapshotInv
<1>5. \A r \in reports : r.root \in Registry /\ Past(r.root)
  BY DEF Inv, TypeOK, SnapshotInv
<1> QED
  BY <1>1, <1>2, <1>3, <1>4, <1>5 DEF RowFacts

(* What a report writes into the row. *)
LEMMA ReportedTyped ==
    ASSUME RowFacts, NEW c, NEW root \in Registry, root.at \in 0..native.at
    PROVE  /\ Reported(c, root) \in RowStates /\ Reported(c, root).rev = row.rev
           /\ Reported(c, root).status = row.status /\ Reported(c, root).at \in 0..native.at
           /\ Reported(c, root).at >= row.at
<1>1. /\ row \in RowStates /\ row.at \in Nat /\ row.at <= native.at /\ root.at \in Nat /\ native.at \in Nat
      /\ root.read \in BOOLEAN /\ root.watch \in BOOLEAN /\ root.watcher \in WatcherStates
  BY DEF RowFacts, Registry, RowStates
<1> DEFINE rw == root.read /\ root.watch
           a == [row EXCEPT !.read = root.read, !.watch = rw, !.mon = root.watcher, !.at = root.at]
           b == [row EXCEPT !.mon = root.watcher, !.at = root.at]
<1>2. rw \in BOOLEAN
  OBVIOUS
<1>3. a \in RowStates /\ a.rev = row.rev /\ a.status = row.status /\ a.at = root.at
  <2> HIDE DEF rw
  <2> QED
    BY <1>1, <1>2 DEF RowStates
<1>4. b \in RowStates /\ b.rev = row.rev /\ b.status = row.status /\ b.at = root.at
  BY <1>1 DEF RowStates
<1>5. Reported(c, root) = row \/ (root.at >= row.at /\ (Reported(c, root) = a \/ Reported(c, root) = b))
  BY DEF Reported, Applies
<1> HIDE DEF a, b
<1> QED
  BY <1>1, <1>3, <1>4, <1>5

(* What a sync writes into the row: it is kept, or replaced by a snapshot at
   least as new. *)
LEMMA SyncTyped ==
    ASSUME RowFacts, NEW s \in syncs, DeliverSync(s)
    PROVE  /\ RowKept
           /\ \/ /\ KeepsRow(s) /\ history' = history
                 /\ row'.status = row.status /\ row'.read = row.read /\ row'.watch = row.watch /\ row'.mon = row.mon
                 /\ row'.at >= row.at
              \/ /\ ~KeepsRow(s)
                 /\ history' = IF s.at < history.applied THEN history ELSE [history EXCEPT !.applied = s.at]
                 /\ row'.status = s.status /\ row'.read = s.read /\ row'.watch = s.watch /\ row'.mon = s.watcher
                 /\ row'.at = s.at /\ row'.rev = MaxRev(s)
<1>1. /\ row \in RowStates /\ row.rev \in 0..native.rev /\ row.at \in 0..native.at /\ native.rev \in Nat
      /\ native.at \in Nat /\ s \in Registry /\ s.rev \in 0..native.rev /\ s.at \in 0..native.at
  BY DEF RowFacts
<1>2. MaxRev(s) \in row.rev..native.rev /\ MaxRev(s) \in Nat
  BY <1>1 DEF MaxRev
<1>3. CASE KeepsRow(s)
  <2> DEFINE v == IF Stale(s) THEN row.at ELSE s.at
             n == [row EXCEPT !.rev = MaxRev(s), !.at = v]
  <2>1. row' = n
    BY <1>3 DEF DeliverSync
  <2>2. v \in 0..native.at /\ v \in Nat /\ v >= row.at
    <3>1. ~Stale(s) => s.at >= row.at
      BY <1>1, <1>3 DEF Stale, KeepsRow
    <3> QED
      BY <1>1, <3>1
  <2> HIDE DEF v
  <2>3. n \in RowStates /\ n.rev = MaxRev(s) /\ n.at = v
    BY <1>1, <1>2, <2>2 DEF RowStates
  <2>4. n.status = row.status /\ n.read = row.read /\ n.watch = row.watch /\ n.mon = row.mon
    BY <1>1 DEF RowStates
  <2>5. history' = history
    BY <1>3 DEF DeliverSync
  <2> HIDE DEF n
  <2> QED
    BY <1>2, <1>3, <2>1, <2>2, <2>3, <2>4, <2>5 DEF RowKept
<1>4. CASE ~KeepsRow(s)
  <2> DEFINE n == [status |-> s.status, read |-> s.read, watch |-> s.watch, mon |-> s.watcher,
                   rev |-> MaxRev(s), at |-> s.at]
  <2>1. row' = n /\ history' = IF s.at < history.applied THEN history ELSE [history EXCEPT !.applied = s.at]
    BY <1>4 DEF DeliverSync
  <2>2. /\ s.status \in NativeStatuses /\ s.read \in BOOLEAN /\ s.watch \in BOOLEAN
        /\ s.watcher \in WatcherStates /\ s.at \in Nat
    BY <1>1 DEF Registry
  <2>3. n \in RowStates
    BY <1>2, <2>2 DEF RowStates
  <2>4. /\ n.status = s.status /\ n.read = s.read /\ n.watch = s.watch /\ n.mon = s.watcher
        /\ n.at = s.at /\ n.rev = MaxRev(s)
    OBVIOUS
  <2> HIDE DEF n
  <2> QED
    BY <1>1, <1>2, <1>4, <2>1, <2>3, <2>4 DEF RowKept
<1> QED
  BY <1>3, <1>4

(* What a denial writes into it. *)
LEMMA DenyTyped ==
    ASSUME RowFacts, NEW hide \in BOOLEAN, Deny(hide)
    PROVE  /\ RowKept /\ row'.rev = row.rev /\ row'.at = row.at /\ row.status # "NONE"
           /\ row'.status \in {"HIDDEN_FROM_ACTIVE_LIST", "DISCONNECTED"}
           /\ history' = [history EXCEPT !.denied = row.rev, !.deniedNative = native.rev]
<1> DEFINE st == IF hide THEN "HIDDEN_FROM_ACTIVE_LIST" ELSE "DISCONNECTED"
           n == [row EXCEPT !.status = st, !.watch = FALSE, !.mon = "STOPPED"]
<1>1. /\ row' = n /\ row.status # "NONE"
      /\ history' = [history EXCEPT !.denied = row.rev, !.deniedNative = native.rev]
  BY DEF Deny, Exists
<1>2. st \in {"HIDDEN_FROM_ACTIVE_LIST", "DISCONNECTED"}
  OBVIOUS
<1> HIDE DEF st
<1>3. n \in RowStates /\ n.rev = row.rev /\ n.at = row.at /\ n.status = st
  BY <1>2 DEF RowFacts, RowStates, NativeStatuses, WatcherStates
<1> HIDE DEF n
<1> QED
  BY <1>1, <1>2, <1>3 DEF RowKept, RowFacts

(* The row changes by a sync, by a report or by a denial, and not otherwise. *)
LEMMA RowCases ==
    ASSUME Inv, Next
    PROVE  \/ UNCHANGED <<row, history>>
           \/ \E s \in syncs : DeliverSync(s)
           \/ \E r \in reports : DeliverReport(r)
           \/ \E hide \in BOOLEAN : Deny(hide)
<1>1. \A t \in Tasks : Step(t) => UNCHANGED <<row, history>>
  BY StepTyped DEF StepKeeps
<1> QED
  BY <1>1, Frames DEF Next

(* A delivered report leaves the row alone or writes what it says. *)
LEMMA ReportTyped ==
    ASSUME RowFacts, NEW r \in reports, DeliverReport(r)
    PROVE  /\ RowKept /\ row'.rev = row.rev /\ row'.status = row.status /\ row'.at >= row.at /\ history' = history
           /\ row' = row \/ row' = Reported(commands[r.command], r.root)
<1>1. row' = row \/ row' = Reported(commands[r.command], r.root)
  BY DEF DeliverReport
<1>2. history' = history
  BY DEF DeliverReport
<1>3. /\ row \in RowStates /\ row.rev \in 0..native.rev /\ row.at \in 0..native.at
      /\ native.rev \in Nat /\ native.at \in Nat /\ r.root \in Registry /\ r.root.at \in 0..native.at
  BY DEF RowFacts
<1>4. CASE row' = row
  BY <1>1, <1>2, <1>3, <1>4 DEF RowKept
<1>5. CASE row' = Reported(commands[r.command], r.root)
  BY <1>1, <1>2, <1>3, <1>5, ReportedTyped DEF RowKept
<1> QED
  BY <1>1, <1>4, <1>5

(* Every step keeps the root row consistent with the queue. *)
LEMMA RowStep == ASSUME Inv, Next PROVE RowKept
<1>1. CASE UNCHANGED <<row, history>>
  BY <1>1, RowFactsHold DEF RowFacts, RowKept
<1> QED
  BY <1>1, RowFactsHold, RowCases, SyncTyped, ReportTyped, DenyTyped

-----------------------------------------------------------------------------
(* What was applied, and what was denied. *)

(* Every step keeps what the snapshots remember. *)
LEMMA HistoryStep == ASSUME Inv, Next PROVE HistoryInv'
<1>1. /\ RowFacts /\ history.applied \in 0..row.at /\ history.denied \in 0..row.rev
      /\ row.status = "NONE" => history.denied = 0 /\ history.applied = 0
  BY RowFactsHold DEF Inv, HistoryInv
<1>2. row.rev \in Nat /\ row.at \in Nat /\ native.at \in Nat
  BY <1>1 DEF RowFacts
<1>3. row'.rev \in Nat /\ row'.rev >= row.rev /\ row'.at \in Nat
  BY <1>1, RowStep DEF RowKept, RowFacts, RowStates
<1>4. CASE UNCHANGED <<row, history>>
  BY <1>1, <1>4 DEF HistoryInv
<1>5. ASSUME NEW s \in syncs, DeliverSync(s) PROVE HistoryInv'
  <2>1. CASE history' = history /\ row'.status = row.status /\ row'.at >= row.at
    BY <1>1, <1>2, <1>3, <2>1 DEF HistoryInv
  <2>2. CASE /\ ~KeepsRow(s) /\ row'.at = s.at /\ row'.status = s.status
             /\ history' = IF s.at < history.applied THEN history ELSE [history EXCEPT !.applied = s.at]
    <3>1. s.at \in Nat /\ s.status \in NativeStatuses
      BY <1>1 DEF RowFacts, Registry
    <3>2. history.applied <= s.at
      BY <1>1, <1>2, <2>2, <3>1 DEF KeepsRow, Stale, Exists
    <3>3. history'.applied \in 0..s.at /\ history'.denied = history.denied
      BY <1>1, <1>2, <2>2, <3>1, <3>2 DEF Inv, HistoryTyped
    <3> QED
      BY <1>1, <1>2, <1>3, <2>2, <3>1, <3>3 DEF HistoryInv, NativeStatuses
  <2> QED
    BY <1>1, <1>5, <2>1, <2>2, SyncTyped
<1>6. ASSUME NEW r \in reports, DeliverReport(r) PROVE HistoryInv'
  <2>1. row'.rev = row.rev /\ row'.status = row.status /\ row'.at >= row.at /\ history' = history
    BY <1>1, <1>6, ReportTyped
  <2> QED
    BY <1>1, <1>2, <1>3, <2>1 DEF HistoryInv
<1>7. ASSUME NEW hide \in BOOLEAN, Deny(hide) PROVE HistoryInv'
  <2>1. /\ row'.rev = row.rev /\ row'.at = row.at
        /\ row'.status \in {"HIDDEN_FROM_ACTIVE_LIST", "DISCONNECTED"}
        /\ history' = [history EXCEPT !.denied = row.rev, !.deniedNative = native.rev]
    BY <1>1, <1>7, DenyTyped
  <2>2. history'.denied = row.rev /\ history'.applied = history.applied
    BY <2>1 DEF Inv, HistoryTyped
  <2> QED
    BY <1>1, <1>2, <2>1, <2>2 DEF HistoryInv
<1> QED
  BY <1>4, <1>5, <1>6, <1>7, RowCases

(* A grant that was synchronised stays the registry's: what comes later is
   older and kept out, or the registry itself. *)
LEMMA AgreesStep == ASSUME Inv, Next PROVE SyncedAgrees'
<1>1. /\ RowFacts /\ SyncedAgrees /\ history.applied \in 0..row.at /\ row.at \in 0..native.at
      /\ row.status = "NONE" => history.applied = 0
      /\ native.at \in Nat /\ row.at \in Nat /\ native.read \in BOOLEAN /\ native.watch \in BOOLEAN
      /\ native.watch => native.read
  BY RowFactsHold DEF Inv, HistoryInv, RowFacts, SnapshotInv, TypeOK, Registry
<1>2. UNCHANGED native \/ UNCHANGED <<row, history>>
  BY StepTyped, Frames DEF Next, StepKeeps
<1>3. CASE native' # native
  <2>1. native'.at \in Nat /\ native'.at > native.at
    BY <1>3, NativeStep DEF NativeKept, Registry
  <2> QED
    BY <1>1, <1>2, <1>3, <2>1 DEF SyncedAgrees
<1>4. CASE native' = native /\ UNCHANGED <<row, history>>
  BY <1>1, <1>4 DEF SyncedAgrees
<1>5. ASSUME NEW s \in syncs, DeliverSync(s), native' = native PROVE SyncedAgrees'
  <2>1. CASE /\ history' = history /\ row'.status = row.status
             /\ row'.read = row.read /\ row'.watch = row.watch /\ row'.mon = row.mon
    BY <1>1, <1>5, <2>1 DEF SyncedAgrees
  <2>2. CASE /\ ~KeepsRow(s)
             /\ row'.read = s.read /\ row'.watch = s.watch /\ row'.mon = s.watcher
             /\ history' = IF s.at < history.applied THEN history ELSE [history EXCEPT !.applied = s.at]
    <3>1. s.at \in Nat /\ (s.at < native.at \/ s = native)
      BY DEF Inv, SnapshotInv, Past, TypeOK, Registry
    <3>2. history.applied <= s.at
      BY <1>1, <2>2, <3>1 DEF KeepsRow, Stale, Exists
    <3>3. history'.applied = s.at
      BY <1>1, <2>2, <3>1, <3>2 DEF Inv, HistoryTyped
    <3> QED
      BY <1>1, <1>5, <2>2, <3>1, <3>3 DEF SyncedAgrees
  <2> QED
    BY <1>1, <1>5, <2>1, <2>2, SyncTyped
<1>6. ASSUME NEW r \in reports, DeliverReport(r), native' = native PROVE SyncedAgrees'
  <2> DEFINE root == r.root
  <2>1. row'.status = row.status /\ history' = history /\ (row' = row \/ row' = Reported(commands[r.command], root))
    BY <1>1, <1>6, ReportTyped
  <2>2. root \in Registry /\ (root.at < native.at \/ root = native)
    BY DEF Inv, SnapshotInv, Past, TypeOK
  <2>3. root.at \in Nat /\ root.read \in BOOLEAN /\ root.watch \in BOOLEAN
    BY <2>2 DEF Registry
  <2>4. CASE row' = row
    BY <1>1, <1>6, <2>1, <2>4 DEF SyncedAgrees
  <2>5. CASE row' # row
    <3>1. /\ root.at >= row.at
          /\ \/ row' = [row EXCEPT !.read = root.read, !.watch = root.read /\ root.watch, !.mon = root.watcher,
                                   !.at = root.at]
             \/ row' = [row EXCEPT !.mon = root.watcher, !.at = root.at]
      BY <2>1, <2>5 DEF Reported, Applies
    <3>2. row \in RowStates
      BY <1>1 DEF RowFacts
    <3>3. SUFFICES ASSUME row'.status = "CONNECTED", history'.applied = native'.at
                   PROVE  row'.read = native.read /\ row'.watch = native.watch /\ row'.mon = native.watcher
      BY <1>6 DEF SyncedAgrees
    <3>4. root = native
      BY <1>1, <1>6, <2>1, <2>2, <2>3, <3>1, <3>3
    <3>5. row.read = native.read /\ row.watch = native.watch
      BY <1>1, <1>6, <2>1, <3>3 DEF SyncedAgrees
    <3>6. row'.mon = root.watcher
      BY <3>1, <3>2 DEF RowStates
    <3>7. \/ row'.read = root.read /\ row'.watch = (root.read /\ root.watch)
          \/ row'.read = row.read /\ row'.watch = row.watch
      BY <3>1, <3>2 DEF RowStates
    <3>8. (native.read /\ native.watch) = native.watch
      BY <1>1
    <3> QED
      BY <3>4, <3>5, <3>6, <3>7, <3>8
  <2> QED
    BY <2>4, <2>5
<1>7. ASSUME NEW hide \in BOOLEAN, Deny(hide) PROVE SyncedAgrees'
  BY <1>1, <1>7, DenyTyped DEF SyncedAgrees
<1> QED
  BY <1>3, <1>4, <1>5, <1>6, <1>7, RowCases

(* A denied row is current again only under a newer revision. *)
LEMMA DenialStep == ASSUME Inv, Next PROVE DenialHolds'
<1>1. RowFacts /\ DenialHolds /\ history.denied \in 0..row.rev /\ (row.status = "NONE" => history.denied = 0)
  BY RowFactsHold DEF Inv, HistoryInv
<1>2. row.rev \in Nat /\ row'.rev \in Nat /\ row'.rev >= row.rev
  BY <1>1, RowStep DEF RowKept, RowFacts, RowStates
<1>3. CASE history' = history /\ row'.status = row.status
  BY <1>1, <1>2, <1>3 DEF DenialHolds
<1>4. ASSUME NEW s \in syncs, DeliverSync(s) PROVE DenialHolds'
  <2>1. CASE history' = history /\ row'.status = row.status
    BY <1>3, <2>1
  <2>2. CASE /\ ~KeepsRow(s) /\ row'.rev = MaxRev(s)
             /\ history' = IF s.at < history.applied THEN history ELSE [history EXCEPT !.applied = s.at]
    <3>1. history'.denied = history.denied
      BY <2>2 DEF Inv, HistoryTyped
    <3>2. row.status = "NONE" \/ row.status = "CONNECTED" \/ s.rev > row.rev
      BY <2>2 DEF KeepsRow, Reconnects, Exists
    <3>3. s.rev > row.rev => row'.rev > row.rev
      BY <2>2 DEF MaxRev
    <3> QED
      BY <1>1, <1>2, <3>1, <3>2, <3>3 DEF DenialHolds
  <2> QED
    BY <1>1, <1>4, <2>1, <2>2, SyncTyped
<1>5. ASSUME NEW r \in reports, DeliverReport(r) PROVE DenialHolds'
  BY <1>1, <1>3, <1>5, ReportTyped
<1>6. ASSUME NEW hide \in BOOLEAN, Deny(hide) PROVE DenialHolds'
  BY <1>1, <1>6, DenyTyped DEF DenialHolds
<1> QED
  BY <1>3, <1>4, <1>5, <1>6, RowCases

-----------------------------------------------------------------------------
(* The theorems. *)

(* And their types. *)
LEMMA HistoryTypedStep == ASSUME Inv, Next PROVE HistoryTyped'
<1>1. HistoryTyped
  BY DEF Inv
<1>2. ASSUME NEW s \in syncs, DeliverSync(s) PROVE HistoryTyped'
  <2>1. s.at \in Nat
    BY RowFactsHold DEF RowFacts, Registry
  <2> QED
    BY <1>1, <1>2, <2>1 DEF DeliverSync, HistoryTyped
<1>3. ASSUME NEW r \in reports, DeliverReport(r) PROVE HistoryTyped'
  BY <1>1, <1>3 DEF DeliverReport, HistoryTyped
<1>4. ASSUME NEW hide \in BOOLEAN, Deny(hide) PROVE HistoryTyped'
  <2>1. row.rev \in Nat /\ native.rev \in Nat
    BY RowFactsHold DEF RowFacts
  <2> QED
    BY <1>1, <1>4, <2>1 DEF Deny, HistoryTyped
<1> QED
  BY <1>1, <1>2, <1>3, <1>4, RowCases DEF HistoryTyped

(* Every step keeps the types. *)
LEMMA TypeStep == ASSUME Inv, Next PROVE TypeOK'
<1>1. native' \in Registry /\ handle' \in BOOLEAN
  BY NativeStep DEF NativeKept
<1>2. task' \in [Tasks -> TaskStates']
  BY TaskStep
<1>3. /\ row' \in RowStates /\ row'.rev \in 0..native'.rev /\ row'.at \in 0..native'.at
  <2>1. native.rev \in Nat /\ native.at \in Nat /\ row.rev \in Nat
    BY RowFactsHold DEF RowFacts
  <2>2. native'.rev \in Nat /\ native'.at \in Nat /\ native'.rev >= native.rev
        /\ (native' = native \/ native'.at > native.at)
    BY NativeStep, RootAssumption DEF NativeKept, Registry
  <2> QED
    BY <2>1, <2>2, RowStep DEF RowKept
<1>4. row' \in [status : NativeStatuses \cup {"NONE", "HIDDEN_FROM_ACTIVE_LIST"}, read : BOOLEAN,
                watch : BOOLEAN, mon : WatcherStates, rev : 0..native'.rev, at : 0..native'.at]
  BY <1>3 DEF RowStates
<1>5. ASSUME NEW c \in 1..Len(commands')
      PROVE  /\ commands'[c].type \in Types /\ commands'[c].rev \in 0..row'.rev
             /\ commands'[c].patch \in Patches \cup {NoPatch}
             /\ commands'[c].status \in {"PENDING", "ACKNOWLEDGED", "CLOSED"}
  <2>1. commands' \in Seq(CommandRows) /\ commands'[c].rev \in 0..row.rev
    BY QueueStep DEF QueueKept
  <2>2. commands'[c] \in CommandRows
    BY <2>1
  <2>3. row.rev \in Nat /\ row'.rev \in Nat /\ row'.rev >= row.rev
    BY RowFactsHold, RowStep DEF RowKept, RowFacts, RowStates
  <2>4. commands'[c].rev \in 0..row'.rev
    BY <2>1, <2>3
  <2> QED
    BY <2>2, <2>4 DEF CommandRows
<1>6. reports' \subseteq ReportRows' /\ syncs' \subseteq Registry
  BY SnapshotStep
<1> QED
  BY <1>1, <1>2, <1>4, <1>5, <1>6 DEF TypeOK, TaskStates, ReportRows

(* The invariant holds before the first root is connected. *)
LEMMA InvInit == Init => Inv
<1> SUFFICES ASSUME Init PROVE Inv
  OBVIOUS
<1> USE RootAssumption
<1>1. native = [status |-> "DISCONNECTED", read |-> FALSE, watch |-> FALSE, watcher |-> "STOPPED",
                rev |-> 0, at |-> 0]
      /\ commands = <<>> /\ reports = {} /\ syncs = {} /\ handle = FALSE /\ row = NoRow
      /\ task = [t \in Tasks |-> IdleTask] /\ history = [denied |-> 0, deniedNative |-> 0, applied |-> 0]
  BY DEF Init
<1>2. native \in Registry /\ native.rev = 0 /\ native.at = 0 /\ native.watch = FALSE
  BY <1>1 DEF Registry, NativeStatuses, WatcherStates
<1>3. /\ row \in [status : NativeStatuses \cup {"NONE", "HIDDEN_FROM_ACTIVE_LIST"}, read : BOOLEAN,
                watch : BOOLEAN, mon : WatcherStates, rev : 0..native.rev, at : 0..native.at]
      /\ row.status = "NONE" /\ row.rev = 0 /\ row.at = 0
  BY <1>1, <1>2 DEF NoRow, WatcherStates
<1>4. commands \in Seq(CommandRows) /\ Len(commands) = 0
  BY <1>1
<1>5. IdleTask \in TaskStates /\ IdleTask.todo = <<>> /\ IdleTask.command = 0
  BY <1>4, RestTyped DEF IdleTask, TaskStates, WatcherStates
<1>6. task \in [Tasks -> TaskStates] /\ TaskInv
  BY <1>1, <1>4, <1>5, RestTyped DEF Tasks, TaskInv
<1>7. TypeOK
  <2>1. handle \in BOOLEAN
    BY <1>1
  <2>2. task \in [Tasks -> [todo : Seq(Steps), command : 0..Len(commands), seen : WatcherStates]]
    BY <1>6 DEF TaskStates
  <2>3. 1..Len(commands) = {} /\ syncs \subseteq Registry
        /\ reports \subseteq [command : 1..Len(commands), status : {"COMPLETED", "FAILED"}, root : Registry]
    BY <1>1, <1>4
  <2> QED
    BY <1>2, <1>3, <2>1, <2>2, <2>3 DEF TypeOK
<1>8. SnapshotInv
  BY <1>1, <1>2 DEF SnapshotInv
<1>9. HistoryTyped /\ HistoryInv /\ DenialHolds /\ SyncedAgrees
  BY <1>1, <1>3 DEF HistoryTyped, HistoryInv, DenialHolds, SyncedAgrees
<1> QED
  BY <1>6, <1>7, <1>8, <1>9 DEF Inv

(* Every step keeps it. *)
LEMMA InvStep == ASSUME Inv, [Next]_vars PROVE Inv'
<1>1. CASE Next
  BY <1>1, TypeStep, TaskStep, SnapshotStep, HistoryTypedStep, HistoryStep, AgreesStep,
     DenialStep DEF Inv
<1>2. CASE UNCHANGED vars
  <2> USE <1>2 DEF vars
  <2>1. TypeOK'
    BY DEF Inv, TypeOK
  <2>2. TaskInv' /\ SnapshotInv'
    BY DEF Inv, TaskInv, SnapshotInv, Past
  <2>3. HistoryTyped' /\ HistoryInv' /\ SyncedAgrees' /\ DenialHolds'
    BY DEF Inv, HistoryTyped, HistoryInv, SyncedAgrees, DenialHolds
  <2> QED
    BY <2>1, <2>2, <2>3 DEF Inv
<1> QED
  BY <1>1, <1>2

(* The invariant holds in every reachable state, for any bounds. *)
THEOREM Invariance == Spec => []Inv
<1>1. Init => Inv
  BY InvInit
<1>2. Inv /\ [Next]_vars => Inv'
  BY InvStep
<1> QED
  BY <1>1, <1>2, PTL DEF Spec

(* Registry, row, commands, reports and syncs stay well formed; in particular
   the row's revision and version never exceed the registry's. *)
THEOREM TypeCorrect == Spec => []TypeOK
<1>1. Inv => TypeOK
  BY DEF Inv
<1> QED
  BY <1>1, Invariance, PTL

(* ROOT-2, syncBridgeDeviceRoots: once the present record of the registry was
   synchronised, the row of a connected folder shows that record's grant and
   monitoring, whatever older syncs and command reports arrive afterwards. *)
THEOREM SyncAgrees == Spec => []SyncedAgrees
<1>1. Inv => SyncedAgrees
  BY DEF Inv
<1> QED
  BY <1>1, Invariance, PTL

(* "A scan/watch heartbeat cannot clear a human lifecycle decision": a denied
   folder is current again only under a revision the cloud had not seen. *)
THEOREM DenialIsKept == Spec => []DenialHolds
<1>1. Inv => DenialHolds
  BY DEF Inv
<1> QED
  BY <1>1, Invariance, PTL

-----------------------------------------------------------------------------
(* Monitoring: the inductive invariant. *)

BatchRows == [root : Roots, status : {"PROCESSING", "READY_FOR_REVIEW", "COMPLETED_WITH_ERRORS"},
              generation : Nat \ {0}, live : BOOLEAN, revision : Nat, scan : Nat \cup {None}]
ScanRows == [root : Roots, status : ActiveStatuses \cup {"COMPLETED", "FAILED"},
             batch : Nat \cup {None}, revision : Nat, seen : 0..MaxChanges \cup {None},
             hints : SUBSET Changes, unread : SUBSET (1..MaxChanges),
             rows : {"none", "part", "whole"}, done : BOOLEAN, reopened : BOOLEAN]
EventRows == [status : {"NONE", "QUEUED", "PROCESSING", "NEEDS_ATTENTION", "COMPLETED"},
              batch : Nat \cup {None}]
Busy == [step : {"create", "settle", "finalize"}, batch : Nat, generation : Nat, queue : BOOLEAN]

NativeTyped ==
    /\ disk \in [Roots -> 0..MaxChanges] /\ watcher \in [Roots -> BOOLEAN]
    /\ outbox \subseteq [place : Nat, change : Changes]
    /\ IsFiniteSet(outbox) /\ Cardinality(outbox) <= OutboxLimit
    /\ hinted \subseteq Changes
    /\ reply \in (SUBSET Changes) \cup {None}

(* Every new revision of a grant used up a switch. *)
FolderTyped ==
    /\ spent \in [switches : 0..MaxSwitches, faults : 0..MaxFaults]
    /\ folder \in [Roots -> [watching : BOOLEAN, revision : 0..MaxSwitches]]
    /\ \A r \in Roots : folder[r].revision <= spent.switches

RowsTyped ==
    /\ batches \in Seq(BatchRows) /\ scans \in Seq(ScanRows)
    /\ events \in [Changes -> EventRows] /\ worker \in [Workers -> Busy \cup {Idle}]

(* Every row that is referred to exists, and a batch scans its own root. *)
References ==
    /\ \A b \in DOMAIN batches : batches[b].scan # None =>
          batches[b].scan \in DOMAIN scans /\ scans[batches[b].scan].root = batches[b].root
    /\ \A s \in DOMAIN scans : scans[s].batch # None => scans[s].batch \in DOMAIN batches
    /\ \A c \in Changes : events[c].batch # None => events[c].batch \in DOMAIN batches
    /\ \A w \in Workers : worker[w] # Idle => worker[w].batch \in DOMAIN batches

(* What the cloud, the outbox and the reports know of has happened, and the
   events of a reply have their rows, or ignored paths. *)
HintsTrue ==
    /\ \A c \in Changes : events[c].status # "NONE" \/ c \in EventsIn(outbox) => c[2] <= disk[c[1]]
    /\ \A s \in DOMAIN scans : \A c \in scans[s].hints : c[2] <= disk[c[1]]
    /\ reply # None => \A c \in reply : events[c].status # "NONE" \/ c[2] \in Ignored

(* A batch, or none, processes a root and its events. *)
OneProcessing ==
    /\ \A b, d \in DOMAIN batches :
          batches[b].status = "PROCESSING" /\ batches[d].status = "PROCESSING"
              /\ batches[b].root = batches[d].root => b = d
    /\ \A c \in Changes : events[c].status = "PROCESSING" =>
          /\ events[c].batch \in DOMAIN batches /\ batches[events[c].batch].status = "PROCESSING"
          /\ batches[events[c].batch].root = c[1]

Creates(w) == worker[w].step = "create" /\ worker[w].generation = batches[worker[w].batch].generation

Ended(s) == scans[s].status \notin ActiveStatuses \/ scans[s].reopened

(* What each step of a worker may rely on: one owner at most creates the scan
   of a batch, and only while it has none; a worker that settles has a scan;
   one that finalizes has settled every event by a scan that ended, and that is
   at work again only if a person reopened it. *)
WorkersHold ==
    /\ \A w \in Workers : Creates(w) => batches[worker[w].batch].scan = None
    /\ \A v, w \in Workers : Creates(v) /\ Creates(w) /\ worker[v].batch = worker[w].batch => v = w
    /\ \A w \in Workers : worker[w].step \in {"settle", "finalize"} => batches[worker[w].batch].scan # None
    /\ \A w \in Workers : worker[w].step = "finalize" =>
          /\ Ended(batches[worker[w].batch].scan)
          /\ \A c \in Changes : events[c].status = "PROCESSING" => events[c].batch # worker[w].batch

(* A scan is processed when its inventory has all its rows, or because a person
   reopened it; rows are of an inventory that was discovered. *)
ScanSound(s) ==
    /\ scans[s].status = "SCANNING" => ~scans[s].reopened
    /\ scans[s].status = "COMPLETED" => scans[s].done
    /\ scans[s].status \in {"READING", "COMPLETED"} => scans[s].rows = "whole" \/ scans[s].reopened
    /\ scans[s].rows = "whole" => scans[s].seen # None

(* An inventory of a batch was discovered after the changes it reconciles: the
   scan is created after the events were taken. *)
SeenSince ==
    /\ \A s \in DOMAIN scans : ScanSound(s)
    /\ \A c \in Changes : events[c].status = "PROCESSING" =>
          LET s == batches[events[c].batch].scan
          IN  s # None /\ scans[s].seen # None => c[2] <= scans[s].seen

MonitoringInv ==
    /\ NativeTyped /\ FolderTyped /\ RowsTyped /\ References
    /\ HintsTrue /\ OneProcessing /\ ScansOwned /\ WorkersHold /\ SeenSince
    /\ EventsReconciled /\ HintsKept

-----------------------------------------------------------------------------
(* Monitoring: what the operators of the outbox return. *)

(* A finite set of events that is not empty has one with the lowest place. *)
LEMMA OldestExists ==
    ASSUME NEW box, box \subseteq [place : Nat, change : Changes], box # {}
    PROVE  \E e \in box : \A d \in box : e.place <= d.place
<1> DEFINE places == {e.place : e \in box}
<1>1. places \subseteq Nat /\ places # {}
  OBVIOUS
<1>2. PICK n \in places : \A m \in places : <<m, n>> \notin OpToRel(<, Nat)
  BY <1>1, NatLessThanWellFounded, WFMin, Zenon
<1>3. \A m \in places : ~(m < n)
  BY <1>1, <1>2, Zenon DEF OpToRel
<1>4. \A m \in places : n <= m
  <2> HIDE DEF places
  <2> QED
    BY <1>1, <1>3
<1>5. PICK e \in box : e.place = n
  BY <1>2
<1> QED
  BY <1>4, <1>5

(* The place of a new event is a number: a folder has had finitely many
   changes. *)
LEMMA PlaceTyped == NextPlace \in Nat
<1>1. IsFiniteSet(1..MaxChanges)
  BY MonitoringAssumption, FS_Interval
<1>2. IsFiniteSet(Changes)
  BY <1>1, MonitoringAssumption, FS_Product DEF Changes
<1>3. IsFiniteSet({c \in Changes : c[2] <= disk[c[1]]})
  BY <1>2, FS_Subset
<1> QED
  BY <1>3, FS_CardinalityType DEF NextPlace

(* Queueing an event keeps the outbox within its limit, and at most drops
   others. *)
LEMMA QueuedFacts ==
    ASSUME NativeTyped, NEW c \in Changes
    PROVE  /\ Queued(outbox, c) \subseteq [place : Nat, change : Changes]
           /\ IsFiniteSet(Queued(outbox, c)) /\ Cardinality(Queued(outbox, c)) <= OutboxLimit
           /\ EventsIn(Queued(outbox, c)) \subseteq EventsIn(outbox) \cup {c}
<1> DEFINE new == [place |-> NextPlace, change |-> c]
           grown == outbox \cup {new}
           first == CHOOSE e \in grown : \A d \in grown : e.place <= d.place
<1>1. /\ outbox \subseteq [place : Nat, change : Changes] /\ IsFiniteSet(outbox)
      /\ Cardinality(outbox) <= OutboxLimit /\ OutboxLimit \in Nat
  BY MonitoringAssumption DEF NativeTyped
<1>2. new \in [place : Nat, change : Changes]
  BY PlaceTyped
<1>3. grown \subseteq [place : Nat, change : Changes] /\ grown # {}
  BY <1>1, <1>2
<1>4. /\ IsFiniteSet(grown) /\ Cardinality(grown) \in Nat /\ Cardinality(outbox) \in Nat
      /\ Cardinality(grown) <= Cardinality(outbox) + 1
  <2>1. IsFiniteSet(grown) /\ Cardinality(grown) = IF new \in outbox THEN Cardinality(outbox)
                                                   ELSE Cardinality(outbox) + 1
    BY <1>1, FS_AddElement
  <2>2. Cardinality(grown) \in Nat /\ Cardinality(outbox) \in Nat
    BY <1>1, <2>1, FS_CardinalityType
  <2> QED
    BY <2>1, <2>2
<1>5. first \in grown
  BY <1>3, OldestExists
<1>6. /\ IsFiniteSet(grown \ {first})
      /\ Cardinality(grown \ {first}) = Cardinality(grown) - 1
  <2> HIDE DEF grown, first
  <2>1. IsFiniteSet(grown)
    BY <1>4
  <2> QED
    BY <1>5, <2>1, FS_RemoveElement
<1>7. Queued(outbox, c) = IF Cardinality(grown) > OutboxLimit THEN grown \ {first} ELSE grown
  BY DEF Queued
<1>8. Queued(outbox, c) \subseteq grown /\ IsFiniteSet(Queued(outbox, c))
      /\ Cardinality(Queued(outbox, c)) <= OutboxLimit
  <2> HIDE DEF grown, first
  <2>1. CASE Cardinality(grown) > OutboxLimit
    BY <1>1, <1>4, <1>6, <1>7, <2>1
  <2>2. CASE ~(Cardinality(grown) > OutboxLimit)
    BY <1>1, <1>4, <1>7, <2>2
  <2> QED
    BY <2>1, <2>2
<1>9. EventsIn(Queued(outbox, c)) \subseteq EventsIn(outbox) \cup {c}
  BY <1>8 DEF EventsIn
<1> QED
  BY <1>3, <1>8, <1>9

(* Some generation is held by no worker: there are more of them. *)
LEMMA FreshFacts ==
    ASSUME NEW b
    PROVE  /\ FreshGeneration(b) \in Nat \ {0}
           /\ \A w \in Workers : worker[w].batch = b => worker[w].generation # FreshGeneration(b)
<1>1. PICK n \in Nat : n = Cardinality(Workers)
  BY MonitoringAssumption, FS_CardinalityType
<1> DEFINE numbers == 1..(n + 1)
           holder == [g \in numbers |-> CHOOSE w \in Workers : worker[w].generation = g]
<1>2. IsFiniteSet(numbers) /\ Cardinality(Workers) < Cardinality(numbers)
  <2>1. 1 \in Int /\ n + 1 \in Int /\ ~(1 > n + 1)
    OBVIOUS
  <2>2. IsFiniteSet(numbers) /\ Cardinality(numbers) = n + 1 - 1 + 1
    BY <2>1, FS_Interval
  <2> HIDE DEF numbers
  <2> QED
    BY <1>1, <2>2
<1>3. \E g \in numbers : \A w \in Workers : worker[w].generation # g
  <2> SUFFICES ASSUME \A g \in numbers : \E w \in Workers : worker[w].generation = g
               PROVE  FALSE
    OBVIOUS
  <2> HIDE DEF numbers
  <2>1. \A g \in numbers : holder[g] \in Workers /\ worker[holder[g]].generation = g
    OBVIOUS
  <2>2. holder \in [numbers -> Workers]
    BY <2>1
  <2> HIDE DEF holder
  <2>3. \E x, y \in numbers : x # y /\ holder[x] = holder[y]
    BY <1>2, <2>2, MonitoringAssumption, FS_PigeonHole
  <2> QED
    BY <2>1, <2>3
<1>4. \E g \in 1..(n + 1) : \A w \in Workers : worker[w].batch = b => worker[w].generation # g
  BY <1>3
<1>5. /\ FreshGeneration(b) \in 1..(n + 1)
      /\ \A w \in Workers : worker[w].batch = b => worker[w].generation # FreshGeneration(b)
  BY <1>1, <1>4 DEF FreshGeneration
<1> QED
  BY <1>1, <1>5

-----------------------------------------------------------------------------
(* Monitoring: the rows a step may rely on. *)

(* The rows are well formed, and a sequence of them is numbered from 1. *)
LEMMA MonitoringRows ==
    ASSUME RowsTyped
    PROVE  /\ Len(batches) \in Nat /\ DOMAIN batches = 1..Len(batches)
           /\ Len(scans) \in Nat /\ DOMAIN scans = 1..Len(scans)
           /\ \A b \in DOMAIN batches : batches[b] \in BatchRows
           /\ \A s \in DOMAIN scans : scans[s] \in ScanRows
           /\ \A c \in Changes : events[c] \in EventRows
           /\ \A w \in Workers : worker[w] \in Busy \cup {Idle}
BY DEF RowsTyped

(* A change is one of a root, with its number. *)
LEMMA ChangeFacts == \A c \in Changes : c[1] \in Roots /\ c[2] \in 1..MaxChanges /\ c = <<c[1], c[2]>>
BY DEF Changes

(* The delivered events are events of the outbox. *)
LEMMA DeliveryFacts ==
    ASSUME NativeTyped
    PROVE  Delivery \subseteq EventsIn(outbox) /\ EventsIn(outbox) \subseteq Changes
BY DEF Delivery, Oldest, EventsIn, NativeTyped

(* What the steps of the Bridge and of the scans leave of the rows: an event
   becomes at most queued, a scan only moves on, and one that is added belongs
   to no batch. *)
EventsAdded ==
    /\ events' \in [Changes -> EventRows]
    /\ \A c \in Changes : events'[c] = events[c] \/
          (events[c].status = "NONE" /\ events'[c] = [status |-> "QUEUED", batch |-> None])

ScanMoved(s) ==
    /\ scans'[s].root = scans[s].root /\ scans'[s].batch = scans[s].batch
    /\ scans'[s].status \in ActiveStatuses => scans[s].status \in ActiveStatuses \/ scans'[s].reopened
    /\ scans[s].done => scans'[s].done
    /\ scans[s].rows = "whole" => scans'[s].rows = "whole"
    /\ scans[s].reopened => scans'[s].reopened /\ scans'[s].rows = scans[s].rows
    /\ ScanSound(s)'
    /\ \/ scans'[s].seen = scans[s].seen
       \/ scans[s].seen = None /\ scans'[s].seen = disk[scans[s].root]

ScanAdded(s) == scans'[s].batch = None /\ scans'[s].status = "SCANNING" /\ ScanSound(s)'

ScansMoved ==
    /\ scans' \in Seq(ScanRows) /\ DOMAIN scans \subseteq DOMAIN scans'
    /\ \A s \in DOMAIN scans : ScanMoved(s)
    /\ \A s \in DOMAIN scans' \ DOMAIN scans : ScanAdded(s)

RowParts ==
    RowsTyped /\ References /\ OneProcessing /\ ScansOwned /\ WorkersHold /\ SeenSince /\ EventsReconciled

(* Ingestion adds rows for the events it names, and touches no other. *)
LEMMA AddedFacts ==
    ASSUME RowsTyped, NEW cs, events' = Enqueued(cs)
    PROVE  /\ EventsAdded
           /\ \A c \in cs \cap Changes : events'[c].status # "NONE" \/ c[2] \in Ignored
<1>1. [status |-> "QUEUED", batch |-> None] \in EventRows
  BY DEF EventRows
<1>2. ASSUME NEW c \in Changes
      PROVE  /\ events'[c] = events[c] \/
                   (events[c].status = "NONE" /\ events'[c] = [status |-> "QUEUED", batch |-> None])
             /\ c \in cs => events'[c].status # "NONE" \/ c[2] \in Ignored
  <2>1. events'[c] = IF c \in cs /\ c[2] \notin Ignored /\ events[c].status = "NONE"
                     THEN [status |-> "QUEUED", batch |-> None] ELSE events[c]
    BY DEF Enqueued
  <2>2. CASE c \in cs /\ c[2] \notin Ignored /\ events[c].status = "NONE"
    BY <2>1, <2>2
  <2>3. CASE ~(c \in cs /\ c[2] \notin Ignored /\ events[c].status = "NONE")
    BY <2>1, <2>3
  <2> QED
    BY <2>2, <2>3
<1>3. events' \in [Changes -> EventRows]
  BY <1>1, MonitoringRows DEF Enqueued
<1> QED
  BY <1>2, <1>3 DEF EventsAdded

(* Rows that stay as they are count as such steps. *)
LEMMA SameEventsAdded == ASSUME RowsTyped, UNCHANGED events PROVE EventsAdded
<1>1. events' = events /\ events \in [Changes -> EventRows]
  BY DEF RowsTyped
<1> QED
  BY <1>1, Zenon DEF EventsAdded

(* So do scans that stay as they are. *)
LEMMA SameScansMoved == ASSUME RowsTyped, SeenSince, UNCHANGED scans PROVE ScansMoved
BY DEF RowsTyped, SeenSince, ScansMoved, ScanMoved, ScanSound

(* Such steps keep everything the batches and the workers rest on. *)
LEMMA RowsMove ==
    ASSUME MonitoringInv, UNCHANGED <<batches, worker>>, EventsAdded, ScansMoved
    PROVE  RowParts'
<1>1. /\ RowsTyped /\ References /\ OneProcessing /\ ScansOwned /\ WorkersHold /\ SeenSince
      /\ EventsReconciled /\ HintsTrue /\ NativeTyped
  BY DEF MonitoringInv
<1>2. /\ DOMAIN batches = 1..Len(batches) /\ DOMAIN scans = 1..Len(scans)
      /\ Len(batches) \in Nat /\ Len(scans) \in Nat
      /\ \A b \in DOMAIN batches : batches[b] \in BatchRows
      /\ \A s \in DOMAIN scans : scans[s] \in ScanRows
      /\ \A c \in Changes : events[c] \in EventRows
      /\ \A w \in Workers : worker[w] \in Busy \cup {Idle}
  BY <1>1, MonitoringRows
<1>3. RowsTyped'
  BY <1>1 DEF RowsTyped, EventsAdded, ScansMoved
<1>4. \A c \in Changes : events'[c].status \notin {"NONE", "QUEUED"} => events'[c] = events[c]
  BY DEF EventsAdded
<1>5. /\ DOMAIN scans \subseteq DOMAIN scans' /\ \A s \in DOMAIN scans : ScanMoved(s)
      /\ \A s \in DOMAIN scans' : s \notin DOMAIN scans => ScanAdded(s)
  BY DEF ScansMoved
<1>6. \A s \in DOMAIN scans :
          /\ scans'[s].status \in ActiveStatuses => scans[s].status \in ActiveStatuses \/ scans'[s].reopened
          /\ scans[s].reopened => scans'[s].reopened
  BY <1>5 DEF ScanMoved
<1>7. References'
  <2>1. \A b \in DOMAIN batches' : batches'[b].scan # None =>
          batches'[b].scan \in DOMAIN scans' /\ scans'[batches'[b].scan].root = batches'[b].root
    BY <1>1, <1>5 DEF References, ScansMoved, ScanMoved
  <2>2. \A s \in DOMAIN scans' : scans'[s].batch # None => scans'[s].batch \in DOMAIN batches'
    BY <1>1, <1>5 DEF References, ScanMoved, ScanAdded
  <2>3. \A c \in Changes : events'[c].batch # None => events'[c].batch \in DOMAIN batches'
    BY <1>1 DEF References, EventsAdded
  <2>4. \A w \in Workers : worker'[w] # Idle => worker'[w].batch \in DOMAIN batches'
    BY <1>1 DEF References
  <2> QED
    BY <2>1, <2>2, <2>3, <2>4 DEF References
<1>8. OneProcessing'
  BY <1>1, <1>4 DEF OneProcessing
<1>9. ScansOwned'
  BY <1>1, <1>5, <1>6 DEF ScansOwned, ScanMoved, ScanAdded
<1>10. WorkersHold'
  <2>1. \A w \in Workers : worker[w].step = "finalize" =>
          /\ Ended(batches[worker[w].batch].scan)'
          /\ \A c \in Changes : events'[c].status = "PROCESSING" => events'[c].batch # worker[w].batch
    <3> TAKE w \in Workers
    <3> HAVE worker[w].step = "finalize"
    <3>1. batches[worker[w].batch].scan # None
      BY <1>1 DEF WorkersHold
    <3>2. worker[w].batch \in DOMAIN batches
      BY <1>1 DEF References, Idle
    <3>3. batches[worker[w].batch].scan \in DOMAIN scans
      BY <1>1, <3>1, <3>2 DEF References
    <3>4. Ended(batches[worker[w].batch].scan)
      BY <1>1 DEF WorkersHold
    <3>5. Ended(batches[worker[w].batch].scan)'
      BY <1>6, <3>3, <3>4 DEF Ended
    <3> QED
      BY <1>1, <1>4, <3>5 DEF WorkersHold
  <2> QED
    BY <1>1, <2>1 DEF WorkersHold, Creates
<1>11. SeenSince'
  <2>1. \A s \in DOMAIN scans' : ScanSound(s)'
    BY <1>5 DEF ScanMoved, ScanAdded
  <2>2. ASSUME NEW c \in Changes, events'[c].status = "PROCESSING",
               batches[events'[c].batch].scan # None, scans'[batches[events'[c].batch].scan].seen # None
        PROVE  c[2] <= scans'[batches[events'[c].batch].scan].seen
    <3>1. events'[c] = events[c] /\ events[c].status = "PROCESSING"
      BY <1>4, <2>2
    <3> DEFINE b == events[c].batch
               s == batches[b].scan
    <3>2. b \in DOMAIN batches /\ batches[b].root = c[1] /\ s # None
      BY <1>1, <2>2, <3>1 DEF OneProcessing
    <3>3. s \in DOMAIN scans /\ scans[s].root = c[1]
      BY <1>1, <3>2 DEF References
    <3>4. c[2] <= disk[c[1]]
      BY <1>1, <3>1 DEF HintsTrue
    <3>5. ScanMoved(s)
      BY <1>5, <3>3 DEF ScansMoved
    <3>6. CASE scans'[s].seen = scans[s].seen
      BY <1>1, <2>2, <3>1, <3>2, <3>6 DEF SeenSince
    <3>7. CASE scans'[s].seen = disk[scans[s].root]
      BY <3>1, <3>3, <3>4, <3>7
    <3> QED
      BY <3>5, <3>6, <3>7 DEF ScanMoved
  <2> QED
    BY <2>1, <2>2 DEF SeenSince
<1>12. EventsReconciled'
  <2> SUFFICES ASSUME NEW c \in Changes, events'[c].status = "COMPLETED"
               PROVE  \E s \in DOMAIN scans' : Reconciles(s, c)' \/ CutShort(s, c)'
    BY DEF EventsReconciled
  <2>1. events[c].status = "COMPLETED"
    BY <1>4
  <2>2. PICK s \in DOMAIN scans : Reconciles(s, c) \/ CutShort(s, c)
    BY <1>1, <2>1 DEF EventsReconciled
  <2>3. ScanMoved(s) /\ s \in DOMAIN scans'
    BY <1>5
  <2>4. CASE Reconciles(s, c)
    BY <1>1, <2>3, <2>4 DEF Reconciles, ScanMoved, SeenSince, ScanSound
  <2>5. CASE CutShort(s, c)
    BY <2>3, <2>5 DEF CutShort, ScanMoved
  <2> QED
    BY <2>2, <2>3, <2>4, <2>5
<1> QED
  BY <1>3, <1>7, <1>8, <1>9, <1>10, <1>11, <1>12 DEF RowParts

-----------------------------------------------------------------------------
(* Monitoring: the steps of the Bridge, of a person and of the scans. *)

(* The invariant in the parts that different steps disturb, now and next. *)
LEMMA InvParts ==
    MonitoringInv <=> NativeTyped /\ FolderTyped /\ RowParts /\ HintsTrue /\ HintsKept
BY DEF MonitoringInv, RowParts

(* The same parts, in the next state. *)
LEMMA InvPartsNext ==
    MonitoringInv' <=> NativeTyped' /\ FolderTyped' /\ RowParts' /\ HintsTrue' /\ HintsKept'
BY DEF MonitoringInv, RowParts

(* The use of a bound leaves the revisions within it. *)
LEMMA FolderKeeps ==
    ASSUME FolderTyped, UNCHANGED folder, UNCHANGED spent \/ Fault \/ Switch
    PROVE  FolderTyped'
BY MonitoringAssumption DEF FolderTyped, Fault, Switch

(* A step that leaves the Bridge alone keeps the hints, if no event loses its
   row, and every row and every hint of a report is of a change that happened. *)
LEMMA HintsRest ==
    ASSUME HintsTrue, HintsKept, NativeTyped, UNCHANGED nativeVars,
           \A c \in Changes : events[c].status # "NONE" => events'[c].status # "NONE",
           \A c \in Changes : events'[c].status # "NONE" =>
               events[c].status # "NONE" \/ c[2] <= disk[c[1]],
           \A s \in DOMAIN scans' : \A c \in scans'[s].hints : c[2] <= disk[c[1]]
    PROVE  HintsTrue' /\ HintsKept' /\ NativeTyped'
<1> USE DEF nativeVars
<1>1. HintsTrue'
  BY DEF HintsTrue, EventsIn, NativeTyped
<1>2. HintsKept'
  BY DEF HintsKept, EventsIn, NativeTyped
<1>3. NativeTyped'
  BY DEF NativeTyped
<1> QED
  BY <1>1, <1>2, <1>3

(* A change on disk, with its event when the watcher runs. *)
LEMMA ChangeKeeps == ASSUME MonitoringInv, NEW r \in Roots, Change(r) PROVE MonitoringInv'
<1> DEFINE c == <<r, disk[r] + 1>>
<1>1. NativeTyped /\ FolderTyped /\ RowParts /\ HintsTrue /\ HintsKept
  BY InvParts
<1>2. /\ disk[r] \in 0..MaxChanges /\ disk[r] < MaxChanges
      /\ disk' = [disk EXCEPT ![r] = @ + 1]
      /\ outbox' = IF watcher[r] THEN Queued(outbox, c) ELSE outbox
      /\ hinted' = (hinted \cup (EventsIn(outbox') \ EventsIn(outbox)))
                      \ (EventsIn(outbox) \ EventsIn(outbox'))
      /\ UNCHANGED <<watcher, reply, folder, events, batches, scans, worker, spent>>
  BY <1>1 DEF Change, NativeTyped
<1>3. c \in Changes
  BY <1>2, MonitoringAssumption DEF Changes
<1> HIDE DEF c
<1>4. /\ outbox' \subseteq [place : Nat, change : Changes] /\ IsFiniteSet(outbox')
      /\ Cardinality(outbox') <= OutboxLimit
      /\ EventsIn(outbox') \subseteq EventsIn(outbox) \cup {c}
  BY <1>1, <1>2, <1>3, QueuedFacts DEF NativeTyped
<1>5. EventsIn(outbox) \subseteq Changes /\ EventsIn(outbox') \subseteq Changes
  BY <1>1, <1>4 DEF NativeTyped, EventsIn
<1>6. NativeTyped'
  <2>1. disk' \in [Roots -> 0..MaxChanges]
    BY <1>1, <1>2, MonitoringAssumption DEF NativeTyped
  <2>2. hinted' \subseteq Changes
    BY <1>1, <1>2, <1>5 DEF NativeTyped
  <2> QED
    BY <1>1, <1>2, <1>4, <2>1, <2>2 DEF NativeTyped
<1>7. \A d \in Changes : d[2] <= disk[d[1]] => d[2] <= disk'[d[1]]
  BY <1>1, <1>2, ChangeFacts DEF NativeTyped
<1>8. c[2] <= disk'[c[1]]
  BY <1>1, <1>2 DEF NativeTyped, c
<1>9. HintsTrue'
  <2>1. \A d \in Changes : events'[d].status # "NONE" \/ d \in EventsIn(outbox') => d[2] <= disk'[d[1]]
    BY <1>1, <1>2, <1>4, <1>7, <1>8 DEF HintsTrue
  <2>2. \A s \in DOMAIN scans' : \A d \in scans'[s].hints : d[2] <= disk'[d[1]]
    <3>1. \A s \in DOMAIN scans : scans[s].hints \subseteq Changes
      BY <1>1, MonitoringRows DEF RowParts, ScanRows
    <3> QED
      BY <1>1, <1>2, <1>7, <3>1 DEF HintsTrue
  <2> QED
    BY <1>1, <1>2, <2>1, <2>2 DEF HintsTrue
<1>10. HintsKept'
  BY <1>1, <1>2 DEF HintsKept
<1>11. EventsAdded /\ ScansMoved
  BY <1>1, <1>2, SameEventsAdded, SameScansMoved DEF RowParts
<1> QED
  BY <1>1, <1>2, <1>6, <1>9, <1>10, <1>11, RowsMove, FolderKeeps, InvPartsNext

(* A delivery gives every event it names a row before its reply can arrive. *)
LEMMA DeliverKeeps == ASSUME MonitoringInv, Deliver PROVE MonitoringInv'
<1>1. NativeTyped /\ FolderTyped /\ RowParts /\ HintsTrue /\ HintsKept
  BY InvParts
<1>2. /\ events' = Enqueued(Delivery) /\ reply' = Delivery
      /\ UNCHANGED <<disk, watcher, outbox, hinted, folder, batches, scans, worker, spent>>
  BY DEF Deliver
<1>3. EventsAdded /\ \A c \in Delivery : events'[c].status # "NONE" \/ c[2] \in Ignored
  BY <1>1, <1>2, AddedFacts, DeliveryFacts DEF RowParts
<1>4. ScansMoved
  BY <1>1, <1>2, SameScansMoved DEF RowParts
<1>5. NativeTyped'
  BY <1>1, <1>2, DeliveryFacts DEF NativeTyped
<1>6. HintsTrue'
  <2>1. \A c \in Changes : events'[c].status # "NONE" => events[c].status # "NONE" \/ c \in Delivery
    BY <1>2 DEF Enqueued
  <2>2. \A c \in Changes : events'[c].status # "NONE" \/ c \in EventsIn(outbox) => c[2] <= disk[c[1]]
    BY <1>1, <2>1, DeliveryFacts DEF HintsTrue
  <2>3. EventsIn(outbox)' = EventsIn(outbox)
    BY <1>2 DEF EventsIn
  <2> QED
    BY <1>1, <1>2, <1>3, <2>2, <2>3 DEF HintsTrue
<1>7. HintsKept'
  <2>1. \A c \in Changes : events[c].status # "NONE" => events'[c].status # "NONE"
    BY <1>3 DEF EventsAdded
  <2> QED
    BY <1>1, <1>2, <2>1 DEF HintsKept, EventsIn, NativeTyped
<1> QED
  BY <1>1, <1>2, <1>3, <1>4, <1>5, <1>6, <1>7, RowsMove, FolderKeeps, InvPartsNext

(* The Bridge forgets only events that have their rows. *)
LEMMA AcknowledgeKeeps == ASSUME MonitoringInv, AcknowledgeEvents PROVE MonitoringInv'
<1>1. NativeTyped /\ FolderTyped /\ RowParts /\ HintsTrue /\ HintsKept
  BY InvParts
<1>2. /\ reply # None /\ outbox' = {e \in outbox : e.change \notin reply} /\ reply' = None
      /\ UNCHANGED <<disk, watcher, hinted, folder, events, batches, scans, worker, spent>>
  BY DEF AcknowledgeEvents
<1>3. EventsAdded /\ ScansMoved
  BY <1>1, <1>2, SameEventsAdded, SameScansMoved DEF RowParts
<1>4. outbox' \subseteq outbox /\ EventsIn(outbox') \subseteq EventsIn(outbox)
      /\ EventsIn(outbox) \subseteq EventsIn(outbox') \cup reply
  BY <1>2 DEF EventsIn
<1>5. IsFiniteSet(outbox') /\ Cardinality(outbox') <= OutboxLimit
  <2>1. IsFiniteSet(outbox') /\ Cardinality(outbox') <= Cardinality(outbox)
    BY <1>1, <1>4, FS_Subset DEF NativeTyped
  <2>2. Cardinality(outbox') \in Nat /\ Cardinality(outbox) \in Nat
    BY <1>1, <2>1, FS_CardinalityType DEF NativeTyped
  <2> QED
    BY <1>1, <2>1, <2>2, MonitoringAssumption DEF NativeTyped
<1>6. NativeTyped'
  BY <1>1, <1>2, <1>4, <1>5 DEF NativeTyped
<1>7. HintsTrue' /\ HintsKept'
  BY <1>1, <1>2, <1>4 DEF HintsTrue, HintsKept
<1> QED
  BY <1>1, <1>2, <1>3, <1>6, <1>7, RowsMove, FolderKeeps, InvPartsNext

(* The reply is lost: the outbox keeps its events. *)
LEMMA LoseReplyKeeps == ASSUME MonitoringInv, LoseReply PROVE MonitoringInv'
<1>1. NativeTyped /\ FolderTyped /\ RowParts /\ HintsTrue /\ HintsKept
  BY InvParts
<1>2. /\ reply' = None /\ Fault
      /\ UNCHANGED <<disk, watcher, outbox, hinted, folder, events, batches, scans, worker>>
  BY DEF LoseReply
<1>3. EventsAdded /\ ScansMoved
  BY <1>1, <1>2, SameEventsAdded, SameScansMoved DEF RowParts
<1>4. NativeTyped'
  BY <1>1, <1>2 DEF NativeTyped
<1>5. HintsTrue' /\ HintsKept'
  BY <1>1, <1>2 DEF HintsTrue, HintsKept, EventsIn
<1> QED
  BY <1>1, <1>2, <1>3, <1>4, <1>5, RowsMove, FolderKeeps, InvPartsNext

(* The watcher pauses or resumes, or its row follows: no row of the queue
   changes. *)
LEMMA FolderSteps ==
    ASSUME MonitoringInv, NEW r \in Roots, SwitchWatcher(r) \/ SyncFolder(r)
    PROVE  MonitoringInv'
<1>1. NativeTyped /\ FolderTyped /\ RowParts /\ HintsTrue /\ HintsKept
  BY InvParts
<1>2. UNCHANGED <<disk, outbox, hinted, reply, events, batches, scans, worker>>
  BY DEF SwitchWatcher, SyncFolder, nativeVars
<1>3. EventsAdded /\ ScansMoved
  BY <1>1, <1>2, SameEventsAdded, SameScansMoved DEF RowParts
<1>4. watcher' \in [Roots -> BOOLEAN]
  BY <1>1 DEF NativeTyped, SwitchWatcher, SyncFolder, nativeVars
<1>5. NativeTyped'
  BY <1>1, <1>2, <1>4 DEF NativeTyped
<1>6. HintsTrue' /\ HintsKept'
  BY <1>1, <1>2 DEF HintsTrue, HintsKept, EventsIn
<1>7. FolderTyped'
  <2>1. CASE SwitchWatcher(r)
    BY <1>1, <2>1, FolderKeeps DEF SwitchWatcher
  <2>2. CASE SyncFolder(r)
    BY <1>1, <2>2 DEF SyncFolder, FolderTyped, NativeTyped
  <2> QED
    BY <2>1, <2>2
<1> QED
  BY <1>2, <1>3, <1>5, <1>6, <1>7, RowsMove, InvPartsNext

(* A folder that is connected again fails the scans at work, and changes no
   other. *)
LEMMA RetiredFacts ==
    ASSUME RowsTyped, NEW r \in Roots
    PROVE  /\ ScansRetired(r) \in Seq(ScanRows) /\ DOMAIN ScansRetired(r) = DOMAIN scans
           /\ \A s \in DOMAIN scans :
                  LET a == ScansRetired(r)[s]
                  IN  \/ a = scans[s]
                      \/ /\ scans[s].status \in ActiveStatuses /\ a.status = "FAILED" /\ a.hints = {}
                         /\ a.root = scans[s].root /\ a.batch = scans[s].batch /\ a.seen = scans[s].seen
                         /\ a.rows = scans[s].rows /\ a.done = scans[s].done
                         /\ a.reopened = scans[s].reopened
<1>1. /\ \A s \in DOMAIN scans : scans[s] \in ScanRows
      /\ DOMAIN scans = 1..Len(scans) /\ Len(scans) \in Nat
  BY MonitoringRows
<1>2. ASSUME NEW s \in DOMAIN scans
      PROVE  LET a == ScansRetired(r)[s]
             IN  /\ a \in ScanRows
                 /\ \/ a = scans[s]
                    \/ /\ scans[s].status \in ActiveStatuses /\ a.status = "FAILED" /\ a.hints = {}
                       /\ a.root = scans[s].root /\ a.batch = scans[s].batch /\ a.seen = scans[s].seen
                       /\ a.rows = scans[s].rows /\ a.done = scans[s].done
                       /\ a.reopened = scans[s].reopened
  <2>1. CASE scans[s].root = r /\ scans[s].status \in ActiveStatuses
    <3>1. ScansRetired(r)[s] = [scans[s] EXCEPT !.status = "FAILED", !.hints = {}]
      BY <2>1 DEF ScansRetired
    <3> QED
      BY <1>1, <2>1, <3>1 DEF ScanRows
  <2>2. CASE ~(scans[s].root = r /\ scans[s].status \in ActiveStatuses)
    <3>1. ScansRetired(r)[s] = scans[s]
      BY <2>2 DEF ScansRetired
    <3> QED
      BY <1>1, <3>1
  <2> QED
    BY <2>1, <2>2
<1>3. DOMAIN ScansRetired(r) = DOMAIN scans
  BY DEF ScansRetired
<1>4. ScansRetired(r) \in [1..Len(scans) -> ScanRows]
  BY <1>1, <1>2 DEF ScansRetired
<1>5. ScansRetired(r) \in Seq(ScanRows)
  BY <1>1, <1>4
<1> QED
  BY <1>2, <1>3, <1>5

LEMMA ReconnectKeeps == ASSUME MonitoringInv, NEW r \in Roots, Reconnect(r) PROVE MonitoringInv'
<1>1. NativeTyped /\ FolderTyped /\ RowParts /\ HintsTrue /\ HintsKept /\ RowsTyped /\ SeenSince
  BY InvParts DEF RowParts
<1>2. /\ scans' = ScansRetired(r) /\ UNCHANGED <<nativeVars, events, batches, worker>>
  BY DEF Reconnect
<1>3. /\ scans' \in Seq(ScanRows) /\ DOMAIN scans' = DOMAIN scans
      /\ \A s \in DOMAIN scans :
            \/ scans'[s] = scans[s]
            \/ /\ scans[s].status \in ActiveStatuses /\ scans'[s].status = "FAILED" /\ scans'[s].hints = {}
               /\ scans'[s].root = scans[s].root /\ scans'[s].batch = scans[s].batch
               /\ scans'[s].seen = scans[s].seen /\ scans'[s].rows = scans[s].rows
               /\ scans'[s].done = scans[s].done /\ scans'[s].reopened = scans[s].reopened
  BY <1>1, <1>2, RetiredFacts
<1>4. ASSUME NEW s \in DOMAIN scans PROVE ScanMoved(s)
  <2>1. ScanSound(s)
    BY <1>1 DEF SeenSince
  <2>2. CASE scans'[s] = scans[s]
    BY <2>1, <2>2 DEF ScanMoved, ScanSound
  <2>3. CASE scans'[s] # scans[s]
    BY <1>3, <2>1, <2>3 DEF ScanMoved, ScanSound, ActiveStatuses
  <2> QED
    BY <2>2, <2>3
<1>5. ScansMoved
  BY <1>3, <1>4 DEF ScansMoved
<1>6. EventsAdded
  BY <1>1, <1>2, SameEventsAdded
<1>7. \A s \in DOMAIN scans' : \A c \in scans'[s].hints : c[2] <= disk[c[1]]
  BY <1>1, <1>3 DEF HintsTrue
<1>8. HintsTrue' /\ HintsKept' /\ NativeTyped'
  BY <1>1, <1>2, <1>7, HintsRest DEF HintsTrue
<1>9. FolderTyped'
  BY <1>1, MonitoringAssumption DEF Reconnect, FolderTyped, Switch
<1> QED
  BY <1>2, <1>5, <1>6, <1>8, <1>9, RowsMove, InvPartsNext

(* A scan that only moves on, or is added by a person, keeps the invariant. *)
LEMMA ScansKeep ==
    ASSUME MonitoringInv, UNCHANGED <<disk, watcher, outbox, hinted, reply, folder, batches, worker>>,
           EventsAdded, ScansMoved, UNCHANGED spent \/ Fault \/ Switch,
           \A c \in Changes : events'[c].status # "NONE" =>
               events[c].status # "NONE" \/ c[2] <= disk[c[1]],
           \A s \in DOMAIN scans' : \A c \in scans'[s].hints : c[2] <= disk[c[1]]
    PROVE  MonitoringInv'
<1>1. NativeTyped /\ FolderTyped /\ RowParts /\ HintsTrue /\ HintsKept
  BY InvParts
<1>2. \A c \in Changes : events[c].status # "NONE" => events'[c].status # "NONE"
  BY DEF EventsAdded
<1>3. HintsTrue' /\ HintsKept' /\ NativeTyped'
  BY <1>1, <1>2, HintsRest DEF nativeVars
<1> QED
  BY <1>1, <1>3, RowsMove, FolderKeeps, InvPartsNext

(* A person's scan belongs to no batch. *)
LEMMA PersonScanKeeps == ASSUME MonitoringInv, NEW r \in Roots, PersonScan(r) PROVE MonitoringInv'
<1> DEFINE rec == NewScan(r, None)
<1>1. NativeTyped /\ FolderTyped /\ RowParts /\ HintsTrue /\ RowsTyped /\ SeenSince
  BY InvParts DEF RowParts
<1>2. scans' = Append(scans, rec) /\ UNCHANGED <<nativeVars, folder, events, batches, worker, spent>>
  BY DEF PersonScan
<1>3. rec \in ScanRows
  BY <1>1, MonitoringAssumption DEF NewScan, ScanRows, FolderTyped, ActiveStatuses
<1>4. /\ rec.batch = None /\ rec.status = "SCANNING" /\ rec.hints = {}
      /\ rec.rows = "none" /\ ~rec.reopened
  BY DEF NewScan
<1> HIDE DEF rec
<1>5. /\ scans' \in Seq(ScanRows) /\ DOMAIN scans' = 1..(Len(scans) + 1)
      /\ DOMAIN scans = 1..Len(scans) /\ Len(scans) \in Nat
      /\ scans'[Len(scans) + 1] = rec /\ \A s \in DOMAIN scans : scans'[s] = scans[s]
  BY <1>1, <1>2, <1>3, MonitoringRows DEF RowsTyped
<1>6. \A s \in DOMAIN scans' : s \notin DOMAIN scans => scans'[s] = rec
  BY <1>5
<1>7. ScansMoved
  BY <1>1, <1>4, <1>5, <1>6 DEF ScansMoved, ScanMoved, ScanAdded, SeenSince, ScanSound
<1>8. \A s \in DOMAIN scans' : \A c \in scans'[s].hints : c[2] <= disk[c[1]]
  BY <1>1, <1>4, <1>5, <1>6 DEF HintsTrue
<1>9. EventsAdded
  BY <1>1, <1>2, SameEventsAdded
<1> QED
  BY <1>2, <1>7, <1>8, <1>9, ScansKeep DEF nativeVars

(* What one scan becomes decides all of it: the others stay. *)
LEMMA ScanReplaced ==
    ASSUME MonitoringInv, NEW s \in DOMAIN scans, NEW rec \in ScanRows, scans' = [scans EXCEPT ![s] = rec],
           UNCHANGED <<disk, watcher, outbox, hinted, reply, folder, batches, worker>>,
           EventsAdded, UNCHANGED spent \/ Fault \/ Switch, ScanMoved(s),
           \A c \in Changes : events'[c].status # "NONE" =>
               events[c].status # "NONE" \/ c[2] <= disk[c[1]],
           \A c \in rec.hints : c[2] <= disk[c[1]]
    PROVE  MonitoringInv'
<1>1. HintsTrue /\ RowsTyped /\ SeenSince
  BY DEF MonitoringInv
<1>2. /\ scans' \in Seq(ScanRows) /\ DOMAIN scans' = DOMAIN scans /\ scans'[s] = rec
      /\ \A t \in DOMAIN scans : t # s => scans'[t] = scans[t]
  BY <1>1, MonitoringRows DEF RowsTyped
<1>3. ScansMoved
  BY <1>1, <1>2 DEF ScansMoved, ScanMoved, SeenSince, ScanSound
<1>4. \A t \in DOMAIN scans' : \A c \in scans'[t].hints : c[2] <= disk[c[1]]
  BY <1>1, <1>2 DEF HintsTrue
<1> QED
  BY <1>3, <1>4, ScansKeep

(* An inventory sees every change its root has had. *)
LEMMA DiscoverKeeps == ASSUME MonitoringInv, NEW s \in DOMAIN scans, Discover(s) PROVE MonitoringInv'
<1> DEFINE hints == IF scans[s].batch = None THEN {} ELSE {c \in EventsIn(outbox) : c[1] = scans[s].root}
           rec == [scans[s] EXCEPT !.seen = disk[scans[s].root], !.hints = hints]
<1>1. NativeTyped /\ HintsTrue /\ RowsTyped /\ SeenSince
  BY DEF MonitoringInv
<1>2. /\ scans[s].seen = None
      /\ scans' = [scans EXCEPT ![s] = rec]
      /\ UNCHANGED <<nativeVars, folder, events, batches, worker, spent>>
  BY DEF Discover
<1>3. scans[s] \in ScanRows
  BY <1>1, MonitoringRows
<1>4. hints \subseteq EventsIn(outbox) /\ EventsIn(outbox) \subseteq Changes
  BY <1>1, DeliveryFacts
<1>5. \A c \in hints : c[2] <= disk[c[1]]
  BY <1>1, <1>4 DEF HintsTrue
<1> HIDE DEF hints
<1>6. disk[scans[s].root] \in 0..MaxChanges
  BY <1>1, <1>3 DEF NativeTyped, ScanRows
<1>7. /\ rec \in ScanRows /\ rec.root = scans[s].root /\ rec.batch = scans[s].batch
      /\ rec.status = scans[s].status /\ rec.rows = scans[s].rows /\ rec.done = scans[s].done
      /\ rec.reopened = scans[s].reopened
      /\ rec.seen = disk[scans[s].root] /\ rec.hints = hints
  BY <1>2, <1>3, <1>4, <1>6 DEF ScanRows
<1> HIDE DEF rec
<1>8. scans'[s] = rec
  BY <1>2
<1>9. ScanMoved(s)
  BY <1>1, <1>2, <1>7, <1>8 DEF ScanMoved, SeenSince, ScanSound
<1> QED
  BY <1>1, <1>2, <1>5, <1>7, <1>9, SameEventsAdded, ScanReplaced DEF nativeVars

(* The hints of a report become rows. *)
LEMMA IngestKeeps == ASSUME MonitoringInv, NEW s \in DOMAIN scans, IngestHints(s) PROVE MonitoringInv'
<1> DEFINE rec == [scans[s] EXCEPT !.hints = {}]
<1>1. HintsTrue /\ RowsTyped /\ SeenSince
  BY DEF MonitoringInv
<1>2. /\ events' = Enqueued(scans[s].hints)
      /\ scans' = [scans EXCEPT ![s] = rec]
      /\ UNCHANGED <<nativeVars, folder, batches, worker, spent>>
  BY DEF IngestHints
<1>3. scans[s] \in ScanRows
  BY <1>1, MonitoringRows
<1>4. rec \in ScanRows /\ rec.root = scans[s].root /\ rec.batch = scans[s].batch
      /\ rec.status = scans[s].status /\ rec.rows = scans[s].rows /\ rec.done = scans[s].done
      /\ rec.reopened = scans[s].reopened /\ rec.seen = scans[s].seen /\ rec.hints = {}
  BY <1>2, <1>3 DEF ScanRows
<1> HIDE DEF rec
<1>5. ScanMoved(s)
  BY <1>1, <1>2, <1>4 DEF ScanMoved, SeenSince, ScanSound
<1>6. \A c \in Changes : events'[c].status # "NONE" => events[c].status # "NONE" \/ c[2] <= disk[c[1]]
  <2>1. \A c \in Changes : events'[c].status # "NONE" => events[c].status # "NONE" \/ c \in scans[s].hints
    BY <1>2 DEF Enqueued
  <2> QED
    BY <1>1, <2>1 DEF HintsTrue
<1>7. EventsAdded
  BY <1>1, <1>2, AddedFacts
<1> QED
  BY <1>2, <1>4, <1>5, <1>6, <1>7, ScanReplaced DEF nativeVars

(* What a step makes of a scan that has its inventory. *)
ScanNow(s, rec) ==
    /\ rec \in ScanRows /\ scans' = [scans EXCEPT ![s] = rec]
    /\ rec.root = scans[s].root /\ rec.batch = scans[s].batch /\ rec.seen = scans[s].seen
    /\ rec.status \in ActiveStatuses => scans[s].status \in ActiveStatuses \/ rec.reopened
    /\ scans[s].done => rec.done
    /\ scans[s].rows = "whole" => rec.rows = "whole"
    /\ scans[s].reopened => rec.reopened /\ rec.rows = scans[s].rows
    /\ rec.status = "SCANNING" => ~rec.reopened
    /\ rec.status = "COMPLETED" => rec.done
    /\ rec.status \in {"READING", "COMPLETED"} => rec.rows = "whole" \/ rec.reopened
    /\ rec.rows = "whole" => rec.seen # None
    /\ rec.hints = {} \/ rec.hints = scans[s].hints

(* An inventory is imported, its processing ends, the scan fails, or a person
   reopens it. *)
LEMMA ScanEndsKeeps ==
    ASSUME MonitoringInv, NEW s \in DOMAIN scans,
           ImportPage(s) \/ ImportScan(s) \/ CompleteScan(s) \/ FailScan(s) \/ Reopen(s)
    PROVE  MonitoringInv'
<1>1. HintsTrue /\ RowsTyped /\ SeenSince
  BY DEF MonitoringInv
<1>2. scans[s] \in ScanRows /\ ScanSound(s)
  BY <1>1, MonitoringRows DEF SeenSince
<1>3. \E rec : ScanNow(s, rec)
  <2>1. CASE ImportPage(s)
    <3> DEFINE rec == [scans[s] EXCEPT !.rows = "part"]
    <3>1. scans' = [scans EXCEPT ![s] = rec] /\ scans[s].status = "SCANNING" /\ scans[s].rows = "none"
      BY <2>1 DEF ImportPage, Importable
    <3>2. ScanNow(s, rec)
      BY <1>2, <3>1 DEF ScanNow, ScanRows, ScanSound, ActiveStatuses
    <3> QED
      BY <3>2
  <2>2. CASE ImportScan(s)
    <3> DEFINE rec == [scans[s] EXCEPT !.status = "READING", !.rows = "whole"]
    <3>1. scans' = [scans EXCEPT ![s] = rec] /\ scans[s].status = "SCANNING" /\ scans[s].seen # None
      BY <2>2 DEF ImportScan, Importable
    <3>2. ScanNow(s, rec)
      BY <1>2, <3>1 DEF ScanNow, ScanRows, ScanSound, ActiveStatuses
    <3> QED
      BY <3>2
  <2>3. CASE CompleteScan(s)
    <3>1. PICK unread \in {{}, {n \in 1..MaxChanges : n = scans[s].seen}} :
              scans' = [scans EXCEPT ![s].status = "COMPLETED", ![s].unread = unread, ![s].done = TRUE]
      BY <2>3 DEF CompleteScan
    <3> DEFINE rec == [scans[s] EXCEPT !.status = "COMPLETED", !.unread = unread, !.done = TRUE]
    <3>2. scans' = [scans EXCEPT ![s] = rec] /\ scans[s].status = "READING" /\ unread \subseteq 1..MaxChanges
      BY <2>3, <3>1 DEF CompleteScan
    <3>3. ScanNow(s, rec)
      BY <1>2, <3>2 DEF ScanNow, ScanRows, ScanSound, ActiveStatuses
    <3> QED
      BY <3>3
  <2>4. CASE FailScan(s)
    <3> DEFINE rec == [scans[s] EXCEPT !.status = "FAILED", !.hints = {}]
    <3>1. scans' = [scans EXCEPT ![s] = rec]
      BY <2>4 DEF FailScan
    <3>2. ScanNow(s, rec)
      BY <1>2, <3>1 DEF ScanNow, ScanRows, ScanSound, ActiveStatuses
    <3> QED
      BY <3>2
  <2>5. CASE Reopen(s)
    <3> DEFINE rec == [scans[s] EXCEPT !.status = "READING", !.reopened = TRUE]
    <3>1. scans' = [scans EXCEPT ![s] = rec]
      BY <2>5 DEF Reopen
    <3>2. ScanNow(s, rec)
      BY <1>2, <3>1 DEF ScanNow, ScanRows, ScanSound, ActiveStatuses
    <3> QED
      BY <3>2
  <2> QED
    BY <2>1, <2>2, <2>3, <2>4, <2>5
<1>4. PICK rec : ScanNow(s, rec)
  BY <1>3
<1>5. /\ UNCHANGED <<nativeVars, folder, events, batches, worker>>
      /\ UNCHANGED spent \/ Fault \/ Switch
  BY DEF ImportPage, ImportScan, CompleteScan, FailScan, Reopen
<1>6. scans'[s] = rec
  BY <1>4 DEF ScanNow
<1>7. ScanMoved(s)
  BY <1>4, <1>6 DEF ScanMoved, ScanNow, ScanSound
<1>8. \A c \in rec.hints : c[2] <= disk[c[1]]
  BY <1>1, <1>4 DEF HintsTrue, ScanNow
<1>9. rec \in ScanRows /\ scans' = [scans EXCEPT ![s] = rec]
  BY <1>4 DEF ScanNow
<1> QED
  BY <1>1, <1>5, <1>7, <1>8, <1>9, SameEventsAdded, ScanReplaced DEF nativeVars

-----------------------------------------------------------------------------
(* Monitoring: the steps of the workers. *)

(* A worker stops, or goes on to settle a batch that has a scan. *)
WorkerMoved(w) ==
    \/ worker'[w] \in {worker[w], Idle}
    \/ /\ worker'[w] \in Busy /\ worker'[w].step = "settle" /\ worker'[w].batch \in DOMAIN batches
       /\ batches[worker'[w].batch].scan # None

(* A batch closes, when it does, with nothing left to do. *)
Done(b) ==
    /\ \A c \in Changes : events[c].status = "PROCESSING" => events[c].batch # b
    /\ batches[b].scan # None /\ Ended(batches[b].scan)

BatchMoved(b) ==
    /\ batches'[b].root = batches[b].root /\ batches'[b].scan = batches[b].scan
    /\ batches'[b].generation = batches[b].generation
    /\ \/ batches'[b].status = batches[b].status
       \/ batches'[b].status # "PROCESSING" /\ Done(b)

WorkMoved ==
    /\ batches' \in Seq(BatchRows) /\ DOMAIN batches' = DOMAIN batches
    /\ \A b \in DOMAIN batches : BatchMoved(b)
    /\ worker' \in [Workers -> Busy \cup {Idle}] /\ \A w \in Workers : WorkerMoved(w)

(* Such steps keep the invariant. *)
LEMMA WorkKeeps ==
    ASSUME MonitoringInv, UNCHANGED <<nativeVars, folder, events, scans>>, UNCHANGED spent \/ Fault, WorkMoved
    PROVE  MonitoringInv'
<1>1. /\ NativeTyped /\ FolderTyped /\ RowsTyped /\ References /\ HintsTrue /\ OneProcessing
      /\ ScansOwned /\ WorkersHold /\ SeenSince /\ EventsReconciled /\ HintsKept
  BY DEF MonitoringInv
<1>2. events' = events /\ scans' = scans /\ disk' = disk /\ folder' = folder
  BY DEF nativeVars
<1>3. /\ DOMAIN batches' = DOMAIN batches /\ \A b \in DOMAIN batches : BatchMoved(b)
      /\ \A w \in Workers : WorkerMoved(w)
  BY DEF WorkMoved
<1>4. Idle.step = "idle" /\ None \notin DOMAIN batches
  BY <1>1, MonitoringRows, MonitoringAssumption DEF Idle
<1>5. HintsTrue' /\ HintsKept' /\ NativeTyped'
  BY <1>1, <1>2, HintsRest DEF HintsTrue
<1>6. RowsTyped'
  BY <1>1, <1>2 DEF RowsTyped, WorkMoved
<1>7. References'
  <2>1. \A b \in DOMAIN batches' : batches'[b].scan # None =>
          batches'[b].scan \in DOMAIN scans' /\ scans'[batches'[b].scan].root = batches'[b].root
    BY <1>1, <1>2, <1>3 DEF References, BatchMoved
  <2>2. \A w \in Workers : worker'[w] # Idle => worker'[w].batch \in DOMAIN batches'
    BY <1>1, <1>3 DEF References, WorkerMoved
  <2> QED
    BY <1>1, <1>2, <1>3, <2>1, <2>2 DEF References
<1>8. OneProcessing'
  <2>1. \A b \in DOMAIN batches : batches'[b].root = batches[b].root
          /\ (batches'[b].status = "PROCESSING" => batches[b].status = "PROCESSING")
    BY <1>3 DEF BatchMoved
  <2>2. \A c \in Changes : events[c].status = "PROCESSING" =>
          events[c].batch \in DOMAIN batches /\ batches'[events[c].batch].status = "PROCESSING"
    BY <1>1, <1>3 DEF OneProcessing, BatchMoved, Done
  <2> QED
    BY <1>1, <1>2, <1>3, <2>1, <2>2 DEF OneProcessing
<1>9. ScansOwned'
  <2> SUFFICES ASSUME NEW s \in DOMAIN scans, scans[s].status \in ActiveStatuses, scans[s].batch # None,
                      ~scans[s].reopened
               PROVE  batches'[scans[s].batch].status = "PROCESSING" /\ batches'[scans[s].batch].scan = s
    BY <1>2 DEF ScansOwned
  <2>1. /\ batches[scans[s].batch].status = "PROCESSING" /\ batches[scans[s].batch].scan = s
        /\ scans[s].batch \in DOMAIN batches
    BY <1>1 DEF ScansOwned, References
  <2> QED
    BY <1>3, <2>1 DEF BatchMoved, Done, Ended
<1>10. WorkersHold'
  <2>1. \A w \in Workers : worker'[w].step \in {"create", "finalize"} =>
          worker'[w] = worker[w] /\ worker[w].batch \in DOMAIN batches
    BY <1>1, <1>3, <1>4 DEF WorkerMoved, References
  <2>2. \A w \in Workers : worker'[w].step = "settle" =>
          worker'[w].batch \in DOMAIN batches /\ batches[worker'[w].batch].scan # None
    BY <1>1, <1>3, <1>4 DEF WorkerMoved, References, WorkersHold
  <2>3. \A b \in DOMAIN batches : batches'[b].scan = batches[b].scan
          /\ batches'[b].generation = batches[b].generation
    BY <1>3 DEF BatchMoved
  <2>4. \A w \in Workers : Creates(w)' => worker'[w] = worker[w] /\ Creates(w) /\ worker[w].batch \in DOMAIN batches
    BY <2>1, <2>3 DEF Creates
  <2>5. \A w \in Workers : Creates(w)' => batches'[worker'[w].batch].scan = None
    BY <1>1, <2>3, <2>4 DEF WorkersHold
  <2>6. \A v, w \in Workers : Creates(v)' /\ Creates(w)' /\ worker'[v].batch = worker'[w].batch => v = w
    BY <1>1, <2>4 DEF WorkersHold
  <2>7. \A w \in Workers : worker'[w].step \in {"settle", "finalize"} => batches'[worker'[w].batch].scan # None
    BY <1>1, <2>1, <2>2, <2>3 DEF WorkersHold
  <2>8. \A w \in Workers : worker'[w].step = "finalize" =>
          /\ Ended(batches[worker'[w].batch].scan) /\ worker'[w].batch \in DOMAIN batches
          /\ \A c \in Changes : events'[c].status = "PROCESSING" => events'[c].batch # worker'[w].batch
    BY <1>1, <1>2, <1>4, <2>1, <2>3 DEF WorkersHold, References
  <2>9. \A w \in Workers : worker'[w].step = "finalize" => Ended(batches[worker[w].batch].scan)'
    BY <1>2, <1>3, <2>8 DEF Ended, BatchMoved
  <2> QED
    BY <2>5, <2>6, <2>7, <2>8, <2>9 DEF WorkersHold, Creates
<1>11. SeenSince'
  <2>1. \A c \in Changes : events[c].status = "PROCESSING" =>
          batches'[events[c].batch].scan = batches[events[c].batch].scan
    BY <1>1, <1>3 DEF OneProcessing, BatchMoved
  <2> QED
    BY <1>1, <1>2, <2>1 DEF SeenSince, ScanSound
<1>12. EventsReconciled'
  BY <1>1, <1>2 DEF EventsReconciled, Reconciles, CutShort
<1>13. FolderTyped'
  BY <1>1, <1>2, FolderKeeps
<1> QED
  BY <1>5, <1>6, <1>7, <1>8, <1>9, <1>10, <1>11, <1>12, <1>13 DEF MonitoringInv

(* Batches that stay as they are. *)
LEMMA SameBatch == ASSUME RowsTyped, UNCHANGED batches
    PROVE  /\ batches' \in Seq(BatchRows) /\ DOMAIN batches' = DOMAIN batches
           /\ \A b \in DOMAIN batches : BatchMoved(b)
BY DEF RowsTyped, BatchMoved

(* What one batch becomes decides all of them: the others stay. *)
LEMMA ReplacedBatch ==
    ASSUME RowsTyped, NEW b \in DOMAIN batches, NEW rec \in BatchRows, batches' = [batches EXCEPT ![b] = rec],
           rec.root = batches[b].root, rec.scan = batches[b].scan, rec.generation = batches[b].generation,
           rec.status = batches[b].status \/ (rec.status # "PROCESSING" /\ Done(b))
    PROVE  /\ batches' \in Seq(BatchRows) /\ DOMAIN batches' = DOMAIN batches
           /\ \A d \in DOMAIN batches : BatchMoved(d)
<1>1. /\ batches' \in Seq(BatchRows) /\ DOMAIN batches' = DOMAIN batches /\ batches'[b] = rec
      /\ \A d \in DOMAIN batches : d # b => batches'[d] = batches[d]
  BY MonitoringRows DEF RowsTyped
<1> QED
  BY <1>1 DEF BatchMoved

(* A batch that loses its lease keeps the rest of its row. *)
LEMMA LeaseLost ==
    ASSUME RowsTyped, NEW b \in DOMAIN batches, batches' = [batches EXCEPT ![b].live = FALSE]
    PROVE  /\ batches' \in Seq(BatchRows) /\ DOMAIN batches' = DOMAIN batches
           /\ \A d \in DOMAIN batches : BatchMoved(d)
<1> DEFINE rec == [batches[b] EXCEPT !.live = FALSE]
<1>1. /\ rec \in BatchRows /\ batches' = [batches EXCEPT ![b] = rec]
      /\ rec.root = batches[b].root /\ rec.scan = batches[b].scan
      /\ rec.generation = batches[b].generation /\ rec.status = batches[b].status
  BY MonitoringRows DEF BatchRows
<1> HIDE DEF rec
<1> QED
  BY <1>1, ReplacedBatch

(* Workers that stay as they are. *)
LEMMA SameWorkers == ASSUME RowsTyped, UNCHANGED worker
    PROVE  worker' \in [Workers -> Busy \cup {Idle}] /\ \A w \in Workers : WorkerMoved(w)
BY DEF RowsTyped, WorkerMoved

(* One worker stops. *)
LEMMA WorkerStops == ASSUME RowsTyped, NEW w \in Workers, worker' = [worker EXCEPT ![w] = Idle]
    PROVE  worker' \in [Workers -> Busy \cup {Idle}] /\ \A v \in Workers : WorkerMoved(v)
BY DEF RowsTyped, WorkerMoved

(* A lease runs out, with or without a worker that holds it. *)
LEMMA LeaseKeeps ==
    ASSUME MonitoringInv, NEW b \in DOMAIN batches, LeaseExpires(b) \/ Stall(b)
    PROVE  MonitoringInv'
<1>1. RowsTyped
  BY DEF MonitoringInv
<1>2. /\ batches' = [batches EXCEPT ![b].live = FALSE]
      /\ UNCHANGED <<nativeVars, folder, events, scans, worker>> /\ (UNCHANGED spent \/ Fault)
  BY DEF LeaseExpires, Stall
<1>3. WorkMoved
  BY <1>1, <1>2, LeaseLost, SameWorkers DEF WorkMoved
<1> QED
  BY <1>2, <1>3, WorkKeeps

(* A worker that lost its batch, or its process, stops. *)
LEMMA StopKeeps ==
    ASSUME MonitoringInv, NEW w \in Workers, Disowned(w) \/ Die(w)
    PROVE  MonitoringInv'
<1>1. RowsTyped /\ References
  BY DEF MonitoringInv
<1>2. /\ worker[w] # Idle /\ worker' = [worker EXCEPT ![w] = Idle]
      /\ UNCHANGED <<nativeVars, folder, events, scans>> /\ (UNCHANGED spent \/ Fault)
      /\ UNCHANGED batches \/ batches' = [batches EXCEPT ![worker[w].batch].live = FALSE]
  BY DEF Disowned, Die
<1>3. worker[w].batch \in DOMAIN batches
  BY <1>1, <1>2 DEF References
<1>4. WorkMoved
  BY <1>1, <1>2, <1>3, SameBatch, LeaseLost, WorkerStops DEF WorkMoved
<1> QED
  BY <1>2, <1>4, WorkKeeps

(* A batch that is finalized has nothing left to do. *)
LEMMA FinalizeKeeps == ASSUME MonitoringInv, NEW w \in Workers, Finalize(w) PROVE MonitoringInv'
<1> DEFINE b == worker[w].batch
           failed == \E c \in Changes : events[c] = [status |-> "NEEDS_ATTENTION", batch |-> b]
           closed == IF failed THEN "COMPLETED_WITH_ERRORS" ELSE "READY_FOR_REVIEW"
           rec == [batches[b] EXCEPT !.live = FALSE, !.status = closed]
<1>1. RowsTyped /\ References /\ WorkersHold
  BY DEF MonitoringInv
<1>2. /\ worker[w].step = "finalize" /\ worker' = [worker EXCEPT ![w] = Idle]
      /\ batches' = [batches EXCEPT ![b] = rec]
      /\ UNCHANGED <<nativeVars, folder, events, scans, spent>>
  BY DEF Finalize
<1>3. b \in DOMAIN batches
  BY <1>1, <1>2 DEF References, Idle
<1>4. Done(b)
  BY <1>1, <1>2 DEF WorkersHold, Done
<1>5. closed \in {"COMPLETED_WITH_ERRORS", "READY_FOR_REVIEW"}
  OBVIOUS
<1>6. batches[b] \in BatchRows
  BY <1>1, <1>3, MonitoringRows
<1> HIDE DEF failed, closed, b
<1>7. /\ rec \in BatchRows /\ rec.root = batches[b].root /\ rec.scan = batches[b].scan
      /\ rec.generation = batches[b].generation /\ rec.status # "PROCESSING"
  BY <1>5, <1>6 DEF BatchRows
<1> HIDE DEF rec
<1>8. WorkMoved
  BY <1>1, <1>2, <1>3, <1>4, <1>7, ReplacedBatch, WorkerStops DEF WorkMoved
<1> QED
  BY <1>2, <1>8, WorkKeeps

(* Settlement: the inventory of the batch has seen every change it settles. *)
LEMMA SettleKeeps == ASSUME MonitoringInv, NEW w \in Workers, Settle(w) PROVE MonitoringInv'
<1> DEFINE b == worker[w].batch
           s == batches[b].scan
<1>1. /\ NativeTyped /\ FolderTyped /\ RowsTyped /\ References /\ HintsTrue /\ OneProcessing
      /\ ScansOwned /\ WorkersHold /\ SeenSince /\ EventsReconciled /\ HintsKept
  BY DEF MonitoringInv
<1>2. worker[w].step = "settle" /\ UNCHANGED <<nativeVars, folder, batches, scans, spent>>
  BY DEF Settle
<1>3. CASE worker' = [worker EXCEPT ![w] = Idle] /\ UNCHANGED events
  <2>1. WorkMoved
    BY <1>1, <1>3, <1>2, SameBatch, WorkerStops DEF WorkMoved
  <2> QED
    BY <1>2, <1>3, <2>1, WorkKeeps
<1>4. CASE /\ scans[s].status \notin ActiveStatuses
           /\ events' = [c \in Changes |-> IF events[c] = [status |-> "PROCESSING", batch |-> b]
                                           THEN [events[c] EXCEPT !.status = Outcome(c, s)] ELSE events[c]]
           /\ worker' = [worker EXCEPT ![w].step = "finalize"]
  <2>1. b \in DOMAIN batches /\ s # None /\ s \in DOMAIN scans /\ scans[s].root = batches[b].root
    BY <1>1, <1>2 DEF References, WorkersHold, Idle
  <2>2. /\ \A c \in Changes : events[c] \in EventRows
        /\ \A v \in Workers : worker[v] \in Busy \cup {Idle}
        /\ scans[s] \in ScanRows
    BY <1>1, <2>1, MonitoringRows
  <2>3. /\ worker[w] \in Busy /\ worker'[w] \in Busy /\ worker'[w].step = "finalize" /\ worker'[w].batch = b
        /\ \A v \in Workers : v # w => worker'[v] = worker[v]
        /\ worker' \in [Workers -> Busy \cup {Idle}]
    <3>1. worker[w] \in Busy
      BY <1>2, <2>2 DEF Idle
    <3> DEFINE new == [worker[w] EXCEPT !.step = "finalize"]
    <3>2. new \in Busy /\ new.step = "finalize" /\ new.batch = worker[w].batch
      BY <3>1 DEF Busy
    <3>3. worker' = [worker EXCEPT ![w] = new]
      BY <1>4
    <3> HIDE DEF new
    <3> QED
      BY <1>1, <3>1, <3>2, <3>3 DEF RowsTyped
  <2>4. \A c \in Changes : events[c].status = "PROCESSING" /\ events[c].batch = b =>
          events[c] = [status |-> "PROCESSING", batch |-> b]
    BY <2>2 DEF EventRows
  <2>5. \A c \in Changes : Outcome(c, s) \in {"NEEDS_ATTENTION", "COMPLETED"}
    BY DEF Outcome
  <2> HIDE DEF b, s
  <2>6. ASSUME NEW c \in Changes
        PROVE  \/ /\ events'[c] = events[c]
                  /\ events[c].status = "PROCESSING" => events[c].batch # b
               \/ /\ events[c].status = "PROCESSING" /\ events[c].batch = b
                  /\ events'[c] \in EventRows /\ events'[c].batch = b /\ events'[c].status = Outcome(c, s)
    <3>1. CASE events[c] = [status |-> "PROCESSING", batch |-> b]
      <4>1. events'[c] = [events[c] EXCEPT !.status = Outcome(c, s)]
        BY <1>4, <3>1
      <4> QED
        BY <2>2, <2>5, <3>1, <4>1 DEF EventRows
    <3>2. CASE events[c] # [status |-> "PROCESSING", batch |-> b]
      BY <1>4, <2>4, <3>2
    <3> QED
      BY <3>1, <3>2
  <2>7. \A c \in Changes : events'[c].status = "PROCESSING" =>
          events'[c] = events[c] /\ events[c].batch # b
    BY <2>5, <2>6
  <2>8. RowsTyped'
    <3>1. events' \in [Changes -> EventRows]
      BY <1>4, <2>2, <2>6
    <3> QED
      BY <1>1, <1>2, <2>3, <3>1 DEF RowsTyped
  <2>9. References'
    <3>1. \A c \in Changes : events'[c].batch = events[c].batch
      BY <2>6
    <3>2. \A v \in Workers : worker'[v] # Idle => worker'[v].batch \in DOMAIN batches
      BY <1>1, <2>1, <2>3 DEF References
    <3> QED
      BY <1>1, <1>2, <3>1, <3>2 DEF References
  <2>10. OneProcessing' /\ ScansOwned'
    BY <1>1, <1>2, <2>7 DEF OneProcessing, ScansOwned
  <2>11. WorkersHold'
    <3>1. \A v \in Workers : Creates(v)' => v # w /\ worker'[v] = worker[v] /\ Creates(v)
      BY <1>2, <2>3 DEF Creates
    <3>2. \A v \in Workers : worker'[v].step = "finalize" =>
            /\ Ended(batches[worker'[v].batch].scan)
            /\ \A c \in Changes : events'[c].status = "PROCESSING" => events'[c].batch # worker'[v].batch
      <4>1. CASE scans[s].status \notin ActiveStatuses
        BY <1>1, <2>3, <2>7, <4>1 DEF WorkersHold, Ended, s
      <4> QED
        BY <1>4, <4>1
    <3>3. \A v \in Workers : worker'[v].step \in {"settle", "finalize"} => batches[worker'[v].batch].scan # None
      BY <1>1, <2>1, <2>3 DEF WorkersHold, s
    <3> QED
      BY <1>1, <1>2, <3>1, <3>2, <3>3 DEF WorkersHold, Creates, Ended
  <2>12. SeenSince'
    BY <1>1, <1>2, <2>7 DEF SeenSince, ScanSound
  <2>13. EventsReconciled'
    <3> SUFFICES ASSUME NEW c \in Changes, events'[c].status = "COMPLETED"
                 PROVE  \E t \in DOMAIN scans : Reconciles(t, c) \/ CutShort(t, c)
      BY <1>2 DEF EventsReconciled, Reconciles, CutShort
    <3>1. CASE events[c].status = "COMPLETED"
      BY <1>1, <3>1 DEF EventsReconciled
    <3>2. CASE events[c].status # "COMPLETED"
      <4>1. events[c].status = "PROCESSING" /\ events[c].batch = b /\ Outcome(c, s) = "COMPLETED"
        BY <2>6, <3>2
      <4>2. scans[s].status = "COMPLETED"
        BY <1>4, <2>2, <4>1 DEF Outcome, ScanRows, ActiveStatuses
      <4>3. ScanSound(s)
        BY <1>1, <2>1 DEF SeenSince
      <4>4. scans[s].root = c[1]
        BY <1>1, <2>1, <4>1 DEF OneProcessing
      <4>5. CASE scans[s].rows = "whole"
        <5>1. scans[s].seen # None
          BY <4>3, <4>5 DEF ScanSound
        <5>2. c[2] <= scans[s].seen
          BY <1>1, <2>1, <4>1, <5>1 DEF SeenSince, s
        <5>3. scans[s].seen \in Nat /\ c[2] \in Nat
          BY <2>2, <5>1, ChangeFacts, MonitoringAssumption DEF ScanRows
        <5> QED
          BY <2>1, <4>2, <4>3, <4>4, <4>5, <5>2, <5>3 DEF ScanSound, Reconciles
      <4>6. CASE scans[s].rows # "whole"
        BY <2>1, <4>2, <4>3, <4>4, <4>6 DEF ScanSound, CutShort
      <4> QED
        BY <4>5, <4>6
    <3> QED
      BY <3>1, <3>2
  <2>14. HintsTrue' /\ HintsKept' /\ NativeTyped'
    <3>1. \A c \in Changes : events'[c].status = "NONE" <=> events[c].status = "NONE"
      BY <2>5, <2>6
    <3> QED
      BY <1>1, <1>2, <3>1, HintsRest DEF HintsTrue
  <2> QED
    BY <1>1, <1>2, <2>8, <2>9, <2>10, <2>11, <2>12, <2>13, <2>14, FolderKeeps DEF MonitoringInv
<1> QED
  BY <1>3, <1>4 DEF Settle

(* The owner of a batch gives it its scan: no other worker can, and no
   inventory of it exists yet. *)
LEMMA CreateKeeps == ASSUME MonitoringInv, NEW w \in Workers, CreateScan(w) PROVE MonitoringInv'
<1> DEFINE b == worker[w].batch
           n == Len(scans) + 1
           rec == NewScan(batches[b].root, b)
<1>1. /\ NativeTyped /\ FolderTyped /\ RowsTyped /\ References /\ HintsTrue /\ OneProcessing
      /\ ScansOwned /\ WorkersHold /\ SeenSince /\ EventsReconciled /\ HintsKept
  BY DEF MonitoringInv
<1>2. /\ worker[w].step = "create" /\ Owns(w) /\ scans' = Append(scans, rec)
      /\ batches' = [batches EXCEPT ![b].scan = n] /\ worker' = [worker EXCEPT ![w] = Idle]
      /\ UNCHANGED <<nativeVars, folder, events, spent>>
  BY DEF CreateScan
<1>3. /\ b \in DOMAIN batches /\ batches[b] \in BatchRows
      /\ batches[b].status = "PROCESSING" /\ batches[b].generation = worker[w].generation
  BY <1>1, <1>2, MonitoringRows DEF References, Idle, Owns
<1>4. Creates(w) /\ batches[b].scan = None
  BY <1>1, <1>2, <1>3 DEF Creates, WorkersHold
<1>5. rec \in ScanRows
  <2>1. batches[b].root \in Roots /\ folder[batches[b].root].revision \in Nat /\ b \in Nat
    BY <1>1, <1>3, MonitoringRows, MonitoringAssumption DEF BatchRows, FolderTyped
  <2> QED
    BY <2>1 DEF NewScan, ScanRows, ActiveStatuses
<1>6. /\ rec.root = batches[b].root /\ rec.status = "SCANNING" /\ rec.batch = b /\ rec.seen = None
      /\ rec.hints = {} /\ rec.rows = "none" /\ ~rec.reopened
  BY DEF NewScan
<1> HIDE DEF rec
<1>7. /\ scans' \in Seq(ScanRows) /\ DOMAIN scans' = DOMAIN scans \cup {n} /\ n \notin DOMAIN scans /\ n \in Nat
      /\ scans'[n] = rec /\ \A s \in DOMAIN scans : scans'[s] = scans[s]
  BY <1>1, <1>2, <1>5, MonitoringRows DEF RowsTyped
<1> HIDE DEF n
<1>8. /\ batches' \in Seq(BatchRows) /\ DOMAIN batches' = DOMAIN batches /\ batches'[b].scan = n
      /\ \A d \in DOMAIN batches : /\ batches'[d].root = batches[d].root
                                   /\ batches'[d].status = batches[d].status
                                   /\ batches'[d].generation = batches[d].generation
                                   /\ d # b => batches'[d].scan = batches[d].scan
  <2> DEFINE new == [batches[b] EXCEPT !.scan = n]
  <2>1. /\ new \in BatchRows /\ batches' = [batches EXCEPT ![b] = new] /\ new.scan = n
        /\ new.root = batches[b].root /\ new.status = batches[b].status
        /\ new.generation = batches[b].generation
    BY <1>2, <1>3, <1>7 DEF BatchRows
  <2> HIDE DEF new
  <2> QED
    BY <1>1, <1>3, <2>1, MonitoringRows DEF RowsTyped
<1>9. n # None /\ b # None
  BY <1>1, <1>3, <1>7, MonitoringAssumption, MonitoringRows
<1>10. /\ worker' \in [Workers -> Busy \cup {Idle}] /\ worker'[w] = Idle /\ Idle.step = "idle"
       /\ \A v \in Workers : v # w => worker'[v] = worker[v]
  BY <1>1, <1>2 DEF RowsTyped, Idle
<1> HIDE DEF b
<1>11. RowsTyped'
  BY <1>1, <1>2, <1>7, <1>8, <1>10 DEF RowsTyped
<1>12. References'
  <2>1. \A d \in DOMAIN batches' : batches'[d].scan # None =>
          batches'[d].scan \in DOMAIN scans' /\ scans'[batches'[d].scan].root = batches'[d].root
    BY <1>1, <1>6, <1>7, <1>8 DEF References
  <2>2. \A s \in DOMAIN scans' : scans'[s].batch # None => scans'[s].batch \in DOMAIN batches'
    BY <1>1, <1>3, <1>6, <1>7, <1>8 DEF References
  <2>3. \A v \in Workers : worker'[v] # Idle => worker'[v].batch \in DOMAIN batches'
    BY <1>1, <1>8, <1>10 DEF References
  <2> QED
    BY <1>1, <1>2, <1>8, <2>1, <2>2, <2>3 DEF References
<1>13. OneProcessing'
  BY <1>1, <1>2, <1>8 DEF OneProcessing
<1>14. ScansOwned'
  <2>1. \A s \in DOMAIN scans : scans[s].status \in ActiveStatuses /\ ~scans[s].reopened =>
          scans[s].batch # b
    BY <1>1, <1>4, <1>7, <1>9, MonitoringRows, MonitoringAssumption DEF ScansOwned
  <2>2. \A s \in DOMAIN scans :
          scans[s].status \in ActiveStatuses /\ scans[s].batch # None /\ ~scans[s].reopened =>
          batches'[scans[s].batch].status = "PROCESSING" /\ batches'[scans[s].batch].scan = s
    BY <1>1, <1>8, <2>1 DEF ScansOwned, References
  <2> QED
    BY <1>3, <1>6, <1>7, <1>8, <2>2 DEF ScansOwned
<1>15. WorkersHold'
  <2>1. \A v \in Workers : Creates(v)' => /\ v # w /\ worker'[v] = worker[v] /\ Creates(v)
                                          /\ worker[v].batch \in DOMAIN batches
    BY <1>1, <1>8, <1>10 DEF Creates, References, Idle
  <2>2. \A v \in Workers : Creates(v)' => batches'[worker'[v].batch].scan = None
    <3>1. \A v \in Workers : Creates(v)' => worker[v].batch # b
      BY <1>1, <1>4, <2>1 DEF WorkersHold, b
    <3> QED
      BY <1>1, <1>8, <2>1, <3>1 DEF WorkersHold
  <2>3. \A v \in Workers : worker'[v].step \in {"settle", "finalize"} =>
          /\ v # w /\ worker'[v] = worker[v] /\ worker[v].batch \in DOMAIN batches
          /\ batches[worker[v].batch].scan # None /\ worker[v].batch # b
    BY <1>1, <1>4, <1>10 DEF WorkersHold, References, Idle
  <2>4. \A v \in Workers : worker'[v].step \in {"settle", "finalize"} =>
          batches'[worker'[v].batch].scan = batches[worker[v].batch].scan
    BY <1>8, <2>3
  <2>5. \A v \in Workers : worker'[v].step = "finalize" =>
          Ended(batches[worker[v].batch].scan)'
    BY <1>1, <1>7, <2>3, <2>4 DEF WorkersHold, References, Ended
  <2>6. \A v \in Workers : worker'[v].step = "finalize" =>
          \A c \in Changes : events'[c].status = "PROCESSING" => events'[c].batch # worker'[v].batch
    BY <1>1, <1>2, <2>3 DEF WorkersHold
  <2>7. \A u, v \in Workers : Creates(u)' /\ Creates(v)' /\ worker'[u].batch = worker'[v].batch => u = v
    BY <1>1, <2>1 DEF WorkersHold
  <2> QED
    BY <2>2, <2>3, <2>4, <2>5, <2>6, <2>7 DEF WorkersHold, Creates
<1>16. SeenSince'
  <2>1. \A s \in DOMAIN scans' : ScanSound(s)'
    BY <1>1, <1>6, <1>7 DEF SeenSince, ScanSound
  <2>2. ASSUME NEW c \in Changes, events[c].status = "PROCESSING",
               batches'[events[c].batch].scan # None, scans'[batches'[events[c].batch].scan].seen # None
        PROVE  c[2] <= scans'[batches'[events[c].batch].scan].seen
    <3>1. events[c].batch \in DOMAIN batches /\ events[c].batch # b
      BY <1>1, <1>6, <1>7, <1>8, <2>2 DEF OneProcessing
    <3>2. batches'[events[c].batch].scan = batches[events[c].batch].scan
      BY <1>8, <3>1
    <3>3. scans'[batches[events[c].batch].scan] = scans[batches[events[c].batch].scan]
      BY <1>1, <1>7, <2>2, <3>1, <3>2 DEF References
    <3> QED
      BY <1>1, <2>2, <3>2, <3>3 DEF SeenSince
  <2> QED
    BY <1>2, <2>1, <2>2 DEF SeenSince
<1>17. EventsReconciled'
  BY <1>1, <1>2, <1>7 DEF EventsReconciled, Reconciles, CutShort
<1>18. HintsTrue' /\ HintsKept' /\ NativeTyped'
  <2>1. \A s \in DOMAIN scans' : \A c \in scans'[s].hints : c[2] <= disk[c[1]]
    BY <1>1, <1>6, <1>7 DEF HintsTrue
  <2> QED
    BY <1>1, <1>2, <2>1, HintsRest
<1> QED
  BY <1>1, <1>2, <1>11, <1>12, <1>13, <1>14, <1>15, <1>16, <1>17, <1>18, FolderKeeps DEF MonitoringInv

(* A claimed batch has a generation no worker holds: it has one owner, who
   creates its scan if there is none. *)
LEMMA ReclaimKeeps ==
    ASSUME MonitoringInv, NEW w \in Workers, NEW r \in Roots, NEW queue \in BOOLEAN, worker[w] = Idle,
           Reclaim(w, r, queue), UNCHANGED <<nativeVars, spent>>
    PROVE  MonitoringInv'
<1>1. /\ NativeTyped /\ FolderTyped /\ RowsTyped /\ References /\ HintsTrue /\ OneProcessing
      /\ ScansOwned /\ WorkersHold /\ SeenSince /\ EventsReconciled /\ HintsKept
  BY DEF MonitoringInv
<1>2. PICK b \in Processing(r) :
          /\ batches' = [batches EXCEPT ![b].generation = FreshGeneration(b), ![b].live = TRUE]
          /\ worker' = [worker EXCEPT ![w] = [step |-> IF batches[b].scan = None THEN "create" ELSE "settle",
                                              batch |-> b, generation |-> FreshGeneration(b), queue |-> queue]]
          /\ UNCHANGED <<folder, events, scans>>
  BY DEF Reclaim
<1> DEFINE g == FreshGeneration(b)
           step == IF batches[b].scan = None THEN "create" ELSE "settle"
           rec == [batches[b] EXCEPT !.generation = g, !.live = TRUE]
           owner == [step |-> step, batch |-> b, generation |-> g, queue |-> queue]
<1>3. g \in Nat \ {0} /\ \A v \in Workers : worker[v].batch = b => worker[v].generation # g
  BY FreshFacts
<1>4. b \in DOMAIN batches /\ batches[b] \in BatchRows /\ b \in Nat
  BY <1>1, MonitoringRows DEF Processing
<1>5. batches' = [batches EXCEPT ![b] = rec] /\ worker' = [worker EXCEPT ![w] = owner]
  BY <1>2
<1> HIDE DEF g
<1>6. /\ rec \in BatchRows /\ rec.root = batches[b].root /\ rec.status = batches[b].status
      /\ rec.scan = batches[b].scan /\ rec.generation = g
  BY <1>3, <1>4 DEF BatchRows
<1>7. step \in {"create", "settle"} /\ (step = "create" <=> batches[b].scan = None)
  OBVIOUS
<1> HIDE DEF step
<1>8. /\ owner \in Busy /\ owner.step = step /\ owner.batch = b /\ owner.generation = g
  BY <1>3, <1>4, <1>7 DEF Busy
<1> HIDE DEF rec, owner
<1>9. /\ batches' \in Seq(BatchRows) /\ DOMAIN batches' = DOMAIN batches /\ batches'[b].generation = g
      /\ \A d \in DOMAIN batches : /\ batches'[d].root = batches[d].root
                                   /\ batches'[d].status = batches[d].status
                                   /\ batches'[d].scan = batches[d].scan
                                   /\ d # b => batches'[d].generation = batches[d].generation
  BY <1>1, <1>4, <1>5, <1>6, MonitoringRows DEF RowsTyped
<1>10. /\ worker' \in [Workers -> Busy \cup {Idle}] /\ worker'[w] = owner
       /\ \A v \in Workers : v # w => worker'[v] = worker[v]
  BY <1>1, <1>5, <1>8 DEF RowsTyped
<1>11. RowsTyped'
  BY <1>1, <1>2, <1>9, <1>10 DEF RowsTyped
<1>12. References'
  <2>1. \A v \in Workers : worker'[v] # Idle => worker'[v].batch \in DOMAIN batches'
    BY <1>1, <1>4, <1>8, <1>9, <1>10 DEF References
  <2> QED
    BY <1>1, <1>2, <1>9, <2>1 DEF References
<1>13. OneProcessing'
  BY <1>1, <1>2, <1>9 DEF OneProcessing
<1>14. ScansOwned'
  BY <1>1, <1>2, <1>9 DEF ScansOwned, References
<1>15. WorkersHold'
  <2>1. ASSUME NEW v \in Workers, v # w, Creates(v)'
        PROVE  Creates(v) /\ worker[v].batch # b /\ worker[v].batch \in DOMAIN batches
    <3>1. worker'[v] = worker[v] /\ worker[v].step = "create"
          /\ worker[v].generation = batches'[worker[v].batch].generation
      BY <1>10, <2>1 DEF Creates
    <3>2. worker[v].batch \in DOMAIN batches
      BY <1>1, <3>1 DEF References, Idle
    <3> QED
      BY <1>3, <1>9, <3>1, <3>2 DEF Creates
  <2>2. \A v \in Workers : Creates(v)' => batches'[worker'[v].batch].scan = None
    BY <1>1, <1>4, <1>7, <1>8, <1>9, <1>10, <2>1 DEF WorkersHold, Creates
  <2>3. \A u, v \in Workers : Creates(u)' /\ Creates(v)' /\ worker'[u].batch = worker'[v].batch => u = v
    BY <1>1, <1>8, <1>10, <2>1 DEF WorkersHold
  <2>4. \A v \in Workers : worker'[v].step \in {"settle", "finalize"} => batches'[worker'[v].batch].scan # None
    <3>1. \A v \in Workers : v # w /\ worker[v].step \in {"settle", "finalize"} => worker[v].batch \in DOMAIN batches
      BY <1>1 DEF References, Idle
    <3> QED
      BY <1>1, <1>4, <1>7, <1>8, <1>9, <1>10, <3>1 DEF WorkersHold
  <2>5. \A v \in Workers : worker'[v].step = "finalize" =>
          v # w /\ worker'[v] = worker[v] /\ worker[v].batch \in DOMAIN batches
    BY <1>1, <1>7, <1>8, <1>10 DEF References, Idle
  <2>6. \A v \in Workers : worker'[v].step = "finalize" =>
          /\ Ended(batches[worker[v].batch].scan)'
          /\ \A c \in Changes : events'[c].status = "PROCESSING" => events'[c].batch # worker'[v].batch
    BY <1>1, <1>2, <1>9, <2>5 DEF WorkersHold, Ended
  <2> QED
    BY <2>2, <2>3, <2>4, <2>6 DEF WorkersHold, Creates
<1>16. SeenSince'
  <2>1. \A c \in Changes : events[c].status = "PROCESSING" =>
          batches'[events[c].batch].scan = batches[events[c].batch].scan
    BY <1>1, <1>9 DEF OneProcessing
  <2> QED
    BY <1>1, <1>2, <2>1 DEF SeenSince, ScanSound
<1>17. EventsReconciled'
  BY <1>1, <1>2 DEF EventsReconciled, Reconciles, CutShort
<1>18. HintsTrue' /\ HintsKept' /\ NativeTyped'
  BY <1>1, <1>2, HintsRest DEF HintsTrue
<1> QED
  BY <1>1, <1>2, <1>11, <1>12, <1>13, <1>14, <1>15, <1>16, <1>17, <1>18, FolderKeeps DEF MonitoringInv

(* Closing the batches of a root leaves none of its events in process. *)
LEMMA RequeuedFacts ==
    ASSUME RowsTyped, References, OneProcessing, NEW r \in Roots
    PROVE  \A c \in Changes :
               LET q == Requeued(Processing(r))[c]
               IN  /\ q \in EventRows
                   /\ q.status = "NONE" <=> events[c].status = "NONE"
                   /\ q.status = "COMPLETED" <=> events[c].status = "COMPLETED"
                   /\ q.status = "PROCESSING" => q = events[c] /\ c[1] # r
                   /\ q.batch # None => q.batch \in DOMAIN batches
<1> SUFFICES ASSUME NEW c \in Changes
             PROVE  LET q == Requeued(Processing(r))[c]
                    IN  /\ q \in EventRows
                        /\ q.status = "NONE" <=> events[c].status = "NONE"
                        /\ q.status = "COMPLETED" <=> events[c].status = "COMPLETED"
                        /\ q.status = "PROCESSING" => q = events[c] /\ c[1] # r
                        /\ q.batch # None => q.batch \in DOMAIN batches
  OBVIOUS
<1>1. events[c] \in EventRows
  BY MonitoringRows
<1>2. CASE events[c].batch \in Processing(r) /\ events[c].status = "PROCESSING"
  <2>1. Requeued(Processing(r))[c] = [status |-> "QUEUED", batch |-> None]
    BY <1>2 DEF Requeued
  <2> QED
    BY <1>2, <2>1 DEF EventRows
<1>3. CASE ~(events[c].batch \in Processing(r) /\ events[c].status = "PROCESSING")
  <2>1. Requeued(Processing(r))[c] = events[c]
    BY <1>3 DEF Requeued
  <2>2. events[c].status = "PROCESSING" => c[1] # r
    BY <1>3 DEF OneProcessing, Processing
  <2> QED
    BY <1>1, <2>1, <2>2 DEF References
<1> QED
  BY <1>2, <1>3

(* It fails the scans that would be nobody's, and no other. *)
LEMMA AbandonedFacts ==
    ASSUME RowsTyped, ScansOwned, NEW r \in Roots
    PROVE  /\ Abandoned(Processing(r)) \in Seq(ScanRows)
           /\ DOMAIN Abandoned(Processing(r)) = DOMAIN scans
           /\ \A s \in DOMAIN scans :
                  LET a == Abandoned(Processing(r))[s]
                  IN  /\ a.root = scans[s].root /\ a.batch = scans[s].batch
                      /\ a.seen = scans[s].seen /\ a.hints = scans[s].hints
                      /\ a.rows = scans[s].rows /\ a.done = scans[s].done /\ a.reopened = scans[s].reopened
                      /\ \/ a.status = scans[s].status
                         \/ scans[s].status \in ActiveStatuses /\ a.status = "FAILED"
                      /\ a.status \in ActiveStatuses /\ a.batch # None /\ ~a.reopened => a.batch \notin Processing(r)
<1>1. \A s \in DOMAIN scans : scans[s] \in ScanRows
  BY MonitoringRows
<1>2. ASSUME NEW s \in DOMAIN scans
      PROVE  LET a == Abandoned(Processing(r))[s]
             IN  /\ a \in ScanRows
                 /\ a.root = scans[s].root /\ a.batch = scans[s].batch
                 /\ a.seen = scans[s].seen /\ a.hints = scans[s].hints
                 /\ a.rows = scans[s].rows /\ a.done = scans[s].done /\ a.reopened = scans[s].reopened
                 /\ \/ a.status = scans[s].status
                    \/ scans[s].status \in ActiveStatuses /\ a.status = "FAILED"
                 /\ a.status \in ActiveStatuses /\ a.batch # None /\ ~a.reopened => a.batch \notin Processing(r)
  <2>1. CASE (\E b \in Processing(r) : batches[b].scan = s) /\ scans[s].status \in ActiveStatuses
    <3>1. Abandoned(Processing(r))[s] = [scans[s] EXCEPT !.status = "FAILED"]
      BY <2>1 DEF Abandoned
    <3> QED
      BY <1>1, <2>1, <3>1 DEF ScanRows, ActiveStatuses
  <2>2. CASE ~((\E b \in Processing(r) : batches[b].scan = s) /\ scans[s].status \in ActiveStatuses)
    <3>1. Abandoned(Processing(r))[s] = scans[s]
      BY <2>2 DEF Abandoned
    <3> QED
      BY <1>1, <2>2, <3>1 DEF ScansOwned
  <2> QED
    BY <2>1, <2>2
<1>3. Abandoned(Processing(r)) = [s \in 1..Len(scans) |-> Abandoned(Processing(r))[s]]
  BY MonitoringRows DEF Abandoned
<1>4. Abandoned(Processing(r)) \in Seq(ScanRows)
  <2>1. DOMAIN scans = 1..Len(scans) /\ Len(scans) \in Nat
    BY MonitoringRows
  <2>2. Abandoned(Processing(r)) \in [1..Len(scans) -> ScanRows]
    BY <1>2, <1>3, <2>1
  <2> QED
    BY <2>1, <2>2
<1>5. DOMAIN Abandoned(Processing(r)) = DOMAIN scans
  BY DEF Abandoned
<1> QED
  BY <1>2, <1>4, <1>5

(* It closes the processing batches of the root, and no other. *)
LEMMA ClosedFacts ==
    ASSUME RowsTyped, NEW r \in Roots
    PROVE  /\ Closed(Processing(r)) \in Seq(BatchRows)
           /\ DOMAIN Closed(Processing(r)) = DOMAIN batches
           /\ \A b \in DOMAIN batches :
                  LET d == Closed(Processing(r))[b]
                  IN  /\ d.root = batches[b].root /\ d.scan = batches[b].scan
                      /\ d.generation = batches[b].generation
                      /\ d.status = "PROCESSING" <=> (batches[b].status = "PROCESSING" /\ batches[b].root # r)
<1>1. \A b \in DOMAIN batches : batches[b] \in BatchRows
  BY MonitoringRows
<1>2. ASSUME NEW b \in DOMAIN batches
      PROVE  LET d == Closed(Processing(r))[b]
             IN  /\ d \in BatchRows /\ d.root = batches[b].root /\ d.scan = batches[b].scan
                 /\ d.generation = batches[b].generation
                 /\ d.status = "PROCESSING" <=> (batches[b].status = "PROCESSING" /\ batches[b].root # r)
  <2>1. CASE b \in Processing(r)
    <3>1. Closed(Processing(r))[b] = [batches[b] EXCEPT !.status = "COMPLETED_WITH_ERRORS", !.live = FALSE]
      BY <2>1 DEF Closed
    <3>2. batches[b].root = r
      BY <2>1 DEF Processing
    <3> QED
      BY <1>1, <3>1, <3>2 DEF BatchRows
  <2>2. CASE b \notin Processing(r)
    <3>1. Closed(Processing(r))[b] = batches[b]
      BY <2>2 DEF Closed
    <3> QED
      BY <1>1, <2>2, <3>1 DEF Processing
  <2> QED
    BY <2>1, <2>2
<1>3. DOMAIN Closed(Processing(r)) = DOMAIN batches
  BY DEF Closed
<1>4. Closed(Processing(r)) \in Seq(BatchRows)
  <2>1. DOMAIN batches = 1..Len(batches) /\ Len(batches) \in Nat
    BY MonitoringRows
  <2>2. Closed(Processing(r)) \in [1..Len(batches) -> BatchRows]
    BY <1>2, <2>1 DEF Closed
  <2> QED
    BY <2>1, <2>2
<1> QED
  BY <1>2, <1>3, <1>4

(* What a claim does to the rows: the old batches of the root close, and the
   taken events go to the batch n, when it is made. *)
ClaimMoved(w, r, n, taken, owner) ==
    /\ batches' \in Seq(BatchRows) /\ DOMAIN batches \subseteq DOMAIN batches'
    /\ \A b \in DOMAIN batches : batches'[b] = Closed(Processing(r))[b]
    /\ \A b \in DOMAIN batches' : b \notin DOMAIN batches =>
          b = n /\ batches'[b].root = r /\ batches'[b].status = "PROCESSING" /\ batches'[b].scan = None
    /\ taken # {} => n \in DOMAIN batches'
    /\ \A c \in taken : c[1] = r /\ Requeued(Processing(r))[c].status \notin {"NONE", "COMPLETED"}
    /\ scans' = Abandoned(Processing(r))
    /\ \A c \in taken : events'[c] = [status |-> "PROCESSING", batch |-> n]
    /\ \A c \in Changes : c \notin taken => events'[c] = Requeued(Processing(r))[c]
    /\ DOMAIN events' = Changes /\ events' = [c \in Changes |-> events'[c]]
    /\ \/ worker' = worker
       \/ /\ n \in DOMAIN batches' /\ owner \in Busy /\ owner.step = "create" /\ owner.batch = n
          /\ worker' = [worker EXCEPT ![w] = owner]
    /\ UNCHANGED <<nativeVars, folder, spent>>

(* Such a step keeps the invariant: the new batch has all that its root still
   processes, and no scan yet. *)
LEMMA ClaimMoves ==
    ASSUME MonitoringInv, NEW w \in Workers, NEW r \in Roots, NEW n \in Nat, n \notin DOMAIN batches,
           NEW taken \in SUBSET Changes, NEW owner, ClaimMoved(w, r, n, taken, owner)
    PROVE  MonitoringInv'
<1> DEFINE q == Requeued(Processing(r))
           old == Processing(r)
<1>1. /\ NativeTyped /\ FolderTyped /\ RowsTyped /\ References /\ HintsTrue /\ OneProcessing
      /\ ScansOwned /\ WorkersHold /\ SeenSince /\ EventsReconciled /\ HintsKept
  BY DEF MonitoringInv
<1>2. \A c \in Changes : /\ q[c] \in EventRows
                         /\ q[c].status = "NONE" <=> events[c].status = "NONE"
                         /\ q[c].status = "COMPLETED" <=> events[c].status = "COMPLETED"
                         /\ q[c].status = "PROCESSING" => q[c] = events[c] /\ c[1] # r
                         /\ q[c].batch # None => q[c].batch \in DOMAIN batches
  BY <1>1, RequeuedFacts
<1>3. /\ scans' \in Seq(ScanRows) /\ DOMAIN scans' = DOMAIN scans
      /\ \A s \in DOMAIN scans :
            /\ scans'[s].root = scans[s].root /\ scans'[s].batch = scans[s].batch
            /\ scans'[s].seen = scans[s].seen /\ scans'[s].hints = scans[s].hints
            /\ scans'[s].rows = scans[s].rows /\ scans'[s].done = scans[s].done
            /\ scans'[s].reopened = scans[s].reopened
            /\ \/ scans'[s].status = scans[s].status
               \/ scans[s].status \in ActiveStatuses /\ scans'[s].status = "FAILED"
            /\ scans'[s].status \in ActiveStatuses /\ scans[s].batch # None /\ ~scans[s].reopened =>
                  scans[s].batch \notin old
  BY <1>1, AbandonedFacts DEF ClaimMoved
<1>4. \A b \in DOMAIN batches :
          /\ batches'[b].root = batches[b].root /\ batches'[b].scan = batches[b].scan
          /\ batches'[b].generation = batches[b].generation
          /\ batches'[b].status = "PROCESSING" <=> (batches[b].status = "PROCESSING" /\ batches[b].root # r)
  BY <1>1, ClosedFacts DEF ClaimMoved
<1>5. /\ DOMAIN batches \subseteq DOMAIN batches'
      /\ \A b \in DOMAIN batches' : b \in DOMAIN batches \/
          (/\ b = n /\ batches'[b].root = r /\ batches'[b].status = "PROCESSING" /\ batches'[b].scan = None)
  BY DEF ClaimMoved
<1>6. ASSUME NEW c \in Changes
      PROVE  \/ c \in taken /\ events'[c] = [status |-> "PROCESSING", batch |-> n]
             \/ c \notin taken /\ events'[c] = q[c]
  BY DEF ClaimMoved
<1>7. \A c \in Changes : events'[c].status = "PROCESSING" =>
          \/ c[1] = r /\ events'[c].batch = n /\ n \in DOMAIN batches'
          \/ c[1] # r /\ events'[c] = events[c] /\ events[c].status = "PROCESSING"
  BY <1>2, <1>6 DEF ClaimMoved
<1>8. None \notin DOMAIN batches /\ Idle.step = "idle"
  BY <1>1, MonitoringRows, MonitoringAssumption DEF Idle
<1>9. /\ worker' \in [Workers -> Busy \cup {Idle}]
      /\ \A v \in Workers : \/ worker'[v] = worker[v]
                            \/ /\ v = w /\ worker'[v].step = "create" /\ worker'[v].batch = n
                               /\ n \in DOMAIN batches'
  <2>1. worker \in [Workers -> Busy \cup {Idle}]
    BY <1>1 DEF RowsTyped
  <2>2. CASE worker' = worker
    BY <2>1, <2>2
  <2>3. CASE /\ n \in DOMAIN batches' /\ owner \in Busy /\ owner.step = "create" /\ owner.batch = n
             /\ worker' = [worker EXCEPT ![w] = owner]
    BY <2>1, <2>3
  <2> QED
    BY <2>2, <2>3 DEF ClaimMoved
<1> HIDE DEF q, old
<1>10. RowsTyped'
  <2>1. [status |-> "PROCESSING", batch |-> n] \in EventRows
    BY DEF EventRows
  <2>2. \A c \in Changes : events'[c] \in EventRows
    BY <1>2, <1>6, <2>1
  <2>3. events' \in [Changes -> EventRows]
    BY <2>2 DEF ClaimMoved
  <2> QED
    BY <1>3, <1>9, <2>3 DEF RowsTyped, ClaimMoved
<1>11. References'
  <2>1. \A b \in DOMAIN batches' : batches'[b].scan # None =>
          batches'[b].scan \in DOMAIN scans' /\ scans'[batches'[b].scan].root = batches'[b].root
    BY <1>1, <1>3, <1>4, <1>5 DEF References
  <2>2. \A s \in DOMAIN scans' : scans'[s].batch # None => scans'[s].batch \in DOMAIN batches'
    BY <1>1, <1>3, <1>5 DEF References
  <2>3. \A c \in Changes : events'[c].batch # None => events'[c].batch \in DOMAIN batches'
    BY <1>2, <1>5, <1>6 DEF ClaimMoved
  <2>4. \A v \in Workers : worker'[v] # Idle => worker'[v].batch \in DOMAIN batches'
    BY <1>1, <1>5, <1>9 DEF References
  <2> QED
    BY <2>1, <2>2, <2>3, <2>4 DEF References
<1>12. OneProcessing'
  <2>1. \A b, d \in DOMAIN batches' :
          batches'[b].status = "PROCESSING" /\ batches'[d].status = "PROCESSING"
              /\ batches'[b].root = batches'[d].root => b = d
    BY <1>1, <1>4, <1>5 DEF OneProcessing
  <2>2. \A c \in Changes : events'[c].status = "PROCESSING" =>
          /\ events'[c].batch \in DOMAIN batches' /\ batches'[events'[c].batch].status = "PROCESSING"
          /\ batches'[events'[c].batch].root = c[1]
    BY <1>1, <1>4, <1>5, <1>7 DEF OneProcessing
  <2> QED
    BY <2>1, <2>2 DEF OneProcessing
<1>13. ScansOwned'
  <2> SUFFICES ASSUME NEW s \in DOMAIN scans, scans'[s].status \in ActiveStatuses, scans[s].batch # None,
                      ~scans[s].reopened
               PROVE  batches'[scans[s].batch].status = "PROCESSING" /\ batches'[scans[s].batch].scan = s
    BY <1>3 DEF ScansOwned
  <2>1. scans[s].status \in ActiveStatuses /\ scans[s].batch \notin old
    BY <1>3
  <2>2. /\ scans[s].batch \in DOMAIN batches
        /\ batches[scans[s].batch].status = "PROCESSING" /\ batches[scans[s].batch].scan = s
    BY <1>1, <2>1 DEF ScansOwned, References
  <2>3. batches[scans[s].batch].root # r
    BY <2>1, <2>2 DEF old, Processing
  <2> QED
    BY <1>4, <2>2, <2>3
<1>14. WorkersHold'
  <2>1. ASSUME NEW v \in Workers, Creates(v)'
        PROVE  \/ v = w /\ worker'[v].batch = n /\ n \in DOMAIN batches'
               \/ worker'[v] = worker[v] /\ Creates(v) /\ worker[v].batch \in DOMAIN batches
    <3>1. CASE worker'[v] = worker[v]
      <4>1. worker[v].step = "create" /\ worker[v].batch \in DOMAIN batches
        BY <1>1, <1>8, <2>1, <3>1 DEF Creates, References
      <4> QED
        BY <1>4, <2>1, <3>1, <4>1 DEF Creates
    <3> QED
      BY <1>9, <3>1
  <2>2. \A v \in Workers : Creates(v)' => batches'[worker'[v].batch].scan = None
    <3>1. n \in DOMAIN batches' => batches'[n].scan = None
      BY <1>5
    <3>2. \A v \in Workers : worker'[v] # worker[v] => n \in DOMAIN batches' /\ worker'[v].batch = n
      BY <1>9
    <3> QED
      BY <1>1, <1>4, <2>1, <3>1, <3>2 DEF WorkersHold
  <2>3. \A u, v \in Workers : Creates(u)' /\ Creates(v)' /\ worker'[u].batch = worker'[v].batch => u = v
    BY <1>1, <2>1 DEF WorkersHold
  <2>4. \A v \in Workers : worker'[v].step \in {"settle", "finalize"} =>
          worker'[v] = worker[v] /\ worker[v].batch \in DOMAIN batches
    BY <1>1, <1>8, <1>9 DEF References
  <2>5. \A v \in Workers : worker'[v].step \in {"settle", "finalize"} => batches'[worker'[v].batch].scan # None
    BY <1>1, <1>4, <2>4 DEF WorkersHold
  <2>6. ASSUME NEW v \in Workers, worker'[v].step = "finalize"
        PROVE  /\ Ended(batches[worker[v].batch].scan)'
               /\ \A c \in Changes : events'[c].status = "PROCESSING" => events'[c].batch # worker'[v].batch
    <3>1. worker'[v] = worker[v] /\ worker[v].batch \in DOMAIN batches
      BY <2>4, <2>6
    <3>2. /\ batches[worker[v].batch].scan \in DOMAIN scans
          /\ Ended(batches[worker[v].batch].scan)
      BY <1>1, <2>6, <3>1 DEF WorkersHold, References
    <3>3. Ended(batches[worker[v].batch].scan)'
      BY <1>3, <1>4, <3>1, <3>2 DEF Ended, ActiveStatuses
    <3> QED
      BY <1>1, <1>7, <2>6, <3>1, <3>3 DEF WorkersHold
  <2> QED
    BY <2>2, <2>3, <2>5, <2>6 DEF WorkersHold, Creates
<1>15. SeenSince'
  <2>1. \A s \in DOMAIN scans' : ScanSound(s)'
    BY <1>1, <1>3 DEF SeenSince, ScanSound
  <2>2. ASSUME NEW c \in Changes, events'[c].status = "PROCESSING",
               batches'[events'[c].batch].scan # None, scans'[batches'[events'[c].batch].scan].seen # None
        PROVE  c[2] <= scans'[batches'[events'[c].batch].scan].seen
    <3>1. events'[c] = events[c] /\ events[c].status = "PROCESSING"
      BY <1>5, <1>7, <2>2
    <3>2. events[c].batch \in DOMAIN batches
      BY <1>1, <3>1 DEF OneProcessing
    <3>3. batches'[events[c].batch].scan = batches[events[c].batch].scan
      BY <1>4, <3>2
    <3>4. batches[events[c].batch].scan \in DOMAIN scans
      BY <1>1, <2>2, <3>1, <3>2, <3>3 DEF References
    <3> QED
      BY <1>1, <1>3, <2>2, <3>1, <3>3, <3>4 DEF SeenSince
  <2> QED
    BY <2>1, <2>2 DEF SeenSince
<1>16. EventsReconciled'
  <2> SUFFICES ASSUME NEW c \in Changes, events'[c].status = "COMPLETED"
               PROVE  \E s \in DOMAIN scans' : Reconciles(s, c)' \/ CutShort(s, c)'
    BY DEF EventsReconciled
  <2>1. events[c].status = "COMPLETED"
    BY <1>2, <1>6
  <2>2. PICK s \in DOMAIN scans : Reconciles(s, c) \/ CutShort(s, c)
    BY <1>1, <2>1 DEF EventsReconciled
  <2>3. Reconciles(s, c)' \/ CutShort(s, c)'
    BY <1>3, <2>2 DEF Reconciles, CutShort
  <2>4. s \in DOMAIN scans'
    BY <1>3
  <2> QED
    BY <2>3, <2>4
<1>17. HintsTrue' /\ HintsKept' /\ NativeTyped'
  <2>1. \A c \in Changes : events'[c].status = "NONE" <=> events[c].status = "NONE"
    BY <1>2, <1>6 DEF q, ClaimMoved
  <2>2. \A s \in DOMAIN scans' : \A c \in scans'[s].hints : c[2] <= disk[c[1]]
    BY <1>1, <1>3 DEF HintsTrue
  <2> QED
    BY <1>1, <2>1, <2>2, HintsRest DEF ClaimMoved
<1> QED
  BY <1>1, <1>10, <1>11, <1>12, <1>13, <1>14, <1>15, <1>16, <1>17, FolderKeeps DEF MonitoringInv, ClaimMoved

(* A claim is such a step, whether or not it makes a new batch. *)
LEMMA ClaimKeeps ==
    ASSUME MonitoringInv, NEW w \in Workers, NEW r \in Roots, NEW queue \in BOOLEAN, NEW retry \in BOOLEAN,
           Claim(w, r, queue, retry), UNCHANGED <<nativeVars, spent>>
    PROVE  MonitoringInv'
<1> DEFINE old == Processing(r)
           es == Requeued(old)
           taken == Window(r, es, IF retry THEN {"QUEUED", "NEEDS_ATTENTION"} ELSE {"QUEUED"})
           n == Len(batches) + 1
           rec == [root |-> r, status |-> "PROCESSING", generation |-> 1, live |-> TRUE,
                   revision |-> folder[r].revision, scan |-> None]
           owner == [step |-> "create", batch |-> n, generation |-> 1, queue |-> queue]
<1>1. RowsTyped /\ FolderTyped
  BY DEF MonitoringInv
<1>2. /\ scans' = Abandoned(old) /\ UNCHANGED folder
      /\ \/ /\ batches' = Append(Closed(old), rec)
            /\ events' = [c \in Changes |-> IF c \in taken THEN [status |-> "PROCESSING", batch |-> n]
                                            ELSE es[c]]
            /\ worker' = [worker EXCEPT ![w] = owner]
         \/ batches' = Closed(old) /\ events' = es /\ UNCHANGED worker
  BY DEF Claim
<1>3. /\ taken \in SUBSET Changes
      /\ \A c \in taken : c[1] = r /\ es[c].status \notin {"NONE", "COMPLETED"}
  BY DEF Window
<1>4. /\ Closed(old) \in Seq(BatchRows) /\ DOMAIN Closed(old) = DOMAIN batches
      /\ Len(batches) \in Nat /\ DOMAIN batches = 1..Len(batches)
  BY <1>1, ClosedFacts, MonitoringRows
<1>5. n \in Nat /\ n \notin DOMAIN batches /\ Len(Closed(old)) = Len(batches)
  BY <1>4
<1>6. rec \in BatchRows /\ rec.root = r /\ rec.status = "PROCESSING" /\ rec.scan = None
  BY <1>1, MonitoringAssumption DEF BatchRows, FolderTyped
<1>7. owner \in Busy /\ owner.step = "create" /\ owner.batch = n
  BY <1>5 DEF Busy
<1>8. es = [c \in Changes |-> es[c]]
  BY DEF Requeued
<1> HIDE DEF rec, owner, taken, es
<1>9. CASE /\ batches' = Append(Closed(old), rec)
           /\ events' = [c \in Changes |-> IF c \in taken THEN [status |-> "PROCESSING", batch |-> n]
                                           ELSE es[c]]
           /\ worker' = [worker EXCEPT ![w] = owner]
  <2>1. /\ batches' \in Seq(BatchRows) /\ DOMAIN batches' = DOMAIN batches \cup {n}
        /\ batches'[n] = rec /\ \A b \in DOMAIN batches : batches'[b] = Closed(old)[b]
    BY <1>4, <1>5, <1>6, <1>9
  <2> HIDE DEF n
  <2>2. \A b \in DOMAIN batches' : b \notin DOMAIN batches =>
          b = n /\ batches'[b].root = r /\ batches'[b].status = "PROCESSING" /\ batches'[b].scan = None
    BY <1>6, <2>1
  <2>3. /\ n \in DOMAIN batches' /\ owner \in Busy /\ owner.step = "create" /\ owner.batch = n
        /\ worker' = [worker EXCEPT ![w] = owner]
    BY <1>7, <1>9, <2>1
  <2>4. /\ \A c \in taken : c[1] = r /\ Requeued(Processing(r))[c].status \notin {"NONE", "COMPLETED"}
        /\ events' = [c \in Changes |-> IF c \in taken THEN [status |-> "PROCESSING", batch |-> n]
                                        ELSE Requeued(Processing(r))[c]]
    BY <1>3, <1>9 DEF es
  <2>5. scans' = Abandoned(Processing(r)) /\ \A b \in DOMAIN batches : batches'[b] = Closed(Processing(r))[b]
    BY <1>2, <2>1
  <2>6. DOMAIN batches \subseteq DOMAIN batches' /\ UNCHANGED <<nativeVars, folder, spent>>
    BY <1>2, <2>1
  <2> HIDE DEF old
  <2>7. ClaimMoved(w, r, n, taken, owner)
    BY <1>3, <2>1, <2>2, <2>3, <2>4, <2>5, <2>6 DEF ClaimMoved
  <2> QED
    BY <1>3, <1>5, <2>7, ClaimMoves
<1>10. CASE batches' = Closed(old) /\ events' = es /\ UNCHANGED worker
  <2> HIDE DEF n
  <2>1. events' = [c \in Changes |-> IF c \in {} THEN [status |-> "PROCESSING", batch |-> n]
                                     ELSE Requeued(Processing(r))[c]]
    BY <1>8, <1>10 DEF es
  <2>2. /\ batches' \in Seq(BatchRows) /\ DOMAIN batches' = DOMAIN batches
        /\ \A b \in DOMAIN batches : batches'[b] = Closed(Processing(r))[b]
    BY <1>4, <1>10
  <2>3. scans' = Abandoned(Processing(r)) /\ worker' = worker /\ UNCHANGED folder
    BY <1>2, <1>10
  <2>4. /\ DOMAIN batches \subseteq DOMAIN batches'
        /\ \A b \in DOMAIN batches' : b \in DOMAIN batches
    BY <2>2
  <2>5. {} \in SUBSET Changes /\ UNCHANGED <<nativeVars, folder, spent>>
    BY <2>3
  <2> HIDE DEF old
  <2>6. ClaimMoved(w, r, n, {}, owner)
    BY <2>1, <2>2, <2>3, <2>4, <2>5 DEF ClaimMoved
  <2> QED
    BY <1>5, <2>5, <2>6, ClaimMoves
<1> QED
  BY <1>2, <1>9, <1>10

(* A poll recovers an abandoned batch, or settles a live one. *)
LEMMA RecoverKeeps == ASSUME MonitoringInv, NEW w \in Workers, NEW r \in Roots, Recover(w, r) PROVE MonitoringInv'
<1>1. /\ worker[w] = Idle /\ UNCHANGED <<nativeVars, spent>>
      /\ \E b \in Processing(r) :
            \/ Reclaim(w, r, FALSE) \/ Claim(w, r, FALSE, FALSE)
            \/ /\ batches[b].scan # None
               /\ worker' = [worker EXCEPT ![w] = [step |-> "settle", batch |-> b, queue |-> FALSE,
                                                   generation |-> batches[b].generation]]
               /\ UNCHANGED <<folder, events, batches, scans>>
  BY DEF Recover
<1>2. PICK b \in Processing(r) :
            \/ Reclaim(w, r, FALSE) \/ Claim(w, r, FALSE, FALSE)
            \/ /\ batches[b].scan # None
               /\ worker' = [worker EXCEPT ![w] = [step |-> "settle", batch |-> b, queue |-> FALSE,
                                                   generation |-> batches[b].generation]]
               /\ UNCHANGED <<folder, events, batches, scans>>
  BY <1>1
<1>3. CASE Reclaim(w, r, FALSE)
  BY <1>1, <1>3, ReclaimKeeps
<1>4. CASE Claim(w, r, FALSE, FALSE)
  BY <1>1, <1>4, ClaimKeeps
<1>5. CASE /\ batches[b].scan # None
           /\ worker' = [worker EXCEPT ![w] = [step |-> "settle", batch |-> b, queue |-> FALSE,
                                               generation |-> batches[b].generation]]
           /\ UNCHANGED <<folder, events, batches, scans>>
  <2> DEFINE owner == [step |-> "settle", batch |-> b, queue |-> FALSE, generation |-> batches[b].generation]
  <2>1. RowsTyped
    BY DEF MonitoringInv
  <2>2. b \in DOMAIN batches /\ b \in Nat /\ batches[b].generation \in Nat
    BY <2>1, MonitoringRows DEF Processing, BatchRows
  <2>3. owner \in Busy /\ owner.step = "settle" /\ owner.batch = b /\ worker' = [worker EXCEPT ![w] = owner]
    BY <1>5, <2>2 DEF Busy
  <2> HIDE DEF owner
  <2>4. worker' \in [Workers -> Busy \cup {Idle}] /\ \A v \in Workers : WorkerMoved(v)
    BY <1>5, <2>1, <2>2, <2>3 DEF RowsTyped, WorkerMoved
  <2>5. WorkMoved
    BY <1>5, <2>1, <2>4, SameBatch DEF WorkMoved
  <2> QED
    BY <1>1, <1>5, <2>5, WorkKeeps
<1> QED
  BY <1>2, <1>3, <1>4, <1>5

(* A person has the queue processed. *)
LEMMA ProcessKeeps ==
    ASSUME MonitoringInv, NEW w \in Workers, NEW r \in Roots, ProcessQueue(w, r)
    PROVE  MonitoringInv'
BY ReclaimKeeps, ClaimKeeps DEF ProcessQueue

(* Every step keeps the invariant. *)
LEMMA MonitoringStep == ASSUME MonitoringInv, [MonitoringNext]_monitoringVars PROVE MonitoringInv'
<1>1. CASE \E r \in Roots : Change(r) \/ SwitchWatcher(r) \/ SyncFolder(r) \/ Reconnect(r) \/ PersonScan(r)
  BY <1>1, ChangeKeeps, FolderSteps, ReconnectKeeps, PersonScanKeeps
<1>2. CASE Deliver \/ AcknowledgeEvents
  BY <1>2, DeliverKeeps, AcknowledgeKeeps
<1>3. CASE \E w \in Workers : WorkerNext(w)
  BY <1>3, ProcessKeeps, RecoverKeeps, CreateKeeps, SettleKeeps, FinalizeKeeps, StopKeeps DEF WorkerNext
<1>4. CASE \E b \in DOMAIN batches : LeaseExpires(b) \/ Stall(b)
  BY <1>4, LeaseKeeps
<1>5. CASE \E s \in DOMAIN scans : ScanNext(s)
  BY <1>5, DiscoverKeeps, IngestKeeps, ScanEndsKeeps DEF ScanNext
<1>6. CASE LoseReply
  BY <1>6, LoseReplyKeeps
<1>7. CASE UNCHANGED monitoringVars
  <2>1. RowsTyped
    BY DEF MonitoringInv
  <2>2. UNCHANGED <<nativeVars, folder, events, batches, scans, worker, spent>>
    BY <1>7 DEF monitoringVars, nativeVars
  <2>3. WorkMoved
    BY <2>1, <2>2, SameBatch, SameWorkers DEF WorkMoved
  <2> QED
    BY <2>2, <2>3, WorkKeeps
<1> QED
  BY <1>1, <1>2, <1>3, <1>4, <1>5, <1>6, <1>7 DEF MonitoringNext

(* It holds before the first change. *)
LEMMA MonitoringStart == ASSUME MonitoringInit PROVE MonitoringInv
<1> USE MonitoringAssumption DEF MonitoringInit
<1>1. NativeTyped
  <2>1. IsFiniteSet(outbox) /\ Cardinality(outbox) <= OutboxLimit
    BY FS_EmptySet
  <2> QED
    BY <2>1 DEF NativeTyped
<1>2. FolderTyped
  BY DEF FolderTyped
<1>3. RowsTyped
  <2>1. events \in [Changes -> EventRows]
    BY DEF EventRows
  <2> QED
    BY <2>1 DEF RowsTyped
<1>4. DOMAIN batches = {} /\ DOMAIN scans = {}
  OBVIOUS
<1>5. \A w \in Workers : worker[w] = Idle /\ worker[w].step = "idle"
  BY DEF Idle
<1>6. \A c \in Changes : events[c].status = "NONE" /\ events[c].batch = None
  OBVIOUS
<1>7. References /\ OneProcessing /\ ScansOwned
  BY <1>4, <1>5, <1>6 DEF References, OneProcessing, ScansOwned
<1>8. WorkersHold
  BY <1>5 DEF WorkersHold, Creates
<1>9. HintsTrue /\ HintsKept
  BY <1>4, <1>6 DEF HintsTrue, HintsKept, EventsIn
<1>10. SeenSince /\ EventsReconciled
  BY <1>4, <1>6 DEF SeenSince, EventsReconciled
<1> QED
  BY <1>1, <1>2, <1>3, <1>7, <1>8, <1>9, <1>10 DEF MonitoringInv

-----------------------------------------------------------------------------
(* Monitoring: the theorems. *)

(* The invariant holds in every reachable state: for any folders, workers and
   limits, and any number of changes, faults and switches. *)
THEOREM MonitoringInvariance == MonitoringSpec => []MonitoringInv
<1>1. MonitoringInit => MonitoringInv
  BY MonitoringStart
<1>2. MonitoringInv /\ [MonitoringNext]_monitoringVars => MonitoringInv'
  BY MonitoringStep
<1> QED
  BY <1>1, <1>2, PTL DEF MonitoringSpec

(* The outbox, its delivery, the rows and the workers stay well formed; in
   particular the outbox never outgrows its limit, and every row that is
   referred to exists. *)
THEOREM MonitoringTypeCorrect == MonitoringSpec => []MonitoringTypeOK
<1>1. ASSUME MonitoringInv PROVE MonitoringTypeOK
  <2>1. NativeTyped /\ FolderTyped /\ RowsTyped /\ References
    BY <1>1 DEF MonitoringInv
  <2>2. /\ Len(batches) \in Nat /\ DOMAIN batches = 1..Len(batches)
        /\ Len(scans) \in Nat /\ DOMAIN scans = 1..Len(scans)
        /\ \A b \in DOMAIN batches : batches[b] \in BatchRows
        /\ \A s \in DOMAIN scans : scans[s] \in ScanRows
        /\ \A c \in Changes : events[c] \in EventRows
        /\ \A w \in Workers : worker[w] \in Busy \cup {Idle}
    BY <2>1, MonitoringRows
  <2>3. events \in [Changes -> [status : {"NONE", "QUEUED", "PROCESSING", "NEEDS_ATTENTION", "COMPLETED"},
                                batch : 1..Len(batches) \cup {None}]]
    <3>1. \A c \in Changes : events[c] \in
              [status : {"NONE", "QUEUED", "PROCESSING", "NEEDS_ATTENTION", "COMPLETED"},
               batch : 1..Len(batches) \cup {None}]
      BY <2>1, <2>2 DEF EventRows, References
    <3> QED
      BY <2>1, <3>1 DEF RowsTyped
  <2>4. \A b \in DOMAIN batches :
          batches[b] \in [root : Roots, status : {"PROCESSING", "READY_FOR_REVIEW", "COMPLETED_WITH_ERRORS"},
                          generation : Nat \ {0}, live : BOOLEAN, revision : Nat,
                          scan : 1..Len(scans) \cup {None}]
    BY <2>1, <2>2 DEF BatchRows, References
  <2>5. \A s \in DOMAIN scans :
          scans[s] \in [root : Roots, status : ActiveStatuses \cup {"COMPLETED", "FAILED"},
                        batch : 1..Len(batches) \cup {None}, revision : Nat, seen : 0..MaxChanges \cup {None},
                        hints : SUBSET Changes, unread : SUBSET (1..MaxChanges),
                        rows : {"none", "part", "whole"}, done : BOOLEAN, reopened : BOOLEAN]
    BY <2>1, <2>2 DEF ScanRows, References
  <2>6. \A w \in Workers : worker[w] = Idle \/
          worker[w] \in [step : {"create", "settle", "finalize"}, batch : DOMAIN batches,
                         generation : Nat, queue : BOOLEAN]
    BY <2>1, <2>2 DEF Busy, References
  <2> QED
    BY <2>1, <2>3, <2>4, <2>5, <2>6 DEF MonitoringTypeOK, NativeTyped, FolderTyped
<1> QED
  BY <1>1, MonitoringInvariance, PTL

(* finishMonitoringSnapshot: an event is completed only by a scan of its root
   that was processed to its end, and whose whole inventory was discovered after
   the change unless a person reopened the scan in the middle of its import. *)
THEOREM EventsAreReconciled == MonitoringSpec => []EventsReconciled
<1>1. MonitoringInv => EventsReconciled
  BY DEF MonitoringInv
<1> QED
  BY <1>1, MonitoringInvariance, PTL

(* claimMonitoringRoot and the ownership check: an event in process, and an
   active scan of a batch that no person reopened, always belong to the one
   batch that processes their root, whatever reconnections, expired leases and
   late workers do. *)
THEOREM WorkIsOwned == MonitoringSpec => []WorkOwned
<1>1. ASSUME MonitoringInv PROVE WorkOwned
  <2>1. OneProcessing /\ ScansOwned
    BY <1>1 DEF MonitoringInv
  <2>2. ASSUME NEW r \in Roots PROVE Cardinality(Processing(r)) <= 1
    <3>1. CASE Processing(r) = {}
      BY <3>1, FS_EmptySet
    <3>2. CASE Processing(r) # {}
      <4>1. PICK b \in Processing(r) : TRUE
        BY <3>2
      <4>2. Processing(r) = {b}
        BY <2>1, <4>1 DEF Processing, OneProcessing
      <4>3. Cardinality({b}) = 1
        BY FS_Singleton
      <4> QED
        BY <4>2, <4>3
    <3> QED
      BY <3>1, <3>2
  <2>3. \A c \in Changes : events[c].status = "PROCESSING" => events[c].batch \in Processing(c[1])
    BY <2>1 DEF OneProcessing, Processing
  <2> QED
    BY <2>1, <2>2, <2>3 DEF WorkOwned, EventsHeld
<1> QED
  BY <1>1, MonitoringInvariance, PTL

(* acknowledgeBridgeWatcherEvents: a hint leaves the outbox for its row in the
   cloud, because the cloud ignores its path, or because newer events filled the
   outbox, and for no other reason. *)
THEOREM HintsAreKept == MonitoringSpec => []HintsKept
<1>1. MonitoringInv => HintsKept
  BY DEF MonitoringInv
<1> QED
  BY <1>1, MonitoringInvariance, PTL

(* From the outbox to the inventory: a change the outbox took waits for its row,
   unless its path is ignored, and the row for an inventory that saw the change. *)
THEOREM ChangesAreAccounted == MonitoringSpec => []ChangesAccounted
<1>1. HintsKept /\ EventsReconciled => ChangesAccounted
  BY DEF ChangesAccounted
<1> QED
  BY <1>1, HintsAreKept, EventsAreReconciled, PTL

(* enqueueMonitoringEvent, claimMonitoringRoot: a completed event is never
   processed again, in no step of any state. *)
THEOREM SettledIsKept == MonitoringSpec => SettledKept
<1>1. ASSUME [MonitoringNext]_monitoringVars, NEW c \in Changes, events[c].status = "COMPLETED"
      PROVE  events'[c].status = "COMPLETED"
  <2>1. CASE UNCHANGED events
    BY <1>1, <2>1
  <2>2. CASE \E cs : events' = Enqueued(cs)
    BY <1>1, <2>2 DEF Enqueued
  <2>3. ASSUME NEW w \in Workers, Settle(w) PROVE events'[c].status = "COMPLETED"
    BY <1>1, <2>3 DEF Settle
  <2>4. ASSUME NEW w, NEW r, NEW queue, NEW retry, Claim(w, r, queue, retry)
        PROVE  events'[c].status = "COMPLETED"
    <3> DEFINE es == Requeued(Processing(r))
               taken == Window(r, es, IF retry THEN {"QUEUED", "NEEDS_ATTENTION"} ELSE {"QUEUED"})
               n == Len(batches) + 1
    <3>1. es[c] = events[c]
      BY <1>1 DEF Requeued
    <3>2. c \notin taken
      BY <1>1, <3>1 DEF Window
    <3> HIDE DEF es, taken
    <3>3. events' = es \/ events' = [d \in Changes |-> IF d \in taken THEN [status |-> "PROCESSING", batch |-> n]
                                                       ELSE es[d]]
      BY <2>4 DEF Claim, es, taken
    <3> QED
      BY <1>1, <3>1, <3>2, <3>3
  <2>5. CASE MonitoringNext
    <3>1. CASE \E w \in Workers : WorkerNext(w)
      <4>1. PICK w \in Workers : WorkerNext(w)
        BY <3>1
      <4>2. CASE \E r \in Roots : ProcessQueue(w, r)
        BY <2>1, <2>4, <4>2 DEF ProcessQueue, Reclaim
      <4>3. CASE \E r \in Roots : Recover(w, r)
        BY <2>1, <2>4, <4>3 DEF Recover, Reclaim
      <4>4. CASE CreateScan(w) \/ Finalize(w) \/ Disowned(w) \/ Die(w)
        BY <2>1, <4>4 DEF CreateScan, Finalize, Disowned, Die
      <4> QED
        BY <2>3, <4>1, <4>2, <4>3, <4>4 DEF WorkerNext
    <3>2. CASE \E s \in DOMAIN scans : ScanNext(s)
      BY <2>1, <2>2, <3>2 DEF ScanNext, Discover, IngestHints, ImportPage, ImportScan, CompleteScan,
        FailScan, Reopen
    <3>3. CASE \E b \in DOMAIN batches : LeaseExpires(b) \/ Stall(b)
      BY <2>1, <3>3 DEF LeaseExpires, Stall
    <3>4. CASE \E r \in Roots : Change(r) \/ SwitchWatcher(r) \/ SyncFolder(r) \/ Reconnect(r) \/ PersonScan(r)
      BY <2>1, <3>4 DEF Change, SwitchWatcher, SyncFolder, Reconnect, PersonScan
    <3>5. CASE Deliver \/ AcknowledgeEvents \/ LoseReply
      BY <2>1, <2>2, <3>5 DEF Deliver, AcknowledgeEvents, LoseReply
    <3> QED
      BY <2>5, <3>1, <3>2, <3>3, <3>4, <3>5 DEF MonitoringNext
  <2> QED
    BY <1>1, <2>1, <2>5 DEF monitoringVars
<1>2. [MonitoringNext]_monitoringVars =>
        [\A c \in Changes : events[c].status = "COMPLETED" => events'[c].status = "COMPLETED"]_monitoringVars
  BY <1>1
<1> QED
  BY <1>2, PTL DEF MonitoringSpec, SettledKept

=============================================================================
