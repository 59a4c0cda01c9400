---------------------------- MODULE RootLifecycle ----------------------------
(***************************************************************************)
(* One connected folder, kept in two places: the registry of the native    *)
(* Bridge, which owns permissions and the operating system's watcher, and  *)
(* the row of the cloud, which people disconnect, grant and watch from.    *)
(*                                                                         *)
(*   bridge-app/src/main/registry.ts, watcher/watcher.ts                   *)
(*   apps/bridge/src/main/electron-main.ts, folder-disconnection.ts,       *)
(*   command-runner.ts                                                     *)
(*   src/lib/bridge/device-root-sync.ts, cloud-command-results.ts,         *)
(*   connected-libraries.ts, remote-monitoring.ts, cloud-coordinator.ts    *)
(*                                                                         *)
(* The Bridge is one process whose handlers interleave at every await: the *)
(* poll runs one command at a time, the window one request of the user.  A *)
(* handler is the sequence of the steps it still has to take, each of them *)
(* one locked registry write, one registry read or one call on the         *)
(* watcher.  Root reports (syncs) and command reports travel in any order, *)
(* and a sync may be lost.  Versions stand for updatedAt, which the        *)
(* registry makes strictly increasing.                                     *)
(*                                                                         *)
(* Left out: the part of updateConnectedLibrary that sets the status of a  *)
(* folder directly (connected-libraries.ts 1542-1592).  It asks the Bridge *)
(* over the loopback, so it works only where the server runs on the        *)
(* folder's own computer, and there it may connect a denied folder again.  *)
(***************************************************************************)
EXTENDS Integers, Sequences, FiniteSets

CONSTANTS
    MaxRegistrations,   \* bound: selections of the folder in the dialog
    MaxCommands,        \* bound: commands the cloud issues
    MaxEvents,          \* bound: requests in the Bridge's window, restarts, watcher
                        \*        errors, unavailable folders, expired commands
    MaxInFlight         \* bound: syncs on the way

ASSUME RootAssumption ==
    /\ MaxRegistrations \in Nat \ {0} /\ MaxCommands \in Nat /\ MaxEvents \in Nat
    /\ MaxInFlight \in Nat \ {0}

VARIABLES
    native,     \* the registry's record; rev 0: never selected
    handle,     \* watcherRegistry holds a watcher of the folder
    task,       \* "poll", "window" -> steps left, command it runs, state it read
    row,        \* ConnectedLibrary of the cloud
    commands,   \* BridgeCommand rows of the folder; CLOSED: any terminal status
    reports,    \* finished commands whose report has not arrived
    syncs,      \* registry snapshots on the way
    history,    \* revisions at the last denial, newest snapshot applied
    used        \* use of the bound MaxEvents

vars == <<native, handle, task, row, commands, reports, syncs, history, used>>

Tasks == {"poll", "window"}
WatcherStates == {"WATCHING", "PAUSED", "STOPPED", "NEEDS_ATTENTION"}
NativeStatuses == {"CONNECTED", "NEEDS_ATTENTION", "DISCONNECTED"}
Types == {"UPDATE_ROOT_PERMISSIONS", "START_WATCHING", "PAUSE_WATCHING", "REVOKE_ROOT_ACCESS"}
Steps == {"revision", "check", "arm", "disarm", "attention", "permissions", "ask", "disconnect",
          "WATCHING", "PAUSED", "STOPPED"}

Registry == [status : NativeStatuses, read : BOOLEAN, watch : BOOLEAN, watcher : WatcherStates,
             rev : 0..MaxRegistrations, at : Nat]

(* What a permission command may ask for: readPermission false takes
   watchPermission with it. *)
Patches == {[read |-> "keep", watch |-> "on"], [read |-> "keep", watch |-> "off"],
            [read |-> "off", watch |-> "off"], [read |-> "on", watch |-> "keep"]}
Patched(asked, old) == IF asked = "keep" THEN old ELSE asked = "on"
NoPatch == [read |-> "keep", watch |-> "keep"]

IdleTask == [todo |-> <<>>, command |-> 0, seen |-> "STOPPED"]
NoRow == [status |-> "NONE", read |-> FALSE, watch |-> FALSE, mon |-> "STOPPED", rev |-> 0, at |-> 0]

TypeOK ==
    /\ native \in Registry /\ handle \in BOOLEAN
    /\ task \in [Tasks -> [todo : Seq(Steps), command : 0..Len(commands), seen : WatcherStates]]
    /\ row \in [status : NativeStatuses \cup {"NONE", "HIDDEN_FROM_ACTIVE_LIST"}, read : BOOLEAN,
                watch : BOOLEAN, mon : WatcherStates, rev : 0..native.rev, at : 0..native.at]
    /\ \A c \in 1..Len(commands) :
          /\ commands[c].type \in Types /\ commands[c].rev \in 0..row.rev
          /\ commands[c].patch \in Patches \cup {NoPatch}
          /\ commands[c].status \in {"PENDING", "ACKNOWLEDGED", "CLOSED"}
    /\ reports \subseteq [command : 1..Len(commands), status : {"COMPLETED", "FAILED"}, root : Registry]
    /\ syncs \subseteq Registry

Init ==
    /\ native = [status |-> "DISCONNECTED", read |-> FALSE, watch |-> FALSE, watcher |-> "STOPPED",
                 rev |-> 0, at |-> 0]
    /\ handle = FALSE
    /\ task = [t \in Tasks |-> IdleTask]
    /\ row = NoRow
    /\ commands = <<>> /\ reports = {} /\ syncs = {}
    /\ history = [denied |-> 0, deniedNative |-> 0, applied |-> 0]
    /\ used = 0

Event == used < MaxEvents /\ used' = used + 1

(***************************************************************************)
(* The native registry and the watcher.                                    *)
(***************************************************************************)

(* updateRootUnlocked: every write takes a version of its own. *)
Saved(record) == [record EXCEPT !.at = native.at + 1]

(* registerRootFromSelectionUnlocked, with the permissions of the folder
   dialog.  The watcher of an earlier connection is not stopped. *)
Register ==
    /\ native.rev < MaxRegistrations
    /\ native' = Saved([status |-> "CONNECTED", read |-> TRUE, watch |-> FALSE, at |-> 0,
                        rev |-> native.rev + 1,
                        watcher |-> IF native.rev = 0 THEN "STOPPED" ELSE "PAUSED"])
    /\ UNCHANGED <<handle, task, row, commands, reports, syncs, history, used>>

MayWatch == native.status = "CONNECTED" /\ native.read /\ native.watch

(* updateSingleFolderWatching, pauseAllWatching and resumeAllWatching, and
   disconnectBridgeFolder, which reads the folder before it asks. *)
Requested(kind) ==
    CASE kind = "pause" -> <<"disarm", "PAUSED">>
      [] kind = "resume" -> <<"check">>
      [] kind = "disconnect" -> <<"ask">>
WindowRequest(kind) ==
    /\ task["window"].todo = <<>> /\ native.rev > 0 /\ Event
    /\ kind # "disconnect" => native.status # "DISCONNECTED" /\ native.watch
    /\ task' = [task EXCEPT !["window"] = [todo |-> Requested(kind), command |-> 0, seen |-> native.watcher]]
    /\ UNCHANGED <<native, handle, row, commands, reports, syncs, history>>

(* What a command does once its revision is the registry's (executeCommand). *)
Program(c) ==
    CASE c.type = "UPDATE_ROOT_PERMISSIONS" -> <<"permissions">>
      [] c.type = "START_WATCHING" -> <<"check">>
      [] c.type = "PAUSE_WATCHING" -> <<"disarm", "PAUSED">>
      [] c.type = "REVOKE_ROOT_ACCESS" -> <<"disarm", "STOPPED", "disconnect">>

Doing(t, step) == task[t].todo # <<>> /\ Head(task[t].todo) = step

(* The task goes on with the steps in rest; a command that has none left
   reports the folder as its last write left it. *)
Continue(t, rest) ==
    IF rest = <<>>
    THEN /\ task' = [task EXCEPT ![t] = IdleTask]
         /\ reports' = IF task[t].command = 0 THEN reports
                       ELSE reports \cup {[command |-> task[t].command, status |-> "COMPLETED", root |-> native']}
    ELSE task' = [task EXCEPT ![t].todo = rest] /\ reports' = reports
GoOn(t) == Continue(t, Tail(task[t].todo))

(* The handler throws. *)
Throw(t) ==
    /\ task' = [task EXCEPT ![t] = IdleTask]
    /\ reports' = IF task[t].command = 0 THEN reports
                  ELSE reports \cup {[command |-> task[t].command, status |-> "FAILED", root |-> native]}

CheckRevision(t) ==
    /\ Doing(t, "revision")
    /\ UNCHANGED native
    /\ IF commands[task[t].command].rev = native.rev THEN Continue(t, Program(commands[task[t].command])) ELSE Throw(t)
    /\ UNCHANGED <<handle, row, commands, syncs, history, used>>

(* startBridgeWatcher up to its first await on the folder. *)
CheckWatch(t) ==
    /\ Doing(t, "check")
    /\ UNCHANGED native
    /\ IF MayWatch THEN Continue(t, IF handle THEN <<"WATCHING">> ELSE <<"arm">>) ELSE Throw(t)
    /\ UNCHANGED <<handle, row, commands, syncs, history, used>>

Arm(t) ==
    /\ Doing(t, "arm")
    /\ handle' = TRUE /\ UNCHANGED native /\ Continue(t, <<"WATCHING">>)
    /\ UNCHANGED <<row, commands, syncs, history, used>>

(* The folder is not there, or cannot be watched. *)
ArmFails(t) ==
    /\ Doing(t, "arm") /\ Event
    /\ UNCHANGED native /\ Continue(t, <<"attention">>)
    /\ UNCHANGED <<handle, row, commands, syncs, history>>

NeedsAttention(t) ==
    /\ Doing(t, "attention")
    /\ native' = Saved([native EXCEPT !.status = "NEEDS_ATTENTION", !.watcher = "NEEDS_ATTENTION"])
    /\ task' = [task EXCEPT ![t] = IdleTask]
    /\ reports' = IF task[t].command = 0 THEN reports
                  ELSE reports \cup {[command |-> task[t].command, status |-> "FAILED", root |-> native]}
    /\ UNCHANGED <<handle, row, commands, syncs, history, used>>

Disarm(t) ==
    /\ Doing(t, "disarm")
    /\ handle' = FALSE /\ UNCHANGED native /\ GoOn(t)
    /\ UNCHANGED <<row, commands, syncs, history, used>>

(* The last write of start, pause and stop. *)
SaveWatcher(t) ==
    /\ \E state \in {"WATCHING", "PAUSED", "STOPPED"} :
          /\ Doing(t, state)
          /\ native' = Saved([native EXCEPT !.watcher = state,
                                            !.status = IF state = "WATCHING" THEN "CONNECTED" ELSE @])
    /\ GoOn(t)
    /\ UNCHANGED <<handle, row, commands, syncs, history, used>>

(* UPDATE_ROOT_PERMISSIONS: the registry refuses to watch what it may not
   read; withdrawing the watch permission stops the watcher afterwards. *)
SavePermissions(t) ==
    LET patch == commands[task[t].command].patch
        read == Patched(patch.read, native.read)
        watch == Patched(patch.watch, native.watch)
    IN  /\ Doing(t, "permissions")
        /\ IF watch /\ ~read THEN UNCHANGED native /\ Throw(t)
           ELSE /\ native' = Saved([native EXCEPT !.read = read, !.watch = watch,
                     !.watcher = IF ~watch /\ @ = "WATCHING" THEN "PAUSED" ELSE @])
                /\ Continue(t, IF ~watch \/ patch.read = "off" THEN <<"disarm", "STOPPED">> ELSE <<>>)
        /\ UNCHANGED <<handle, row, commands, syncs, history, used>>

(* The person confirms; the watcher is stopped if it ran before the question. *)
ConfirmDisconnect(t) ==
    /\ Doing(t, "ask") /\ UNCHANGED native
    /\ Continue(t, IF task[t].seen = "WATCHING" THEN <<"disarm", "STOPPED", "disconnect">> ELSE <<"disconnect">>)
    /\ UNCHANGED <<handle, row, commands, syncs, history, used>>
CancelDisconnect(t) ==
    /\ Doing(t, "ask") /\ UNCHANGED native /\ GoOn(t)
    /\ UNCHANGED <<handle, row, commands, syncs, history, used>>

DisconnectRoot(t) ==
    /\ Doing(t, "disconnect")
    /\ native' = Saved([native EXCEPT !.watch = FALSE, !.status = "DISCONNECTED", !.watcher = "STOPPED"])
    /\ GoOn(t)
    /\ UNCHANGED <<handle, row, commands, syncs, history, used>>

(* The watcher reports an error: it is forgotten at once, the registry
   follows. *)
WatcherError ==
    /\ handle /\ task["window"].todo = <<>> /\ Event
    /\ handle' = FALSE
    /\ task' = [task EXCEPT !["window"] = [IdleTask EXCEPT !.todo = <<"attention">>]]
    /\ UNCHANGED <<native, row, commands, reports, syncs, history>>

(* The Bridge quits; restorePersistedBridgeWatchers runs as it starts again.
   A command that was under way is not run again. *)
Restart ==
    /\ Event
    /\ handle' = FALSE
    /\ task' = [t \in Tasks |-> IF t = "window" /\ MayWatch /\ native.watcher = "WATCHING"
                                THEN [IdleTask EXCEPT !.todo = <<"check">>] ELSE IdleTask]
    /\ UNCHANGED <<native, row, commands, reports, syncs, history>>

(***************************************************************************)
(* Root reports.                                                           *)
(***************************************************************************)

(* syncLocalRoots *)
SendSync ==
    /\ native.rev > 0 /\ native \notin syncs /\ Cardinality(syncs) < MaxInFlight
    /\ syncs' = syncs \cup {native}
    /\ UNCHANGED <<native, handle, task, row, commands, reports, history, used>>

Open(c) == c.status \in {"PENDING", "ACKNOWLEDGED"}

(* retireRootReadWork *)
Retired == [c \in DOMAIN commands |->
    IF Open(commands[c]) /\ commands[c].type # "REVOKE_ROOT_ACCESS"
    THEN [commands[c] EXCEPT !.status = "CLOSED"] ELSE commands[c]]

(* syncBridgeDeviceRoots: a snapshot that is older, or that only repeats a
   connection a person denied, leaves lifecycle, grant and monitoring alone. *)
Exists == row.status # "NONE"
Reconnects(s) == Exists /\ s.rev > row.rev
Stale(s) == Exists /\ (s.rev < row.rev \/ s.at < row.at)
\* Seeded faults: the version is not compared; a denied row is not kept.
KeepsRowStale(s) == Exists /\ (s.rev < row.rev \/ (row.status # "CONNECTED" /\ ~Reconnects(s)))
KeepsRowDenied(s) == Stale(s)
KeepsRow(s) == Stale(s) \/ (Exists /\ row.status # "CONNECTED" /\ ~Reconnects(s))
\* Seeded fault: the revision of the snapshot, older or not.
MaxRevLatest(s) == s.rev
MaxRev(s) == IF s.rev > row.rev THEN s.rev ELSE row.rev

DeliverSync(s) ==
    /\ s \in syncs /\ syncs' = syncs \ {s}
    /\ commands' = IF Reconnects(s) THEN Retired ELSE commands
    /\ row' = IF KeepsRow(s)
              THEN [row EXCEPT !.rev = MaxRev(s), !.at = IF Stale(s) THEN @ ELSE s.at]
              ELSE [status |-> s.status, read |-> s.read, watch |-> s.watch, mon |-> s.watcher,
                    rev |-> MaxRev(s), at |-> s.at]
    /\ history' = IF KeepsRow(s) \/ s.at < history.applied THEN history ELSE [history EXCEPT !.applied = s.at]
    /\ UNCHANGED <<native, handle, task, reports, used>>

LoseSync ==
    /\ \E s \in syncs : syncs' = syncs \ {s}
    /\ UNCHANGED <<native, handle, task, row, commands, reports, history, used>>

(***************************************************************************)
(* What people do in the web application.                                  *)
(***************************************************************************)

(* isCurrentReadableRoot and commandRootAllows. *)
CurrentReadable == row.status = "CONNECTED" /\ row.read
Allows(type) == Exists /\ (type = "START_WATCHING" => CurrentReadable /\ row.watch)

(* createBridgeCloudCommand stamps the revision the row has now. *)
Issue(queue, type, patch) ==
    Append(queue, [type |-> type, patch |-> patch, rev |-> row.rev, status |-> "PENDING"])

QueuePermission(patch) ==
    /\ Len(commands) < MaxCommands /\ Allows("UPDATE_ROOT_PERMISSIONS")
    /\ patch.watch = "on" => row.read \/ patch.read = "on"
    /\ commands' = Issue(commands, "UPDATE_ROOT_PERMISSIONS", patch)
    /\ UNCHANGED <<native, handle, task, row, reports, syncs, history, used>>

(* queueRemoteMonitoringAction: one watching update at a time. *)
QueueWatching(type) ==
    /\ Len(commands) < MaxCommands /\ Allows(type)
    /\ \A c \in DOMAIN commands : Open(commands[c]) => commands[c].type \notin {"START_WATCHING", "PAUSE_WATCHING"}
    /\ commands' = Issue(commands, type, NoPatch)
    /\ UNCHANGED <<native, handle, task, row, reports, syncs, history, used>>

(* denyConnectedLibrary: disconnect, or hide what is disconnected. *)
RevokePending == \E c \in DOMAIN commands : Open(commands[c]) /\ commands[c].type = "REVOKE_ROOT_ACCESS"
Deny(hide) ==
    /\ Exists
    /\ hide => row.status \in {"DISCONNECTED", "HIDDEN_FROM_ACTIVE_LIST"}
    /\ RevokePending \/ Len(commands) < MaxCommands
    /\ commands' = IF RevokePending THEN Retired ELSE Issue(Retired, "REVOKE_ROOT_ACCESS", NoPatch)
    /\ row' = [row EXCEPT !.status = IF hide THEN "HIDDEN_FROM_ACTIVE_LIST" ELSE "DISCONNECTED",
                          !.watch = FALSE, !.mon = "STOPPED"]
    /\ history' = [history EXCEPT !.denied = row.rev, !.deniedNative = native.rev]
    /\ UNCHANGED <<native, handle, task, reports, syncs, used>>

(***************************************************************************)
(* Commands.                                                               *)
(***************************************************************************)

(* authorizedBridgeCommands lists what the row allows, the oldest first. *)
Authorized(c) == commands[c].rev = row.rev /\ Allows(commands[c].type)
Acknowledge(c) ==
    /\ task["poll"].todo = <<>> /\ commands[c].status = "PENDING" /\ Authorized(c)
    /\ \A d \in 1..(c - 1) : commands[d].status = "PENDING" => ~Authorized(d)
    /\ commands' = [commands EXCEPT ![c].status = "ACKNOWLEDGED"]
    /\ task' = [task EXCEPT !["poll"] = [IdleTask EXCEPT !.todo = <<"revision">>, !.command = c]]
    /\ UNCHANGED <<native, handle, row, reports, syncs, history, used>>

(* A command listed before it lost its authority is cancelled when the
   Bridge acknowledges it. *)
AcknowledgeRefused(c) ==
    /\ task["poll"].todo = <<>> /\ commands[c].status = "PENDING" /\ ~Authorized(c)
    /\ commands' = [commands EXCEPT ![c].status = "CLOSED"]
    /\ UNCHANGED <<native, handle, task, row, reports, syncs, history, used>>

Expire(c) ==
    /\ Open(commands[c]) /\ Event
    /\ commands' = [commands EXCEPT ![c].status = "CLOSED"]
    /\ UNCHANGED <<native, handle, task, row, reports, syncs, history>>

(* applyCompletedPermissionUpdate and applyCompletedMonitoringCommand. *)
Applies(c, root) ==
    /\ row.status = "CONNECTED" /\ root.at >= row.at
    /\ c.type # "UPDATE_ROOT_PERMISSIONS" => row.read /\ row.watch
Reported(c, root) ==
    IF ~Applies(c, root) THEN row
    ELSE IF c.type = "UPDATE_ROOT_PERMISSIONS"
    THEN [row EXCEPT !.read = root.read, !.watch = root.read /\ root.watch, !.mon = root.watcher, !.at = root.at]
    ELSE [row EXCEPT !.mon = root.watcher, !.at = root.at]

(* The complete route and persistBridgeControlCommandReport: the first
   terminal outcome stays, and a report of an older connection is rejected. *)
DeliverReport(r) ==
    LET c == commands[r.command]
        revoke == c.type = "REVOKE_ROOT_ACCESS"     \* the row is denied already
    IN  /\ r \in reports /\ reports' = reports \ {r}
        /\ commands' = IF c.status = "ACKNOWLEDGED" THEN [commands EXCEPT ![r.command].status = "CLOSED"] ELSE commands
        /\ row' = IF c.status # "ACKNOWLEDGED" \/ revoke \/ c.rev # row.rev \/ r.status = "FAILED" THEN row
                  ELSE Reported(c, r.root)
        /\ UNCHANGED <<native, handle, task, syncs, history, used>>

Step(t) ==
    \/ CheckRevision(t) \/ CheckWatch(t) \/ Arm(t) \/ ArmFails(t) \/ NeedsAttention(t) \/ Disarm(t)
    \/ SaveWatcher(t) \/ SavePermissions(t) \/ ConfirmDisconnect(t) \/ CancelDisconnect(t) \/ DisconnectRoot(t)

Next ==
    \/ Register \/ WatcherError \/ Restart \/ SendSync \/ LoseSync
    \/ \E kind \in {"pause", "resume", "disconnect"} : WindowRequest(kind)
    \/ \E t \in Tasks : Step(t)
    \/ \E s \in syncs : DeliverSync(s)
    \/ \E r \in reports : DeliverReport(r)
    \/ \E patch \in Patches : QueuePermission(patch)
    \/ \E type \in {"START_WATCHING", "PAUSE_WATCHING"} : QueueWatching(type)
    \/ \E hide \in BOOLEAN : Deny(hide)
    \/ \E c \in DOMAIN commands : Acknowledge(c) \/ AcknowledgeRefused(c) \/ Expire(c)

Spec == Init /\ [][Next]_vars

(***************************************************************************)
(* Properties.                                                             *)
(***************************************************************************)

(* ROOT-2 of SYSTEM_INVARIANTS.md, syncBridgeDeviceRoots: once the registry's
   present record was synchronised, the grant and the monitoring the cloud
   shows for a connected folder are that record's, whatever older syncs and
   command reports arrive afterwards. *)
SyncedAgrees ==
    row.status = "CONNECTED" /\ history.applied = native.at =>
        row.read = native.read /\ row.watch = native.watch /\ row.mon = native.watcher

(* "A scan/watch heartbeat cannot clear a human lifecycle decision": a folder
   that a person disconnected or hid is current again only under a connection
   the cloud had not seen when it was denied, whatever syncs, reports and commands
   arrive.  (The one thing that lifts a denial otherwise is a person's own PATCH of
   the status, which is not modelled: see the header.) *)
DenialHolds == row.status = "CONNECTED" => row.rev > history.denied \/ history.denied = 0

(* STRUCTURAL_DERIVED_STATE_AUDIT.md "permit reactivation only on an explicit
   newer authorized connection action": the selection that makes a denied
   folder current again was made after the denial. *)
ReconnectedAfterDenial == row.status = "CONNECTED" => row.rev > history.deniedNative \/ history.deniedNative = 0
==============================================================================
