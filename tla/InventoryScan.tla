--------------------------- MODULE InventoryScan ---------------------------
(***************************************************************************)
(* How a full inventory of one root becomes current, and how the physical  *)
(* outcomes of execution and Undo runs are reconciled against it.          *)
(*                                                                         *)
(*   src/lib/bridge/execution-reconciliation.ts                            *)
(*   src/lib/bridge/remote-scan-queue.ts      queueRemoteBridgeScan,       *)
(*                                            importRemoteBridgeScanReport *)
(*   src/lib/bridge/scan-sessions.ts    createBridgeScanSessionFromScan    *)
(*   src/lib/bridge/scan-publication-lock.ts                               *)
(*   src/lib/bridge/command-lifecycle.ts                                   *)
(*                                                                         *)
(* A worker is a request: a report being imported, a local scan, or the    *)
(* recovery that every poll and history view runs.  A step is one          *)
(* transaction, or one read outside of any.  The disk is the set of files  *)
(* it holds and the number of authorised effects so far; an inventory      *)
(* remembers that number as of the moment its discovery began.  Reading    *)
(* and recommending (module ScanProcessing) are one step here.             *)
(***************************************************************************)
EXTENDS Integers, FiniteSets

CONSTANTS
    Runs,           \* execution runs of the root, each with at most one Undo
    Paths,          \* files that may be on the disk
    Workers,        \* concurrent requests
    MaxScans,       \* bound: scan sessions
    MaxEvents,      \* bound: scans a person starts or fails, read retries, reconnections,
                    \*   dead requests, expiries
    MaxFileChanges, \* bound: files another program adds or removes
    None            \* "no scan", "no inventory"

ASSUME InventoryAssumption ==
    /\ MaxScans \in Nat \ {0} /\ MaxEvents \in Nat
    /\ MaxFileChanges \in Nat
    /\ None \notin Nat /\ \A S \in SUBSET Paths : None # S

Scans == 1..MaxScans

VARIABLES
    root,       \* connection revision, readability, physicalInventoryGeneration, paired device
    disk,       \* files on the disk and authorised effects so far
    run,        \* run -> its filesystem work, its Undo's and its reconciliation
    scan,       \* scan session -> status, generation, rows
    command,    \* scan -> its SCAN_LIBRARY or RECONCILE_LIBRARY command
    report,     \* scan -> inventory in the outbox of the Bridge
    local,      \* worker -> volatile state of its request
    clock,      \* startedAt of the youngest inventory
    counts      \* uses of the bounds so far

vars == <<root, disk, run, scan, command, report, local, clock, counts>>

WorkStates == {"NONE", "RUNNING", "EFFECT", "SETTLED"}
Inventories == SUBSET Paths

TypeOK ==
    /\ root \in [rev : Nat, readable : BOOLEAN, gen : Nat, device : BOOLEAN]
    /\ disk \in [files : Inventories, effects : Nat]
    /\ run \in [Runs -> [work : WorkStates, undo : WorkStates, effect : Nat,
                         recon : {"NOT_STARTED", "REQUIRED", "IN_PROGRESS", "COMPLETED"},
                         epoch : Nat, scan : Scans \cup {None}, rev : Nat]]
    /\ scan \in [Scans -> [status : {"NONE", "SCANNING", "READING", "COMPLETED", "FAILED"},
                           gen : Nat, started : Nat, seen : Nat,
                           hash : {None} \cup Inventories, rows : Inventories,
                           published : BOOLEAN, imported : BOOLEAN]]
    /\ command \in [Scans -> [status : {"NONE", "OPEN", "CLOSED"}, rev : Nat]]
    /\ report \in [Scans -> [files : {None} \cup Inventories, seen : Nat]]
    /\ clock \in Nat
    /\ counts \in [events : 0..MaxEvents, changes : 0..MaxFileChanges]

Idle == [pc |-> "idle", scan |-> None, run |-> None, files |-> {}, seen |-> 0,
         gen |-> 0, rev |-> 0, started |-> 0, epoch |-> 0]
NoScan == [status |-> "NONE", gen |-> 0, started |-> 0, seen |-> 0, hash |-> None,
           rows |-> {}, published |-> FALSE, imported |-> FALSE]

Init ==
    /\ root \in [rev : {0}, readable : {TRUE}, gen : {0}, device : BOOLEAN]
    /\ disk = [files |-> Paths, effects |-> 0]
    /\ run = [r \in Runs |-> [work |-> "NONE", undo |-> "NONE", effect |-> 0,
                              recon |-> "NOT_STARTED", epoch |-> 0, scan |-> None, rev |-> 0]]
    /\ scan = [s \in Scans |-> NoScan]
    /\ command = [s \in Scans |-> [status |-> "NONE", rev |-> 0]]
    /\ report = [s \in Scans |-> [files |-> None, seen |-> 0]]
    /\ local = [w \in Workers |-> Idle]
    /\ clock = 0
    /\ counts = [events |-> 0, changes |-> 0]

Event == counts.events < MaxEvents /\ counts' = [counts EXCEPT !.events = @ + 1]
Finish(w) == local' = [local EXCEPT ![w] = Idle]

(***************************************************************************)
(* Currentness.                                                            *)
(***************************************************************************)

OpenWork(work) == work \in {"RUNNING", "EFFECT"}
OpenRuns == {r \in Runs : OpenWork(run[r].work) \/ OpenWork(run[r].undo)}

Active(s) == scan[s].status \in {"SCANNING", "READING"}
Fresh(s) == scan[s].status = "NONE" /\ \A t \in Scans : t < s => scan[t].status # "NONE"

(* assertInventoryAfterPhysicalOutcomes. *)
AfterOutcomes(gen) == gen = root.gen /\ OpenRuns = {}

Newer(s, t) == scan[s].started > scan[t].started
                  \/ (scan[s].started = scan[t].started /\ s > t)
Latest(S) == {s \in S : \A t \in S \ {s} : Newer(s, t)}
CompletedScans == {s \in Scans : scan[s].status = "COMPLETED"}

(* lockCurrentScanPublication. *)
Current(s) ==
    /\ root.readable /\ OpenRuns = {}
    /\ s \in Latest({t \in CompletedScans : scan[t].gen = root.gen})

(* The active scans an outcome leaves behind. *)
SupersededScans(gen) ==
    [s \in Scans |-> IF Active(s) /\ scan[s].gen < gen
                     THEN [scan[s] EXCEPT !.status = "FAILED"] ELSE scan[s]]

Close(S) == [s \in Scans |-> IF s \in S /\ command[s].status = "OPEN"
                             THEN [command[s] EXCEPT !.status = "CLOSED"] ELSE command[s]]

(* Seeded fault: a reconciliation that completed stays so. *)
RequiredUnlessCompleted(r, work, undo) ==
    [run EXCEPT ![r] = IF @.recon = "COMPLETED" THEN [@ EXCEPT !.work = work, !.undo = undo]
        ELSE [@ EXCEPT !.work = work, !.undo = undo, !.recon = "REQUIRED",
                       !.epoch = run[r].epoch + 1, !.scan = None, !.rev = 0]]

(* The obligation of requireExecutionReconciliation. *)
Required(r, work, undo) ==
    [run EXCEPT ![r] = [@ EXCEPT !.work = work, !.undo = undo, !.recon = "REQUIRED",
                                 !.epoch = run[r].epoch + 1, !.scan = None, !.rev = 0]]

(***************************************************************************)
(* Execution and Undo runs (module PhysicalRun): an effect on the disk,    *)
(* and the transaction that publishes it.                                  *)
(***************************************************************************)

AdmitRun(r) ==
    /\ run[r].work = "NONE" /\ root.readable
    /\ run' = [run EXCEPT ![r].work = "RUNNING"]
    /\ UNCHANGED <<root, disk, scan, command, report, local, clock, counts>>

AdmitUndo(r) ==
    /\ run[r].work = "SETTLED" /\ run[r].effect > 0 /\ run[r].undo = "NONE" /\ root.readable
    /\ run' = [run EXCEPT ![r].undo = "RUNNING"]
    /\ UNCHANGED <<root, disk, scan, command, report, local, clock, counts>>

Effect(r) ==
    /\ \/ /\ run[r].work = "RUNNING"
          /\ run' = [run EXCEPT ![r].work = "EFFECT", ![r].effect = disk.effects + 1]
       \/ /\ run[r].undo = "RUNNING"
          /\ run' = [run EXCEPT ![r].undo = "EFFECT", ![r].effect = disk.effects + 1]
    /\ disk' = [disk EXCEPT !.effects = @ + 1]
    /\ UNCHANGED <<root, scan, command, report, local, clock, counts>>

(* A run that changed nothing settles without an outcome. *)
SettleWithoutEffect(r) ==
    /\ \/ run[r].work = "RUNNING" /\ run' = [run EXCEPT ![r].work = "SETTLED"]
       \/ run[r].undo = "RUNNING" /\ run' = [run EXCEPT ![r].undo = "SETTLED"]
    /\ UNCHANGED <<root, disk, scan, command, report, local, clock, counts>>

(* requireExecutionReconciliation(tx, runId): generation, commands, scans, run. *)
PublishOutcome(r) ==
    LET work == IF run[r].work = "EFFECT" THEN "SETTLED" ELSE run[r].work
        undo == IF run[r].undo = "EFFECT" THEN "SETTLED" ELSE run[r].undo
        scans == SupersededScans(root.gen + 1)
        bound == run[r].scan
    IN  /\ "EFFECT" \in {run[r].work, run[r].undo}
        /\ root' = [root EXCEPT !.gen = @ + 1]
        /\ command' = Close(Scans)
        /\ scan' = IF bound # None /\ scans[bound].status \in {"SCANNING", "READING"}
                   THEN [scans EXCEPT ![bound].status = "FAILED"] ELSE scans
        /\ run' = Required(r, work, undo)
        /\ UNCHANGED <<disk, report, local, clock, counts>>

(***************************************************************************)
(* Scans of a paired Mac.                                                  *)
(***************************************************************************)

CreateRemoteScan(s) ==
    /\ Fresh(s)
    /\ scan' = [scan EXCEPT ![s] = [NoScan EXCEPT !.status = "SCANNING", !.gen = root.gen,
                                                 !.started = clock + 1]]
    /\ command' = [command EXCEPT ![s] = [status |-> "OPEN", rev |-> root.rev]]
    /\ clock' = clock + 1

(* queueRemoteBridgeScan. *)
QueueScan(s) ==
    /\ root.device /\ root.readable /\ Event
    /\ ~ \E t \in Scans : Active(t) /\ scan[t].gen = root.gen
    /\ CreateRemoteScan(s)
    /\ UNCHANGED <<root, disk, run, report, local>>

(* The Bridge walks the folder and keeps the inventory in its outbox.  A Bridge
   that lost its replay cache may walk it again for the same command. *)
Discover(s) ==
    /\ command[s].status = "OPEN"
    /\ IF report[s].files = None THEN UNCHANGED counts ELSE Event
    /\ report' = [report EXCEPT ![s] = [files |-> disk.files, seen |-> disk.effects]]
    /\ UNCHANGED <<root, disk, run, scan, command, local, clock>>

(* The completion route and importRemoteBridgeScanReport up to its first
   transaction: the command is open, the session is read. *)
Deliver(w, s) ==
    /\ local[w].pc = "idle"
    /\ command[s].status = "OPEN" /\ report[s].files # None
    /\ local' = [local EXCEPT ![w] = [Idle EXCEPT
           !.pc = IF scan[s].status = "SCANNING" THEN "claim" ELSE "replay",
           !.scan = s, !.files = report[s].files, !.seen = report[s].seen]]
    /\ UNCHANGED <<root, disk, run, scan, command, report, clock, counts>>

Importing(w) == local[w].pc \in {"claim", "store", "media", "finish", "replay"}

(* withGrant: the root, the generation, and a session still awaiting inventory. *)
Granted(w) == root.readable /\ root.rev = command[local[w].scan].rev
Admitted(w) ==
    /\ Granted(w) /\ AfterOutcomes(scan[local[w].scan].gen)
    /\ local[w].pc # "replay" => scan[local[w].scan].status = "SCANNING"

(* An inventory of an older generation fails its session and its command. *)
ImportSuperseded(w) ==
    LET s == local[w].scan
    IN  /\ Importing(w) /\ Granted(w) /\ scan[s].gen # root.gen
        /\ scan' = [scan EXCEPT ![s].status = "FAILED"]
        /\ command' = Close({s})
        /\ Finish(w)
        /\ UNCHANGED <<root, disk, run, report, clock, counts>>

ImportRefused(w) ==
    /\ Importing(w) /\ ~Admitted(w)
    /\ Granted(w) => scan[local[w].scan].gen = root.gen
    /\ Finish(w)
    /\ UNCHANGED <<root, disk, run, scan, command, report, clock, counts>>

(* Seeded fault: a retry with another inventory goes on. *)
ClaimInventoryUnchecked(w) ==
    LET s == local[w].scan
    IN  /\ local[w].pc = "claim" /\ Admitted(w)
        /\ scan' = [scan EXCEPT ![s].hash = IF @ = None THEN local[w].files ELSE @]
        /\ local' = [local EXCEPT ![w].pc = "store"]
        /\ UNCHANGED <<root, disk, run, command, report, clock, counts>>

(* The first inventory owns the session; a different one is refused. *)
ClaimInventory(w) ==
    LET s == local[w].scan
        owner == IF scan[s].hash = None THEN local[w].files ELSE scan[s].hash
    IN  /\ local[w].pc = "claim" /\ Admitted(w)
        /\ scan' = [scan EXCEPT ![s].hash = owner]
        /\ IF owner = local[w].files THEN local' = [local EXCEPT ![w].pc = "store"]
                                     ELSE Finish(w)
        /\ UNCHANGED <<root, disk, run, command, report, clock, counts>>

(* One page of rows. *)
StorePage(w) ==
    LET s == local[w].scan
    IN  /\ local[w].pc = "store"
        /\ \/ /\ local[w].files \subseteq scan[s].rows
              /\ local' = [local EXCEPT ![w].pc = "media"]
              /\ UNCHANGED scan
           \/ /\ Admitted(w)
              /\ \E p \in local[w].files \ scan[s].rows :
                    scan' = [scan EXCEPT ![s].rows = @ \cup {p}]
              /\ UNCHANGED local
        /\ UNCHANGED <<root, disk, run, command, report, clock, counts>>

(* The metadata of the media files among the rows; a page each time it is granted. *)
StoreMedia(w) ==
    /\ local[w].pc = "media" /\ Admitted(w)
    /\ local' = [local EXCEPT ![w].pc = "finish"]
    /\ UNCHANGED <<root, disk, run, scan, command, report, clock, counts>>

(* Supported files are read next; without one the scan is complete. *)
AfterImport(files) == IF files = {} THEN {"COMPLETED"} ELSE {"READING", "COMPLETED"}

FinishImport(w) ==
    LET s == local[w].scan
    IN  /\ local[w].pc = "finish" /\ Admitted(w)
        /\ \E status \in AfterImport(local[w].files) :
              scan' = [scan EXCEPT ![s].status = status, ![s].seen = local[w].seen,
                                   ![s].imported = TRUE]
        /\ local' = [local EXCEPT ![w].pc = "report"]
        /\ UNCHANGED <<root, disk, run, command, report, clock, counts>>

(* A replay of the same complete inventory is acknowledged. *)
ReplayImport(w) ==
    LET s == local[w].scan
        same == scan[s].status # "FAILED" /\ scan[s].hash = local[w].files
                   /\ scan[s].rows = local[w].files
    IN  /\ local[w].pc = "replay" /\ Admitted(w)
        /\ IF same THEN local' = [local EXCEPT ![w].pc = "report"] ELSE Finish(w)
        /\ UNCHANGED <<root, disk, run, scan, command, report, clock, counts>>

(* completeBridgeCloudCommand. *)
CloseCommand(w) ==
    /\ local[w].pc = "report"
    /\ command' = Close({local[w].scan})
    /\ Finish(w)
    /\ UNCHANGED <<root, disk, run, scan, report, clock, counts>>

(* Seeded fault: the session takes the status of its command. *)
FailRemoteScanAsCommand(s) ==
    /\ command[s].status = "OPEN" /\ Event
    /\ command' = Close({s})
    /\ scan' = [scan EXCEPT ![s].status = IF @ = "SCANNING" THEN "EXPIRED" ELSE @]
    /\ UNCHANGED <<root, disk, run, report, local, clock>>

(* The Bridge reports that it could not scan, or the command expires:
   settleUnstartedCommands and expireUnstartedCommands fail the session too. *)
FailRemoteScan(s) ==
    /\ command[s].status = "OPEN" /\ Event
    /\ command' = Close({s})
    /\ scan' = [scan EXCEPT ![s].status = IF @ = "SCANNING" THEN "FAILED" ELSE @]
    /\ UNCHANGED <<root, disk, run, report, local, clock>>

(***************************************************************************)
(* Local scans: the root row is read, the folder is walked, and the rows   *)
(* are stored in one transaction.                                          *)
(***************************************************************************)

(* Start of scanConnectedLibrary: generation and revision precede the walk. *)
LoadRoot(w, r, epoch) ==
    local' = [local EXCEPT ![w] = [Idle EXCEPT !.pc = "walk", !.run = r, !.epoch = epoch,
                                                !.gen = root.gen, !.rev = root.rev]]

(* startBridgeScanSessionForConnectedLibrary answers with the active scan when there is one. *)
StartLocalScan(w) ==
    /\ ~root.device /\ root.readable /\ local[w].pc = "idle" /\ Event
    /\ ~ \E s \in Scans : Active(s)
    /\ LoadRoot(w, None, 0)
    /\ UNCHANGED <<root, disk, run, scan, command, report, clock>>

(* discoverFiles and scanFile. *)
Walk(w) ==
    /\ local[w].pc = "walk"
    /\ local' = [local EXCEPT ![w] = [@ EXCEPT !.pc = "import", !.files = disk.files,
                                              !.seen = disk.effects, !.started = clock + 1]]
    /\ clock' = clock + 1
    /\ UNCHANGED <<root, disk, run, scan, command, report, counts>>

(* lockExecutionReconciliation: the obligation the walk started for still stands. *)
OwnsReconciliation(w) ==
    LET r == run[local[w].run]
    IN  /\ r.epoch = local[w].epoch /\ r.scan = None /\ r.recon = "REQUIRED"
        /\ root.readable /\ root.rev = local[w].rev /\ ~OpenWork(r.undo)

Reusable(w) ==
    {s \in CompletedScans : scan[s].gen = local[w].gen /\ scan[s].rows = local[w].files}

(* Seeded fault: the generation of the root now is compared, not that of the walk. *)
ImportableAnyGeneration(w) ==
    /\ root.readable /\ AfterOutcomes(root.gen) /\ root.rev = local[w].rev
    /\ local[w].run # None => OwnsReconciliation(w)

Importable(w) ==
    /\ root.readable /\ AfterOutcomes(local[w].gen) /\ root.rev = local[w].rev
    /\ local[w].run # None => OwnsReconciliation(w)

Bind(r, s) == [run EXCEPT ![r].recon = "IN_PROGRESS", ![r].scan = s, ![r].rev = root.rev]

(* createBridgeScanSessionFromScan: a scan of a person may reuse an identical one. *)
ImportLocal(w, s) ==
    LET r == local[w].run
        files == local[w].files
    IN  /\ local[w].pc = "import" /\ Importable(w)
        /\ r = None => Reusable(w) = {}
        /\ Fresh(s)
        /\ \E status \in AfterImport(files) :
              scan' = [scan EXCEPT ![s] = [status |-> status, gen |-> root.gen, hash |-> files,
                           started |-> local[w].started, seen |-> local[w].seen, rows |-> files,
                           published |-> FALSE, imported |-> TRUE]]
        /\ IF r = None
           THEN run' = run /\ Finish(w)
           ELSE /\ run' = Bind(r, s)
                /\ local' = [local EXCEPT ![w] = [Idle EXCEPT !.pc = "inspect", !.run = r,
                                                    !.scan = s, !.rev = root.rev]]
        /\ UNCHANGED <<root, disk, command, report, clock, counts>>

ImportLocalEnds(w) ==
    /\ local[w].pc = "import"
    /\ ~Importable(w) \/ (local[w].run = None /\ Reusable(w) # {})
    /\ Finish(w)
    /\ UNCHANGED <<root, disk, run, scan, command, report, clock, counts>>

(***************************************************************************)
(* What happens to an imported scan.                                       *)
(***************************************************************************)

(* Its files are read and its recommendations completed. *)
CompleteScan(s) ==
    /\ scan[s].status = "READING" /\ root.readable /\ AfterOutcomes(scan[s].gen)
    /\ scan' = [scan EXCEPT ![s].status = "COMPLETED", ![s].published = FALSE]
    /\ UNCHANGED <<root, disk, run, command, report, local, clock, counts>>

(* publishScanDerivedKnowledge through recoverPendingScanPublications. *)
Publish(s) ==
    /\ Current(s) /\ ~scan[s].published
    /\ scan' = [scan EXCEPT ![s].published = TRUE]
    /\ UNCHANGED <<root, disk, run, command, report, local, clock, counts>>

(* queueRemoteReadRetryForScannedFile and markRetryQueued: any scan with rows,
   also one that failed and one whose import is not finished. *)
RetryRead(s) ==
    /\ root.device /\ root.readable /\ scan[s].rows # {} /\ Event
    /\ scan' = [scan EXCEPT ![s].status = "READING"]
    /\ UNCHANGED <<root, disk, run, command, report, local, clock>>

(* markBridgeScanSessionFailed: whatever the session was. *)
FailScan(s) ==
    /\ scan[s].status # "NONE" /\ Event
    /\ scan' = [scan EXCEPT ![s].status = "FAILED"]
    /\ UNCHANGED <<root, disk, run, command, report, local, clock>>

(***************************************************************************)
(* The connection of the root, other programs, and requests that die.      *)
(***************************************************************************)

(* retireRootReadWork. *)
Retired == [s \in Scans |-> IF Active(s) THEN [scan[s] EXCEPT !.status = "FAILED"] ELSE scan[s]]

Disconnect ==
    /\ root.readable /\ Event
    /\ root' = [root EXCEPT !.readable = FALSE]
    /\ scan' = Retired /\ command' = Close(Scans)
    /\ UNCHANGED <<disk, run, report, local, clock>>

(* A folder chosen again has a higher revision. *)
Reconnect ==
    /\ IF root.readable THEN Event ELSE UNCHANGED counts
    /\ root' = [root EXCEPT !.readable = TRUE, !.rev = @ + 1]
    /\ scan' = Retired /\ command' = Close(Scans)
    /\ UNCHANGED <<disk, run, report, local, clock>>

ChangeFile(p) ==
    /\ counts.changes < MaxFileChanges
    /\ disk' = [disk EXCEPT !.files = IF p \in @ THEN @ \ {p} ELSE @ \cup {p}]
    /\ counts' = [counts EXCEPT !.changes = @ + 1]
    /\ UNCHANGED <<root, run, scan, command, report, local, clock>>

RequestDies(w) ==
    /\ local[w].pc # "idle" /\ Event
    /\ Finish(w)
    /\ UNCHANGED <<root, disk, run, scan, command, report, clock>>

(***************************************************************************)
(* recoverExecutionReconciliations, for one run at a time.                 *)
(***************************************************************************)

Obliged(r) ==
    /\ run[r].work = "SETTLED" /\ ~OpenWork(run[r].undo)
    /\ run[r].recon \in {"REQUIRED", "IN_PROGRESS"}

Unblocked(r) == run[r].scan # None \/ ~ \E s \in Scans : Active(s)

(* The query outside of the transaction. *)
SelectRun(w, r) ==
    /\ local[w].pc = "idle" /\ Obliged(r) /\ Unblocked(r) /\ root.readable
    /\ local' = [local EXCEPT ![w] = [Idle EXCEPT !.pc = "admit", !.run = r]]
    /\ UNCHANGED <<root, disk, run, scan, command, report, clock, counts>>

AdmitEnds(w) ==
    LET r == local[w].run
    IN  /\ local[w].pc = "admit"
        /\ \/ ~root.readable \/ ~Obliged(r)
           \/ root.device /\ ~Unblocked(r)
        /\ Finish(w)
        /\ UNCHANGED <<root, disk, run, scan, command, report, clock, counts>>

Admissible(w) == local[w].pc = "admit" /\ root.readable /\ Obliged(local[w].run)

ToInspect(w, s) == local' = [local EXCEPT ![w].pc = "inspect", ![w].scan = s, ![w].rev = root.rev]

(* A binding of an older connection is given up. *)
AdmitStaleRevision(w) ==
    LET r == local[w].run
        bound == run[r].scan
    IN  /\ Admissible(w) /\ bound # None /\ run[r].rev # root.rev
        /\ command' = Close({bound})
        /\ scan' = IF Active(bound) THEN [scan EXCEPT ![bound].status = "FAILED"] ELSE scan
        /\ run' = Required(r, run[r].work, run[r].undo)
        /\ Finish(w)
        /\ UNCHANGED <<root, disk, report, clock, counts>>

(* A newer completed scan that postdates every outcome. *)
Adoptable(r) == {s \in Latest(CompletedScans) :
                    s # run[r].scan /\ Newer(s, run[r].scan) /\ AfterOutcomes(scan[s].gen)}

AdmitBound(w) ==
    LET r == local[w].run
        bound == run[r].scan
    IN  /\ Admissible(w) /\ bound # None /\ run[r].rev = root.rev
        /\ IF Adoptable(r) = {}
           THEN /\ ToInspect(w, bound)
                /\ UNCHANGED <<run, scan, command>>
           ELSE \E s \in Adoptable(r) :
                   /\ command' = Close({bound})
                   /\ scan' = IF Active(bound) THEN [scan EXCEPT ![bound].status = "FAILED"] ELSE scan
                   /\ run' = [run EXCEPT ![r] = [@ EXCEPT !.recon = "IN_PROGRESS", !.scan = s,
                                                        !.epoch = run[r].epoch + 1, !.rev = root.rev]]
                   /\ ToInspect(w, s)
        /\ UNCHANGED <<root, disk, report, clock, counts>>

(* Without a binding: walk a local root, or ask the paired Mac. *)
AdmitUnbound(w, s) ==
    LET r == local[w].run
    IN  /\ Admissible(w) /\ run[r].scan = None
        /\ IF root.device
           THEN /\ Unblocked(r)
                /\ CreateRemoteScan(s)
                /\ run' = Bind(r, s)
                /\ ToInspect(w, s)
           ELSE /\ LoadRoot(w, r, run[r].epoch)
                /\ run' = [run EXCEPT ![r].recon = "REQUIRED"]
                /\ UNCHANGED <<scan, command, clock>>
        /\ UNCHANGED <<root, disk, report, counts>>

(* The bound scan after its admission: published, released or left for later. *)
Inspect(w) ==
    LET r == local[w].run
        s == local[w].scan
        bound == run[r].scan = s /\ run[r].recon = "IN_PROGRESS"
        published == scan[s].published \/ Current(s)
    IN  /\ local[w].pc = "inspect"
        /\ IF scan[s].status = "COMPLETED"
           THEN /\ scan' = [scan EXCEPT ![s].published = published]
                /\ IF published THEN local' = [local EXCEPT ![w].pc = "complete"] ELSE Finish(w)
                /\ UNCHANGED run
           ELSE /\ run' = IF scan[s].status = "FAILED" /\ bound
                          THEN Required(r, run[r].work, run[r].undo) ELSE run
                /\ Finish(w)
                /\ UNCHANGED scan
        /\ UNCHANGED <<root, disk, command, report, clock, counts>>

(* The last transaction: the scan is current and published, the run still bound. *)
Settles(w) ==
    LET r == local[w].run
        s == local[w].scan
    IN  /\ Current(s) /\ scan[s].published /\ AfterOutcomes(scan[s].gen)
        /\ run[r].scan = s /\ run[r].recon = "IN_PROGRESS"
        /\ run[r].rev = local[w].rev /\ root.rev = local[w].rev /\ ~OpenWork(run[r].undo)

CompleteReconciliation(w) ==
    LET r == local[w].run
    IN  /\ local[w].pc = "complete"
        /\ run' = IF Settles(w) THEN [run EXCEPT ![r].recon = "COMPLETED"] ELSE run
        /\ Finish(w)
        /\ UNCHANGED <<root, disk, scan, command, report, clock, counts>>

----------------------------------------------------------------------------

ImportStep(w) ==
    \/ ImportSuperseded(w) \/ ImportRefused(w) \/ ClaimInventory(w) \/ StorePage(w) \/ StoreMedia(w)
    \/ FinishImport(w) \/ ReplayImport(w) \/ CloseCommand(w)
    \/ Walk(w) \/ ImportLocalEnds(w) \/ (\E s \in Scans : ImportLocal(w, s))

RecoveryStep(w) ==
    \/ AdmitEnds(w) \/ AdmitStaleRevision(w) \/ AdmitBound(w)
    \/ (\E s \in Scans : AdmitUnbound(w, s)) \/ Inspect(w) \/ CompleteReconciliation(w)

RunStep(r) == Effect(r) \/ SettleWithoutEffect(r) \/ PublishOutcome(r)

Next ==
    \/ \E r \in Runs : AdmitRun(r) \/ AdmitUndo(r) \/ RunStep(r)
    \/ \E s \in Scans : QueueScan(s) \/ Discover(s) \/ FailRemoteScan(s) \/ CompleteScan(s)
                         \/ Publish(s) \/ RetryRead(s) \/ FailScan(s)
    \/ \E w \in Workers, s \in Scans : Deliver(w, s)
    \/ \E w \in Workers, r \in Runs : SelectRun(w, r)
    \/ \E w \in Workers : StartLocalScan(w) \/ ImportStep(w) \/ RecoveryStep(w) \/ RequestDies(w)
    \/ \E p \in Paths : ChangeFile(p)
    \/ Disconnect \/ Reconnect

Spec == Init /\ [][Next]_vars

----------------------------------------------------------------------------

(* An inventory whose import was finished.  A read retry makes a scan READING
   whose import was interrupted (README, observations); the properties are
   about the others. *)
Imported(s) == scan[s].imported /\ scan[s].status \in {"READING", "COMPLETED"}

(* A scan of the current generation that was imported saw the disk as every
   authorised effect left it (assertInventoryAfterPhysicalOutcomes). *)
InventoryFresh ==
    \A s \in Scans : Imported(s) /\ scan[s].gen = root.gen /\ OpenRuns = {}
                        => scan[s].seen = disk.effects

(* A reconciliation completes only against a full inventory whose discovery
   began after the last effect of the run and of its Undo. *)
ReconciledAfterOutcome ==
    \A r \in Runs : run[r].recon = "COMPLETED" /\ ~OpenWork(run[r].undo) =>
        /\ run[r].scan # None
        /\ scan[run[r].scan].imported => scan[run[r].scan].seen >= run[r].effect

(* An imported session holds exactly one inventory, however its report was
   paged, retried and delivered twice. *)
InventoryWhole ==
    \A s \in Scans : Imported(s) => scan[s].rows = scan[s].hash
=============================================================================
