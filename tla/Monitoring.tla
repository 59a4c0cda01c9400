------------------------------ MODULE Monitoring ------------------------------
(***************************************************************************)
(* Watched folders of a paired Mac: the native outbox of change hints, its *)
(* delivery to the cloud, and the batches that reconcile the hints against *)
(* a fresh full inventory of the folder.                                   *)
(*                                                                         *)
(*   bridge-app/src/watcher/event-outbox.ts, watcher.ts                    *)
(*   apps/bridge/src/main/electron-main.ts (deliverWatcherEvents)          *)
(*   src/lib/bridge/monitor.ts, monitoring-authority.ts                    *)
(*                                                                         *)
(* A change of root r is the pair <<r, n>>: the n-th change of that root's *)
(* disk.  Its watcher event has an id of its own, so the pair is also the  *)
(* identity of the event and of its row.  An inventory that was discovered *)
(* when the disk had seen n changes reconciles changes 1..n.  The paths of *)
(* some changes are ones the cloud ignores: a name that starts with a dot. *)
(*                                                                         *)
(* A batch is owned by a generation, a lease and the connection revision   *)
(* of its root.  Workers are requests of the server: they interleave at    *)
(* every transaction, stall past their lease and die.                      *)
(*                                                                         *)
(* The definitions every specification has carry the module's name, so     *)
(* that FolderProofs can extend this module and RootLifecycle.             *)
(***************************************************************************)
EXTENDS Integers, Sequences, FiniteSets

CONSTANTS
    Roots,          \* connected folders of one device
    Workers,        \* requests that process or recover batches
    OutboxLimit,    \* maxOutboxEvents
    DeliveryLimit,  \* events of one delivery
    QueueLimit,     \* monitoringQueueLimit: events of one batch
    Ignored,        \* changes, by number, whose paths the cloud ignores (shouldIgnorePath)
    MaxChanges,     \* bound: changes of one root's disk
    MaxBatches,     \* bound: batches created
    MaxScans,       \* bound: a person starts no scan once there are so many
    MaxSwitches,    \* bound: pauses, resumes, reconnections and reopened scans
    MaxFaults,      \* bound: lost messages, dead workers, stalls past a lease
    None

ASSUME MonitoringAssumption ==
    /\ IsFiniteSet(Roots) /\ IsFiniteSet(Workers) /\ None \notin Nat
    /\ OutboxLimit \in Nat \ {0} /\ DeliveryLimit \in Nat \ {0} /\ QueueLimit \in Nat \ {0}
    /\ MaxChanges \in Nat /\ MaxBatches \in Nat /\ MaxScans \in Nat
    /\ MaxSwitches \in Nat /\ MaxFaults \in Nat /\ Ignored \subseteq Nat

VARIABLES
    disk,       \* root -> changes its folder has seen
    watcher,    \* root -> the native watcher runs
    outbox,     \* watcher-event-outbox.json: events, each with its place in the file
    hinted,     \* events queued, less those a full outbox pushed out (history)
    reply,      \* events of the accepted delivery whose reply is on its way, or None
    folder,     \* root -> row: watching (current, readable, watch grant, WATCHING) and revision
    events,     \* MonitoringEvent rows: status (NONE: no row) and batch
    batches,    \* MonitoringBatch rows
    scans,      \* ScanSession rows: what their inventory saw, how much of it has rows, and
                \* whether the scan was ever done or reopened (history)
    worker,     \* worker -> step, and the owner it was admitted with
    spent       \* use of the bounds MaxSwitches and MaxFaults

nativeVars == <<disk, watcher, outbox, hinted, reply>>
monitoringVars == <<disk, watcher, outbox, hinted, reply, folder, events, batches, scans, worker, spent>>

Changes == Roots \X (1..MaxChanges)
ActiveStatuses == {"SCANNING", "READING"}
Idle == [step |-> "idle", batch |-> None, generation |-> 0, queue |-> FALSE]

MonitoringTypeOK ==
    /\ disk \in [Roots -> 0..MaxChanges] /\ watcher \in [Roots -> BOOLEAN]
    /\ outbox \subseteq [place : Nat, change : Changes]
    /\ IsFiniteSet(outbox) /\ Cardinality(outbox) <= OutboxLimit
    /\ hinted \subseteq Changes
    /\ reply \in (SUBSET Changes) \cup {None}
    /\ folder \in [Roots -> [watching : BOOLEAN, revision : 0..MaxSwitches]]
    /\ events \in [Changes -> [status : {"NONE", "QUEUED", "PROCESSING", "NEEDS_ATTENTION", "COMPLETED"},
                               batch : 1..Len(batches) \cup {None}]]
    /\ \A b \in DOMAIN batches :
          batches[b] \in [root : Roots, status : {"PROCESSING", "READY_FOR_REVIEW", "COMPLETED_WITH_ERRORS"},
                          generation : Nat \ {0}, live : BOOLEAN, revision : Nat, scan : 1..Len(scans) \cup {None}]
    /\ \A s \in DOMAIN scans :
          scans[s] \in [root : Roots, status : ActiveStatuses \cup {"COMPLETED", "FAILED"},
                        batch : 1..Len(batches) \cup {None}, revision : Nat, seen : 0..MaxChanges \cup {None},
                        hints : SUBSET Changes, unread : SUBSET (1..MaxChanges),
                        rows : {"none", "part", "whole"}, done : BOOLEAN, reopened : BOOLEAN]
    /\ \A w \in Workers : worker[w] = Idle \/
          worker[w] \in [step : {"create", "settle", "finalize"}, batch : DOMAIN batches,
                         generation : Nat, queue : BOOLEAN]

MonitoringInit ==
    /\ disk = [r \in Roots |-> 0] /\ watcher = [r \in Roots |-> TRUE]
    /\ outbox = {} /\ hinted = {} /\ reply = None
    /\ folder = [r \in Roots |-> [watching |-> TRUE, revision |-> 0]]
    /\ events = [c \in Changes |-> [status |-> "NONE", batch |-> None]]
    /\ batches = <<>> /\ scans = <<>>
    /\ worker = [w \in Workers |-> Idle] /\ spent = [switches |-> 0, faults |-> 0]

Fault == spent.faults < MaxFaults /\ spent' = [spent EXCEPT !.faults = @ + 1]
Switch == spent.switches < MaxSwitches /\ spent' = [spent EXCEPT !.switches = @ + 1]

-----------------------------------------------------------------------------
(* The native outbox. *)

(* The events of the file, and the oldest k of them: a new event has the
   highest place. *)
EventsIn(box) == {e.change : e \in box}
Oldest(box, k) == {e \in box : Cardinality({d \in box : d.place < e.place}) < k}
NextPlace == Cardinality({c \in Changes : c[2] <= disk[c[1]]})

(* queueBridgeWatcherEvent: the newest OutboxLimit events stay. *)
\* Seeded fault: no limit.
QueuedAll(box, c) == box \cup {[place |-> NextPlace, change |-> c]}
Queued(box, c) ==
    LET grown == box \cup {[place |-> NextPlace, change |-> c]}
    IN  IF Cardinality(grown) > OutboxLimit
        THEN grown \ {CHOOSE e \in grown : \A d \in grown : e.place <= d.place} ELSE grown

(* A change on disk; the debounced watcher event reaches the outbox before
   anything else looks at the folder, or the watcher does not run. *)
Change(r) ==
    /\ disk[r] < MaxChanges
    /\ disk' = [disk EXCEPT ![r] = @ + 1]
    /\ outbox' = IF watcher[r] THEN Queued(outbox, <<r, disk[r] + 1>>) ELSE outbox
    /\ hinted' = (hinted \cup (EventsIn(outbox') \ EventsIn(outbox)))
                    \ (EventsIn(outbox) \ EventsIn(outbox'))
    /\ UNCHANGED <<watcher, reply, folder, events, batches, scans, worker, spent>>

(* enqueueMonitoringEvent: an upsert by key that never queues a row again.  An
   event of an ignored path is accepted and gets no row. *)
Enqueued(cs) ==
    [c \in Changes |-> IF c \in cs /\ c[2] \notin Ignored /\ events[c].status = "NONE"
                       THEN [status |-> "QUEUED", batch |-> None] ELSE events[c]]

(* ingestBridgeWatchEvents: one transaction for the whole delivery, refused
   when the root of any of its events is not watching. *)
Admitted(cs) == \A c \in cs : folder[c[1]].watching

(* deliverWatcherEvents lists the oldest events, whatever their root, and
   posts them.  A refused or lost delivery changes nothing. *)
Delivery == EventsIn(Oldest(outbox, DeliveryLimit))

Deliver ==
    /\ reply = None /\ outbox # {} /\ Admitted(Delivery)
    /\ events' = Enqueued(Delivery)
    /\ reply' = Delivery
    /\ UNCHANGED <<disk, watcher, outbox, hinted, folder, batches, scans, worker, spent>>

(* acknowledgeBridgeWatcherEvents removes what the reply names: accepted and
   duplicate events alike. *)
AcknowledgeEvents ==
    /\ reply # None
    /\ outbox' = {e \in outbox : e.change \notin reply}
    /\ reply' = None
    /\ UNCHANGED <<disk, watcher, hinted, folder, events, batches, scans, worker, spent>>

(* The reply is lost, or the Bridge restarts: the outbox is a file and keeps
   its events. *)
LoseReply ==
    /\ reply # None /\ Fault
    /\ reply' = None
    /\ UNCHANGED <<disk, watcher, outbox, hinted, folder, events, batches, scans, worker>>

(* The watcher pauses or resumes; the row follows with the next root sync
   (module RootLifecycle). *)
SwitchWatcher(r) ==
    /\ Switch
    /\ watcher' = [watcher EXCEPT ![r] = ~@]
    /\ UNCHANGED <<disk, outbox, hinted, reply, folder, events, batches, scans, worker>>

SyncFolder(r) ==
    /\ folder[r].watching # watcher[r]
    /\ folder' = [folder EXCEPT ![r].watching = watcher[r]]
    /\ UNCHANGED <<nativeVars, events, batches, scans, worker, spent>>

(* A person connects the folder again: a new revision of its grant, and the
   scans at work under the old one fail (retireRootReadWork). *)
ScansRetired(r) ==
    [s \in DOMAIN scans |-> IF scans[s].root = r /\ scans[s].status \in ActiveStatuses
                            THEN [scans[s] EXCEPT !.status = "FAILED", !.hints = {}] ELSE scans[s]]

Reconnect(r) ==
    /\ Switch
    /\ folder' = [folder EXCEPT ![r].revision = @ + 1]
    /\ scans' = ScansRetired(r)
    /\ UNCHANGED <<nativeVars, events, batches, worker>>

-----------------------------------------------------------------------------
(* Batches. *)

Processing(r) == {b \in DOMAIN batches : batches[b].root = r /\ batches[b].status = "PROCESSING"}
ActiveScans(r, ss) == {s \in DOMAIN ss : ss[s].root = r /\ ss[s].status \in ActiveStatuses}

(* A random generation differs from all earlier ones.  Generations are only
   compared with those workers hold, so any that no worker holds will do. *)
FreshGeneration(b) ==
    CHOOSE g \in 1..(Cardinality(Workers) + 1) :
        \A w \in Workers : worker[w].batch = b => worker[w].generation # g

(* Seeded fault: a reclaimed batch also takes the events queued since. *)
ReclaimWithQueue(w, r, queue) ==
    \E b \in Processing(r) :
        /\ folder[r].watching /\ ~batches[b].live
        /\ batches[b].revision = folder[r].revision
        /\ batches' = [batches EXCEPT ![b].generation = FreshGeneration(b), ![b].live = TRUE]
        /\ worker' = [worker EXCEPT ![w] = [step |-> IF batches[b].scan = None THEN "create" ELSE "settle",
                                            batch |-> b, generation |-> FreshGeneration(b), queue |-> queue]]
        /\ events' = [c \in Changes |-> IF c[1] = r /\ events[c].status = "QUEUED"
                                        THEN [status |-> "PROCESSING", batch |-> b] ELSE events[c]]
        /\ UNCHANGED <<folder, scans>>

(* claimMonitoringRoot, an abandoned batch of the same revision: a new
   generation owns it, with the events and the scan it already has. *)
Reclaim(w, r, queue) ==
    \E b \in Processing(r) :
        /\ folder[r].watching /\ ~batches[b].live
        /\ batches[b].revision = folder[r].revision
        /\ batches' = [batches EXCEPT ![b].generation = FreshGeneration(b), ![b].live = TRUE]
        /\ worker' = [worker EXCEPT ![w] = [step |-> IF batches[b].scan = None THEN "create" ELSE "settle",
                                            batch |-> b, generation |-> FreshGeneration(b), queue |-> queue]]
        /\ UNCHANGED <<folder, events, scans>>

(* claimMonitoringRoot, a batch of an older revision: its scan fails if it is
   still active, the batch closes, and its unsettled events are queued again. *)
\* Seeded fault: settled events are queued again as well.
RequeuedAll(bs) ==
    [c \in Changes |-> IF events[c].batch \in bs THEN [status |-> "QUEUED", batch |-> None] ELSE events[c]]
Requeued(bs) ==
    [c \in Changes |-> IF events[c].batch \in bs /\ events[c].status = "PROCESSING"
                       THEN [status |-> "QUEUED", batch |-> None] ELSE events[c]]

Abandoned(bs) ==
    [s \in DOMAIN scans |-> IF (\E b \in bs : batches[b].scan = s) /\ scans[s].status \in ActiveStatuses
                            THEN [scans[s] EXCEPT !.status = "FAILED"] ELSE scans[s]]

Closed(bs) ==
    [b \in DOMAIN batches |-> IF b \in bs THEN [batches[b] EXCEPT !.status = "COMPLETED_WITH_ERRORS",
                                                                  !.live = FALSE]
                              ELSE batches[b]]

(* The oldest waiting events of the root, at most QueueLimit. *)
Window(r, es, statuses) ==
    LET waiting == {c \in Changes : c[1] = r /\ es[c].status \in statuses}
    IN  {c \in waiting : Cardinality({d \in waiting : d[2] < c[2]}) < QueueLimit}

(* claimMonitoringRoot otherwise: unless some scan of the root is active, a
   new batch takes the oldest waiting events.  The closing of an outdated
   batch stands even when nothing can be claimed. *)
Claim(w, r, queue, retry) ==
    LET old == Processing(r)
        es == Requeued(old)
        taken == Window(r, es, IF retry THEN {"QUEUED", "NEEDS_ATTENTION"} ELSE {"QUEUED"})
        b == Len(batches) + 1
    IN  /\ folder[r].watching
        /\ \A o \in old : ~batches[o].live /\ batches[o].revision # folder[r].revision
        /\ scans' = Abandoned(old)
        /\ IF taken # {} /\ ActiveScans(r, scans') = {}
           THEN /\ b <= MaxBatches
                /\ batches' = Append(Closed(old), [root |-> r, status |-> "PROCESSING", generation |-> 1,
                                        live |-> TRUE, revision |-> folder[r].revision, scan |-> None])
                /\ events' = [c \in Changes |-> IF c \in taken THEN [status |-> "PROCESSING", batch |-> b]
                                                ELSE es[c]]
                /\ worker' = [worker EXCEPT ![w] = [step |-> "create", batch |-> b, generation |-> 1,
                                                    queue |-> queue]]
           ELSE /\ old # {}
                /\ batches' = Closed(old) /\ events' = es /\ UNCHANGED worker
        /\ UNCHANGED folder

(* processMonitoringQueue: a person has the queue processed, or retried. *)
ProcessQueue(w, r) ==
    /\ worker[w] = Idle
    /\ Reclaim(w, r, TRUE) \/ \E retry \in BOOLEAN : Claim(w, r, TRUE, retry)
    /\ UNCHANGED <<nativeVars, spent>>

(* recoverMonitoringBatchesForDevice, in every poll of the device: an expired
   batch is claimed, a live one whose scan ended is settled for its owner. *)
Recover(w, r) ==
    /\ worker[w] = Idle /\ folder[r].watching
    /\ \E b \in Processing(r) :
          \/ ~batches[b].live /\ (Reclaim(w, r, FALSE) \/ Claim(w, r, FALSE, FALSE))
          \/ /\ batches[b].live /\ batches[b].scan # None
             /\ scans[batches[b].scan].status \notin ActiveStatuses
             /\ worker' = [worker EXCEPT ![w] = [step |-> "settle", batch |-> b, queue |-> FALSE,
                                                 generation |-> batches[b].generation]]
             /\ UNCHANGED <<folder, events, batches, scans>>
    /\ UNCHANGED <<nativeVars, spent>>

(* lockMonitoringBatch: the generation, a live lease and the revision the
   batch was made under, on a root that still watches. *)
\* Seeded fault: the generation is not compared.
OwnsAnyGeneration(w) ==
    LET batch == batches[worker[w].batch]
    IN  /\ batch.status = "PROCESSING" /\ batch.live
        /\ folder[batch.root].watching /\ batch.revision = folder[batch.root].revision
Owns(w) ==
    LET batch == batches[worker[w].batch]
    IN  /\ batch.status = "PROCESSING" /\ batch.live /\ batch.generation = worker[w].generation
        /\ folder[batch.root].watching /\ batch.revision = folder[batch.root].revision

(* A ScanSession as it is created. *)
NewScan(r, batch) ==
    [root |-> r, status |-> "SCANNING", batch |-> batch, revision |-> folder[r].revision, seen |-> None,
     hints |-> {}, unread |-> {}, rows |-> "none", done |-> FALSE, reopened |-> FALSE]

(* runMonitoringSnapshot: a batch that had no scan when it was claimed gets
   one, with its command, in one transaction; the worker returns. *)
CreateScan(w) ==
    LET b == worker[w].batch
    IN  /\ worker[w].step = "create" /\ Owns(w)
        /\ scans' = Append(scans, NewScan(batches[b].root, b))
        /\ batches' = [batches EXCEPT ![b].scan = Len(scans) + 1]
        /\ worker' = [worker EXCEPT ![w] = Idle]
        /\ UNCHANGED <<nativeVars, folder, events, spent>>

(* finishMonitoringSnapshot, first transaction: every event the batch still
   processes is settled by the inventory of its scan. *)
Outcome(c, s) ==
    IF scans[s].status = "FAILED" \/ c[2] \in scans[s].unread THEN "NEEDS_ATTENTION" ELSE "COMPLETED"

Settle(w) ==
    LET b == worker[w].batch
        s == batches[b].scan
    IN  /\ worker[w].step = "settle" /\ Owns(w)
        /\ \/ /\ scans[s].status \in ActiveStatuses
              /\ worker' = [worker EXCEPT ![w] = Idle]
              /\ UNCHANGED events
           \/ /\ scans[s].status \notin ActiveStatuses
              /\ events' = [c \in Changes |-> IF events[c] = [status |-> "PROCESSING", batch |-> b]
                                              THEN [events[c] EXCEPT !.status = Outcome(c, s)]
                                              ELSE events[c]]
              /\ worker' = [worker EXCEPT ![w].step = "finalize"]
        /\ UNCHANGED <<nativeVars, folder, batches, scans, spent>>

(* finalizeMonitoringBatch, a transaction of its own. *)
Finalize(w) ==
    LET b == worker[w].batch
        failed == \E c \in Changes : events[c] = [status |-> "NEEDS_ATTENTION", batch |-> b]
    IN  /\ worker[w].step = "finalize" /\ Owns(w)
        /\ batches' = [batches EXCEPT ![b].live = FALSE,
                         ![b].status = IF failed THEN "COMPLETED_WITH_ERRORS" ELSE "READY_FOR_REVIEW"]
        /\ worker' = [worker EXCEPT ![w] = Idle]
        /\ UNCHANGED <<nativeVars, folder, events, scans, spent>>

(* The ownership check fails.  processMonitoringQueue then ends the lease if
   the generation is still its own; a recovery does nothing. *)
Disowned(w) ==
    LET b == worker[w].batch
    IN  /\ worker[w] # Idle /\ ~Owns(w)
        /\ batches' = IF worker[w].queue /\ batches[b].generation = worker[w].generation
                         /\ batches[b].status = "PROCESSING"
                      THEN [batches EXCEPT ![b].live = FALSE] ELSE batches
        /\ worker' = [worker EXCEPT ![w] = Idle]
        /\ UNCHANGED <<nativeVars, folder, events, scans, spent>>

(* The server process dies, or a transaction fails for good. *)
Die(w) ==
    /\ worker[w] # Idle /\ Fault
    /\ worker' = [worker EXCEPT ![w] = Idle]
    /\ UNCHANGED <<nativeVars, folder, events, batches, scans>>

Held(b) == \E w \in Workers : worker[w].batch = b /\ worker[w].generation = batches[b].generation

(* Ten minutes pass: always possible for a batch nobody works on, a fault
   when its worker stalls that long. *)
LeaseExpires(b) ==
    /\ batches[b].live /\ ~Held(b)
    /\ batches' = [batches EXCEPT ![b].live = FALSE]
    /\ UNCHANGED <<nativeVars, folder, events, scans, worker, spent>>

Stall(b) ==
    /\ batches[b].live /\ Held(b) /\ Fault
    /\ batches' = [batches EXCEPT ![b].live = FALSE]
    /\ UNCHANGED <<nativeVars, folder, events, scans, worker>>

-----------------------------------------------------------------------------
(* Scans, in the detail this module needs (modules InventoryScan and
   ScanProcessing have the rest). *)

(* A person scans the folder: not part of any batch. *)
PersonScan(r) ==
    /\ Len(scans) < MaxScans /\ ActiveScans(r, scans) = {}
    /\ scans' = Append(scans, NewScan(r, None))
    /\ UNCHANGED <<nativeVars, folder, events, batches, worker, spent>>

(* The Bridge executes the command: the inventory, then the root's outbox.
   A RECONCILE_LIBRARY report carries both.  The command outlives a session
   that was reopened meanwhile. *)
Discover(s) ==
    /\ scans[s].status # "FAILED" /\ scans[s].seen = None
    /\ LET r == scans[s].root
       IN  scans' = [scans EXCEPT ![s].seen = disk[r],
                       ![s].hints = IF scans[s].batch = None THEN {}
                                    ELSE {c \in EventsIn(outbox) : c[1] = r}]
    /\ UNCHANGED <<nativeVars, folder, events, batches, worker, spent>>

(* importRemoteBridgeScanReport ingests the hints first, in a transaction of
   its own and whatever the session's status: they stay when the import after
   it is refused. *)
IngestHints(s) ==
    /\ scans[s].hints # {} /\ Admitted(scans[s].hints)
    /\ events' = Enqueued(scans[s].hints)
    /\ scans' = [scans EXCEPT ![s].hints = {}]
    /\ UNCHANGED <<nativeVars, folder, batches, worker, spent>>

(* The rows of the inventory are imported under the revision its command was
   made for, in transactions that each require a session that still waits for
   them: pages of files, and last the session, which starts the reading.  An
   empty inventory has no page. *)
Importable(s) ==
    /\ scans[s].status = "SCANNING" /\ scans[s].seen # None /\ scans[s].hints = {}
    /\ scans[s].revision = folder[scans[s].root].revision

ImportPage(s) ==
    /\ Importable(s) /\ scans[s].rows = "none"
    /\ scans' = [scans EXCEPT ![s].rows = "part"]
    /\ UNCHANGED <<nativeVars, folder, events, batches, worker, spent>>

ImportScan(s) ==
    /\ Importable(s)
    /\ scans' = [scans EXCEPT ![s].status = "READING", ![s].rows = "whole"]
    /\ UNCHANGED <<nativeVars, folder, events, batches, worker, spent>>

(* Processing ends; the file of the newest change may have stayed unread. *)
CompleteScan(s) ==
    /\ scans[s].status = "READING"
    /\ \E unread \in {{}, {n \in 1..MaxChanges : n = scans[s].seen}} :
          scans' = [scans EXCEPT ![s].status = "COMPLETED", ![s].unread = unread, ![s].done = TRUE]
    /\ UNCHANGED <<nativeVars, folder, events, batches, worker, spent>>

(* The command fails, or its inventory is superseded: a report that is sent
   again then fails a completed session too. *)
FailScan(s) ==
    /\ scans[s].status # "FAILED" /\ Fault
    /\ scans' = [scans EXCEPT ![s].status = "FAILED", ![s].hints = {}]
    /\ UNCHANGED <<nativeVars, folder, events, batches, worker>>

(* A person has one of its files read again (markRetryQueued), or its
   recommendations made again (claimBatch): the session is at work again, in
   whatever state it was.  The retry needs the row of a file; the other takes
   a session without files to read, even one that still waits for its
   inventory.  Neither looks at the batch or at the import: a session that
   leaves SCANNING takes no further page. *)
Reopen(s) ==
    /\ scans[s].status # "READING" /\ (scans[s].status = "FAILED" => scans[s].rows # "none")
    /\ Switch
    /\ scans' = [scans EXCEPT ![s].status = "READING", ![s].reopened = TRUE]
    /\ UNCHANGED <<nativeVars, folder, events, batches, worker>>

-----------------------------------------------------------------------------
WorkerNext(w) ==
    \/ \E r \in Roots : ProcessQueue(w, r) \/ Recover(w, r)
    \/ CreateScan(w) \/ Settle(w) \/ Finalize(w) \/ Disowned(w) \/ Die(w)

ScanNext(s) ==
    \/ Discover(s) \/ IngestHints(s) \/ ImportPage(s) \/ ImportScan(s)
    \/ CompleteScan(s) \/ FailScan(s) \/ Reopen(s)

MonitoringNext ==
    \/ \E r \in Roots : Change(r) \/ SwitchWatcher(r) \/ SyncFolder(r) \/ Reconnect(r) \/ PersonScan(r)
    \/ Deliver \/ AcknowledgeEvents \/ LoseReply
    \/ \E w \in Workers : WorkerNext(w)
    \/ \E b \in DOMAIN batches : LeaseExpires(b) \/ Stall(b)
    \/ \E s \in DOMAIN scans : ScanNext(s)

MonitoringSpec == MonitoringInit /\ [][MonitoringNext]_monitoringVars

-----------------------------------------------------------------------------
(* An event is completed only when processing ended on a scan of its root
   whose whole inventory was discovered after the change: events are hints, and
   the scan of a batch that was reclaimed, requeued or retried must still be a
   fresh one (finishMonitoringSnapshot, claimMonitoringRoot).  The one other
   scan that completes an event is one that was reopened in the middle of its
   import. *)
Reconciles(s, c) ==
    /\ scans[s].root = c[1] /\ scans[s].done
    /\ scans[s].rows = "whole" /\ scans[s].seen >= c[2]
CutShort(s, c) ==
    scans[s].root = c[1] /\ scans[s].done /\ scans[s].rows # "whole" /\ scans[s].reopened

EventsReconciled ==
    \A c \in Changes : events[c].status = "COMPLETED" =>
        \E s \in DOMAIN scans : Reconciles(s, c) \/ CutShort(s, c)

(* A scan that a batch created and that is still active is the scan of a
   batch that is still processing, unless a person reopened it.  An active scan
   without an owner blocks every later claim of its root, and nothing settles
   it. *)
ScansOwned ==
    \A s \in DOMAIN scans :
        scans[s].status \in ActiveStatuses /\ scans[s].batch # None /\ ~scans[s].reopened =>
            /\ batches[scans[s].batch].status = "PROCESSING"
            /\ batches[scans[s].batch].scan = s

(* A root has one processing batch, and an event that is being processed
   belongs to it: neither reconnections nor late workers leave an event in a
   batch that nobody will settle. *)
EventsHeld ==
    /\ \A r \in Roots : Cardinality(Processing(r)) <= 1
    /\ \A c \in Changes : events[c].status = "PROCESSING" => events[c].batch \in Processing(c[1])

(* What a batch holds, its scan and its events, has an owner that settles it. *)
WorkOwned == ScansOwned /\ EventsHeld

(* A hint the watcher gave stays in the outbox until the cloud has its row,
   whatever is lost on the way; only a full outbox drops one, and only an
   ignored path has no row. *)
HintsKept ==
    \A c \in hinted : c \in EventsIn(outbox) \/ events[c].status # "NONE" \/ c[2] \in Ignored

(* No change the watcher saw is lost on its way from the outbox to a processed
   inventory. *)
ChangesAccounted == HintsKept /\ EventsReconciled

(* A completed event is never processed again: duplicates of its delivery,
   a batch closed between settlement and finalization, and retries leave it
   as it is. *)
SettledKept ==
    [][\A c \in Changes : events[c].status = "COMPLETED" => events'[c].status = "COMPLETED"]_monitoringVars
=============================================================================
