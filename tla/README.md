# A verification project for NSN Librarian

NSN Librarian is a web application (a *cloud coordinator* over PostgreSQL) that
catalogues a person's files and proposes how to organise them, and a native
*Bridge* (an Electron process on the person's Mac) that alone touches the disk.
Approved plans travel to the Bridge as signed commands; the Bridge moves files
and creates folders under its own write-ahead journals and reports what it did.
This directory holds TLA+ models of that system, the TLC configurations that
check them and TLAPS proofs about them. Paths below are relative to the
repository.

## 1. Inventory

| Component | State | Operations | Hard part | What makes it correct |
| --- | --- | --- | --- | --- |
| Action journal, moves (`bridge-app/src/filesystem/physical-journal.ts`, `safe-move.ts`) | one JSON journal per action (INTENT, LINKED, COMPLETED, capture), the directory entries | `journaledMove`, `recoverMove`, `removeOwnedSource` | crash between any two calls; editors and sync agents touching the same names | no file loses its last name; "no effect" is true; a completed journal is an exact move |
| Action journal, folders (same file) | creation and removal journals, private container | `journaledCreateFolder`, `journaledRemoveFolder`, `finishDirectoryRemoval`, `exposeForeignCapturedDirectory` | the same, plus directories replaced under the name | nothing with content is removed; a removal is proved before it is reported |
| Command delivery (`apps/bridge/src/main/command-runner.ts`, `command-journal.ts`, `command-outbox.ts`; `src/lib/bridge/cloud-coordinator.ts`, `command-lifecycle.ts`, `recoverable-commands.ts`) | `BridgeCommand` row, run outcome, native command journal, report outbox, replay-key cache | poll, acknowledge, execute or recover, report, archive; expire, disconnect, reconnect, revoke | lost requests and answers, crash between durable writes, authority withdrawn in flight | at most one execution; first outcome kept; a change is eventually reported |
| Execution and Undo runs (`executor.ts`, `remote-execution.ts`, `local-physical-recovery.ts`, `undo.ts`, `remote-undo.ts`) | run, action rows, admission markers | claim, run an action, apply a report, recover | two recoveries of one action; partial completion; replayed reports | counts match actions; completed actions are never repeated or lost |
| Reconciliation (`execution-reconciliation.ts`) | `physicalInventoryGeneration`, run's reconciliation owner | require, bind, adopt, complete | an inventory older than an outcome becoming current | completed only by an inventory younger than every outcome |
| Scans (`remote-scan-queue.ts`, `scan-sessions.ts`, `scanner.ts`) | session status, generation, inventory hash, rows | queue, discover, import pages, replay, fail | a report delivered twice, an import that dies between pages | an imported session holds one whole inventory |
| Temporary reads, observations, recommendation batches (`remote-read-commands.ts`, `scanned-file-observations.ts`, `observation-recovery.ts`, `scan-recommendation-batch.ts`) | per-file claims, batch generation and lease, suggestions | claim, renew, reclaim, commit, regenerate | a worker that outlives its claim or lease, a claim left behind | only the current owner commits; what a person invalidated does not come back |
| Publication and Search (`scan-publication.ts`, `search-index.ts`, `search-backfill.ts`) | stage statuses with stamps, document signals, search entry, backfill rows | publish, fail, invalidate, prepare, settle | late failures, decisions during a stage, newer scans, sessions that are reopened and complete again | what is COMPLETED shows every decision it owes; an older scan never takes the entry |
| Observation review and Memory (`observation-sessions.ts`, `memory.ts`) | ordered decisions, pending markers, manifests of entries | decide, rebuild, backfill | a rebuild racing a newer decision; a backfill that attaches what it read earlier; sources that are not current | Memory rests on all its sources and on what they still say |
| Connected roots (`registry.ts`, `watcher.ts` of the Bridge; `device-root-sync.ts`, `connected-libraries.ts`, `remote-monitoring.ts`) | registry record, watcher handle, row, commands, syncs on the way | select, grant, watch, disconnect, sync, report | two copies of one truth, updated by messages in any order | the row agrees with what was synchronised; a denial holds |
| Monitoring (`monitor.ts`, `monitoring-authority.ts`, `event-outbox.ts`) | outbox file, event rows, batches with generation, lease and revision | queue, deliver, acknowledge, claim, settle, finalize, recover | lost replies, full outbox, ignored paths, late workers, reconnection, sessions reopened under a batch | a hint is kept until stored, and completed only by a fresh inventory |
| Pairing, plans, knowledge graph, Ask, notebook, updates, views | see `PROJECT.json` | | | |

Interaction. The cloud never calls the Bridge: the Bridge polls (heartbeat, then
the command route), and everything it learns or reports is a request that may be
lost or answered late. Inside the Bridge one poll runs at a time; each durable
write is an atomic file replacement (`writeLocalJson`: temporary file, fsync,
rename), so a crash leaves either the old or the new file. The physical command's
journal answers "was this started?", each action's journal answers "what happened
on disk?", the outbox answers "what is still to be said?".

## 2. Modules

| Module | Models | Lines of code behind it |
| --- | --- | --- |
| `MoveJournal` | one journaled file move | `physical-journal.ts` 9-105, `safe-move.ts`, the action loop and settlement of `operations.ts` |
| `MoveJournalProofs` | inductive invariant and theorems of `MoveJournal` | |
| `FolderJournal` | one folder creation and its Undo | `physical-journal.ts` 106-264 |
| `FolderJournalProofs` | inductive invariant and theorems of `FolderJournal` | |
| `CommandContract` | what command delivery promises | abstract specification |
| `CommandDelivery` | native poll, command journal, outbox, cloud routes | see the header of the module |
| `CommandDeliveryProofs` | inductive invariant and theorems of `CommandDelivery`, the refinement of `CommandContract` included | |
| `PhysicalRun` | execution and Undo runs of a local root: admission, ownership of an action, publication, settlement, recovery | `executor.ts`, `plan-execution-authority.ts`, `undo.ts`, `local-physical-recovery.ts`, `physical-result-authority.ts`, `execution-reconciliation.ts` 12-34 |
| `PhysicalRunProofs` | inductive invariant and theorems of `PhysicalRun` | |
| `InventoryScan` | how a full inventory becomes current and how outcomes are reconciled against it | `execution-reconciliation.ts`, `remote-scan-queue.ts`, `scan-sessions.ts`, `scanner.ts`, `scan-publication-lock.ts` |
| `InventoryScanProofs` | inductive invariant and theorems of `InventoryScan` | |
| `OwnedWork` | what a claim on a row promises | abstract specification |
| `ScanProcessing` | reads, observations and recommendation batches of one imported scan | `remote-read-commands.ts`, `cloud-command-results.ts`, `scanned-file-observations.ts`, `local-read-authority.ts`, `observation-recovery.ts`, `scan-recommendation-batch.ts`, `organization-suggestions.ts`, `processing-pipeline.ts` |
| `Publication` | Knowledge and Search stages, their invalidation, reopened sessions, the Search backfill | `scan-publication.ts`, `persistent-knowledge.ts`, `search-index.ts`, `search-backfill.ts` |
| `PublicationProofs` | inductive invariant and theorems of `Publication` | |
| `Memory` | one memory entry, its sources and the decisions about them | `memory.ts`, `memory-recovery.ts`, `memory-provenance.ts`, `observation-sessions.ts` |
| `ObservationProofs` | inductive invariants and theorems of `Memory` and of `ScanProcessing` | |
| `RootLifecycle` | one folder in the Bridge's registry and in its cloud row | `registry.ts`, `watcher.ts`, `electron-main.ts`, `device-root-sync.ts`, `connected-libraries.ts`, `remote-monitoring.ts` |
| `Monitoring` | watcher hints of a paired Mac and the batches that reconcile them | `event-outbox.ts`, `watcher.ts`, `monitor.ts`, `monitoring-authority.ts`, and of `remote-scan-queue.ts` and `remote-read-commands.ts` the import and the reopening of a session |
| `FolderProofs` | inductive invariants and theorems of `RootLifecycle` and of `Monitoring` | |
| `MC...` | model values for TLC | |

### MoveJournal

State: the two public names, the bytes behind each inode, the private capture
directories, the durable journal, and the volatile position of the running call
(`pc`, with what it has read so far: `seen`, `cap`, `sawSource`). One action per
filesystem call or journal write: `Identify` (`physicalFileIdentity`),
`WriteIntent`, `Link` (exclusive), `VerifyDestination`, `WriteLinked`,
`MakeCapture` (`mkdtemp`), `WriteCaptureIntent`, `VerifySource`, `Rename`,
`VerifyCaptured`, `Unlink`, `RemoveCapture`, `StatDestination`, `WriteCompleted`;
recovery is `StatSource` to `RecoverRmdir`. `ExecuteAction` is a live attempt,
`RecoverAction` the historical recovery of a command poll; `Fail` is the
settlement of an exception (`settleFailedPhysicalAction`). `ReplaceName`,
`DeleteName`, `WriteInPlace` are other programs, limited to `MaxInterference`.
A checksum is a model value: two files have the same content iff they have the
same checksum. Inode numbers are reused.

### FolderJournal

State: the directory under one public name, the items of each directory, the
private containers, the creation and the removal journal. `ExecuteRemove` (Undo)
is offered once the creation was reported COMPLETED, as the Undo planner does.
`ExposeStat` to `ExposeCopy` are the copying back of a foreign directory that the
rename captured; the items are copied one by one and other programs may act
between two copies.

### CommandDelivery and CommandContract

State: for each command its cloud row and recorded outcome, the native journal
phase, its outbox entry, the replay cache, and the status of its folded action
("none", "journaled", "done"); plus the variables of the running poll. A request
has three deliveries: lost, carried out but unanswered, answered. `authority`
covers the root and the device: "root" is a root that was disconnected or
reconnected under a newer revision (commands of the old revision are then
refused), "revoked" is a revoked device. It only gets worse, since a new
authority is a new command's. Commands are processed in any order within a poll,
which covers the code's order.

`CommandContract` is the abstract specification: admit at most one effect of a
command, finish it, settle once with the matching verdict, withdraw only what has
no effect. A command may still be admitted and finished after it was settled
without effect, because a crash between the delivery of that report and the
archiving of the journal leaves it to recovery (`command-runner.ts:575`, section
5); never after a withdrawal, and never a second time. `CommandDelivery` implements
the contract under the mapping `effect <- act`, `settled <- Settled`: run
`CommandDelivery_crash` checks it with crashes and losses, and
`DeliveryImplementsContract` proves it.

### PhysicalRun

State: the runs (`base` tells an execution from an Undo of it), their rows with
status and admission marker (`mark`: `PREPARED`, the request that is the STARTED
owner, or neither), the plan's compare-and-set stamp, the root row with its grant,
connection revision and inventory generation, the journals and the places on
disk, and for every request (`Workers`) the variables it carries from one
transaction to the next. `LoadPlan`/`StartExecution` and `PreviewUndo`/`StartUndo`
are the two halves of admission, between which anything may happen. Each action of
`executeLocalPhysicalRun` is `Claim` (the first transaction), one of the four
`Enter...` steps (the checks of the second one), `Attempt`, `Settle` or
`SettleUnanswered` (the loopback answer, or none), `Publish`; `Finish` settles the
run. `lock` is the root row: the second transaction keeps it from `Enter` to
`Publish`, and `Timeout` is its expiry after 120 seconds, which the filesystem call
does not notice. `RecoverRun` is the recovery a page view starts. A filesystem
operation is one step whose results (`Effects`) are those `MoveJournal` and
`FolderJournal` can leave, a crash in the middle included; `Recovered` is what
their recovery answers for each. `LegacyRun` is a run of a deployment that had no
markers and no journals. `Crash` ends a request between two steps. The loopback call
outlives its request (`local-bridge-client.ts:549-569`), so a request may also die
before the effect it asked for: that is `Timeout`, `Attempt`, `Crash`.

### OwnedWork

The abstract specification of the two claims by which requests divide files among
themselves. A worker takes an item that nobody holds or whose holder is late, makes
one result of it in the step that gives it up, or gives it up without. An item can
be taken over from a holder that is merely slow: the worker then believes in an item
it lost (`belief`), and `Lose` is all it can still do with it. A worker may die, or
end without giving its item back; the claim then stays, as `Orphan`, until its time is
over. What the contract excludes is a takeover before the time, a claim given up by
somebody else, a result of one that lost its claim, and two results of one item.

| `OwnedWork` | `ScanProcessing` (observation claims) | `Publication` (backfill claims) |
| --- | --- | --- |
| `holder` | `observationClaimedAt`, by the request that set it | the owner of a PROCESSING row while it works on it |
| `belief` | the file of a request between claim and observation | the scan of a preparation between claim and outcome |
| `product` | live observations of the file | 1 for INDEXED |
| `Take` | `ClaimObservation`, `ProcessNext`, `ObserveFile`, `ClaimAsked` | `ClaimFile` |
| `Make` | `CommitObservation` | `SaveRow` of an INDEXED row |
| `Release` | a reused observation, `ReadAsked`, `ObservationFails`, `Released` | `SaveRow` of a FAILED row |
| `Lose` | `StoreRead`, `ReuseRead`, `ObservationRefused` without the claim | `SaveRow` without the claim |
| `Lapse` | `ClaimExpires` | `ExpireClaim` |
| `Die` | `WorkerDies`; `ReuseRead` and `ObservationRefused` that leave their claim (`Left`) | `WorkerDies` |
| `Clear` | `RecoverAbandoned` | none: the next preparation takes it |
| `Discard` | `RejectObservation` | none |

Both claims are one compare-and-set on the row, but observations check theirs in the
transactions that write the file (`withOwnedObservationLease`) and the backfill only
when it saves the outcome: the search entry itself is protected by the scan's lock
(`EntryKept`), not by the claim. The lease of a monitoring batch does not
implement this contract: the generation of a batch is kept by the worker that
recovers it.

### InventoryScan

State: the root row (connection revision, readability, inventory generation), the
disk as a set of files and a count of authorised effects, the filesystem work and
the reconciliation of each run, the scan sessions with the inventory that owns
them (`hash`), the rows stored so far and the count of effects their discovery saw
(`seen`), the scan commands, and for every request what it carries between
transactions. `AdmitRun` to `PublishOutcome` are what `PhysicalRun` models in
detail. A remote scan is `QueueScan`, `Discover`, `Deliver`, then one step per
transaction of `importRemoteBridgeScanReport`: `ClaimInventory`, `StorePage` (one
page of rows), `StoreMedia`, `FinishImport`, `CloseCommand`, or `ReplayImport`,
`ImportSuperseded`, `ImportRefused`. A local scan is `StartLocalScan`, `Walk`,
`ImportLocal`. Recovery is `SelectRun`, the four `Admit...` branches, `Inspect` and
`CompleteReconciliation`. `imported` is a history variable: see the observations on
`RetryRead`.

### ScanProcessing

State: per file its stage, observation claim, number of live observations and the
batch that made the suggestions it has (`rec`); the session with the generation and
the lease of its batch; the read commands. A claim names the worker that took it, and
the claim of a worker that died or ended without giving it back is `Orphan`. Reports,
expiries, retries, the observe route and recovery each start a worker, whose steps are
the transactions of the code; `ClaimExpires` and `LeaseExpires` may strike a worker
that is still alive. Claiming a file and looking at its observation are one step.

Which requests give a claim back differs. A report of a paired Mac does when its text
cannot be stored or observed (`Released`), and does not when the observation it meant
to reuse is gone (`ReuseRead`, `cloud-command-results.ts:742-759`). The request that
processes a local folder marks its file FAILED under the claim, and when that is
refused swallows the error and leaves the claim (`Left`,
`processing-pipeline.ts:145-150`). A person who asks for one file has two claims, one
for reading, which is given back either way, and one for observing (`ObserveFile`,
`ReadAsked`, `ClaimAsked`).

`RecommendFile` keeps the suggestions a file has (`Suggested`,
`organization-suggestions.ts:3083-3114`): after a takeover or a second run the
suggestions of a session come from several batches. Only a person invalidates them,
by `Regenerate` on a paired Mac and `RegenerateLocal` elsewhere. `session.cut` is the
last batch before that, and `SuggestionsCurrent` says that nothing older comes back.
A file has suggestions or has none: those of the checksum bootstrap or of an older
generation, which a batch does replace, count as none, and those a person decided as
suggestions like others.

### Publication

One root and one file that every scan finds. Texts are named by the decisions they
were made from, so that "the stage shows the decision" is a comparison of numbers.
A stage is a serializable transaction: `BeginSearch` and the first Knowledge step
take the snapshot, `CommitStage` writes unless a row it writes was written since
(`touched`), `AbortStage` is the conflict, `RecordFailure` the transaction after it.
`MarkPreparing` to `SettleBackfill` are the Search preparation, file by file, with
claims that expire. A late claim that nobody took over may still be saved, as in the
code, and whether a preparation also takes FAILED rows is its caller's choice.
`SaveDecision` and `ReviewIdentity` are the person. The refresh after a review of an
identity rewrites the entity hashes of the current entry and nothing else of it
(`Projected`).

A session that is done can be opened again (`ReopenScan`): by a read retry
(`remote-read-commands.ts:441-471`), or by a batch that is run once more, which a poll
does by itself when a file has no current suggestion
(`scan-recommendation-batch.ts:243-260`). Its stages keep their words, but it is not
done, so `Latest` may go back to an older scan, whose work then runs beside what is
left of the newer one's. `CompleteScan` is the completion for the first time or again,
and both stages become pending. What a scan owes is therefore kept per scan
(`history`, which nothing of the code reads): the latest decisions that found it the
current snapshot, and whether its file was indexed since it last completed.

### Memory

One memory key and the observations whose text may support it. `Decide` is the
transaction of a decision with its `PENDING@decision` mark; `BuildMemory` is one
serializable build (collect the approved sessions, reconcile corrected text, attach
sources, upsert, settle the mark), `BuildFails` its deferred retry. The repair of
historical manifests is two steps, since the code reads the reviewed text before its
transaction and does not look at it again in it: `FindSource` finds the one source of
an entry, `AttachFound` attaches it, and `DismissEntry` marks an entry of another
shape. A decision between the two leaves `found` STALE, and `overtaken` remembers
what was attached all the same, until the next build of that observation.
`ChangeSource` makes the file of an observation current or not.

### RootLifecycle

The Bridge is one process whose handlers interleave at every `await`; a handler is
the sequence of steps it has still to take, and the poll and the window each run
one. `SendSync` copies the registry's record; syncs and reports are delivered in any
order, a sync may be lost. `DeliverSync` is the whole of `syncBridgeDeviceRoots` for
the root: retirement of read work, staleness by revision and `updatedAt`, the
denial that an old connection cannot lift. `Deny` is disconnection or hiding on the
web, with the REVOKE command it queues. The settings route of this computer, which
sets the status of a library without a native connection
(`connected-libraries.ts:1571-1592`), is not modelled: it lifts a denial at the
revision it was made under, on an explicit request over the loopback interface.

### Monitoring

A change of a root's disk is also the identity of its event. The outbox file is a set
of events, each with its place in the file, and keeps the newest `OutboxLimit` of
them; `Deliver` stores the oldest and `AcknowledgeEvents` removes what the reply
names, unless `LoseReply` intervenes. An event of a path the cloud ignores is accepted
with the others and gets no row (`Ignored`, `monitor.ts:1269-1272`). `Claim` is all of
`claimMonitoringRoot` but the branch `Reclaim`: it closes a batch of an older
connection, queues its unsettled events again and makes a new batch. `CreateScan`,
`Settle` and `Finalize` are the worker's later transactions, each behind
`lockMonitoringBatch` (`Owns`). `Stall` lets a lease end under a working owner.
The scan of a batch is modelled as far as what its inventory saw and how much of it
has rows: `ImportPage` and `ImportScan` each require a session that still waits for
its inventory, and `Reopen` sets a session to READING whatever it was, in the middle
of its import, after its completion, or after its batch was closed. `Reopen` is also
the recommendations a person asks for of a session without files, which
`scan-recommendation-batch.ts:26-31` lets a batch complete while it is SCANNING.
`ScansRetired` is what a reconnection fails.

How the modules fit. `PhysicalRun` takes the outcomes of `MoveJournal` and
`FolderJournal` as the results of one filesystem operation; `InventoryScan` takes a
run as "running, effect, published", which `OutcomePublished` of `PhysicalRun`
justifies; `ScanProcessing` and `Publication` start from the imported and the
completed scan of `InventoryScan`; `Monitoring` takes the watcher's row from
`RootLifecycle` and scans from `InventoryScan`. `CommandDelivery` carries the
commands all of them queue.

## 3. Runs

| Run | Bounds | Shows |
| --- | --- | --- |
| `MoveJournal_race` | 3 inodes, 2 checksums, 2 live attempts, 2 crashes, 2 interferences, fair recovery | `TypeOK`, `NoEffectTruthful`, `JournalExact`, `LastNameKept`, `OwnedCaptureFinished` |
| `FolderJournal_race` | 3 directories, 1 item, 2 attempts, 2 crashes, 3 interferences | `TypeOK`, `JournalTruthful`, `ContentSafe` |
| `CommandDelivery_crash` | 1 physical and 1 control command, 2 crashes, 2 lost requests, fair polls | `TypeOK`, `EffectOnce`, `OutcomeProven`, `ChangeReported`, `ImplementsContract` |
| `PhysicalRun_race` | a folder and a file, 2 requests, 3 runs; a crash, an expiry, a change of the grant, a removed file: any two of them with two runs, one with three (`FewFaults`) | `TypeOK`, `RunTruthful`, `BegunOnce`, `OutcomePublished`, `RunDisciplined` |
| `InventoryScan_reconcile` | 1 run with its Undo, 2 requests, 4 scans, 1 event, 1 changed file | `TypeOK`, `InventoryFresh`, `ReconciledAfterOutcome`, `InventoryWhole` |
| `ScanProcessing_race` | 2 files, 2 workers, 2 faults, 2 requests of a person | `TypeOK`, `BatchCoherent`, `ImplementsOwnedWork` |
| `Publication_review` | 2 workers, 2 scans; a decision or a review; a fault, a physical run, a change of the grant or a reopened scan; with one of each, the newer of two scans is not prepared file by file (`FewEvents`) | `TypeOK`, `DerivedCurrent`, `CompletionKept`, `EntryKept`, `ImplementsOwnedWork` |
| `Memory_review` | 3 observations, 4 decisions, 2 incidents | `MemoryTypeOK`, `ManifestSound`, `SupportKept` |
| `RootLifecycle_sync` | 2 selections, 2 commands, 1 event, 2 syncs on the way | `TypeOK`, `SyncedAgrees`, `DenialHolds` |
| `Monitoring_batch` | 1 root, 2 workers, outbox of 2, deliveries of 2, 3 changes of which the first is of an ignored path, 2 batches, 1 switch (a pause, a reconnection or a reopened scan) and 1 fault, or a scan of a person (`FewEvents`) | `MonitoringTypeOK`, `ChangesAccounted`, `WorkOwned`, `SettledKept` |
| `RootLifecycle_revived` | 2 selections, 1 command, 1 sync on the way | `ReconnectedAfterDenial` is violated (section 5) |
| `Memory_backfill` | 2 observations, 3 decisions | `CorrectionsReconciled` is violated (section 5) |

Several properties are conjunctions of parts that the modules name: `JournalExact`
is `CompletedExact` and `FirstCaptureRecorded`; `JournalTruthful` is
`RemovalProven`, `NoEffectTruthful` and `CaptureRecorded` of folders; `EffectOnce` is
`AtMostOnce` and `WithdrawnUntouched`; `OutcomeProven` is `ChangeProven` and
`ArchivedAfterSettled`; `RunTruthful`, `OutcomePublished` and `RunDisciplined` gather
`RowsTruthful`, `HistoryMatchesDisk`, `GenerationExact`, `ObligationKept`,
`InSequence`, `RestoredOnce` and `ChangedUnderGrant`; `DerivedCurrent` is
`KnowledgeCurrent`, `SearchCurrent` and `SearchFresh`; `BatchCoherent` is
`SuggestionsCurrent` and `BatchUndisturbed`; `ManifestSound` is
`CorrectionsReconciledButOvertaken` and `ManifestWhole`; `WorkOwned` is `ScansOwned`
and `EventsHeld`; `ChangesAccounted` is `HintsKept` and `EventsReconciled`.
`ObservedOnce` is not checked by itself: `OwnedWork` lets an item have one result.

Why the bounds are enough. A move involves one file; the three inodes let a
foreign file appear under either name while the moved one exists, and two
interferences let another program act before and after a check. A second live
attempt is what replaces a journal, a second crash is one during recovery. For
folders the three directories are the Bridge's, a foreign one and the copy that
exposes it. Commands share only the poll, the outbox and the replay cache, so two
of them show every interaction; two losses and two crashes cover the loss of a
request and of its repetition; that two physical commands do not disturb each other
is proved, for any number of them. A local run needs two actions (one that stops the
other), two requests (the owner and a recovery), and two runs for an execution with
its Undo, three for a second Undo after a partial one. Four scans are a scan before
an outcome, one bound to its reconciliation, one after the Undo and one of a person;
two requests are an import and the recovery it races. Two workers are an owner and
the one that takes over, in all modules with leases. The second scan of
`Publication` is the newer one whose entry must stay; one reopening is enough for
it to give its place back to the first and to complete a second time. Three
observations are the corrected one, another supporter and one whose file is not
current. Two selections of a folder are a connection and a reconnection, two syncs on
the way may be swapped. An outbox of two lets one delivery hold an ignored event and
another one, and the third change pushes one out while the reply is on its way; the two
changes that are not ignored are one a batch took and one that came after it. The
safety properties of every passing run are also proved, without these bounds
(section 4).

Deadlock is checked for the two journals only, whose calls must always be able to
go on. Everywhere else the system may rightly come to rest: a revoked device stops
polling, an executed and restored plan has nothing left to do, and a behaviour that
has used its bounds stops.

Fairness. `MoveJournal!FairSpec` assumes that a running call proceeds and that
recovery is attempted again and again: the Bridge polls on a timer and recovers
every unfinished journal at each poll. `CommandDelivery!FairSpec` is weak fairness
of the poll as a whole, for the same reason; losses and crashes are finite, which
the counters `MaxLost` and `MaxCrashes` state. Nothing obliges a crash, an expiry
or another program to act. The other runs check safety and assume no fairness.

Each property is paired with a seeded fault (the operators marked *Seeded fault*),
a plausible bug of the code under which TLC finds the property violated.

## 4. What is proved

Each `...Proofs` module extends its component and proves theorems for every value of its
constants (`ObservationProofs` extends both `Memory` and `ScanProcessing`, and
`FolderProofs` both `RootLifecycle` and `Monitoring`, which is why the definitions every
specification has carry the module's name in `Memory` and `Monitoring`): every finite or
infinite set of names, commands, runs and requests, and every bound on crashes, losses,
timeouts and interference. The hypotheses are the named `ASSUME` of each module, which
state that the markers ("none", "idle", "nobody") are not members of the sets they mark,
that the bounds are naturals and, for `Memory`, `Publication` and `Monitoring`, that the
observations, workers or roots are finitely many (the models count rows, and take a
stamp nobody holds). The one theorem with a further hypothesis is `CommandOnce`.

Almost none of the properties is inductive, since each rests on what was read or
written several steps earlier. Every module therefore proves `Spec => []Inv` first
(`Invariance`, in `PhysicalRunProofs` `OutcomeInvariance`, in `ObservationProofs`
`MemoryInvariance` and `ScanInvariance`, in `FolderProofs` `Invariance` and
`MonitoringInvariance`) by an initial lemma and
one lemma per action or per kind of action, and derives the properties from it.
TLC checked these invariants on the runs above before they were proved.

| Module | Theorems | What the invariant adds |
| --- | --- | --- |
| `MoveJournalProofs` | `TypeCorrect`, `NoEffectIsTrue`, `NoFileLost`, `JournalIsExact` | for each position of the call, what was verified and not invalidated since: the identity read, the journal written, the capture in use; that nothing is linked without a journal. `JournalIsExact` adds what holds while no other program acted (`QuietInv`) and while one live attempt ran (`FirstInv`) |
| `FolderJournalProofs` | `TypeCorrect`, `JournalIsTruthful`, `ContentIsSafe` | which state of each journal every step finds, and that a container is recorded before a directory is captured into it and LINKED before it is removed |
| `CommandDeliveryProofs` | `TypeCorrect`, `PhysicalOnce`, `CommandOnce`, `ReportedIsProven`, `DeliveryImplementsContract` | which row, journal phase, action journal, outbox entry and poll position can occur together; that a queued report says what the action journal says; that what a poll fetched is what it may still begin |
| `PhysicalRunProofs` | `TypeCorrect`, `OperationBegunOnce`, `RunIsTruthful`, `OutcomeIsPublished`, `RunIsDisciplined` | see below |
| `InventoryScanProofs` | `TypeCorrect`, `InventoryIsFresh`, `ReconciledIsAfterOutcome`, `InventoryIsWhole` | everything discovered under the current generation, in a report, a request or a session, saw every effect unless one waits for its publication (`SeenInv`); the request that claimed a session imports its owner's inventory (`ImportInv`); a completed reconciliation names a scan that no longer waits for an inventory and saw the last effect of the run and its Undo (`ReconInv`) |
| `PublicationProofs` | `TypeCorrect`, `DerivedIsCurrent`, `CompletionIsKept`, `EntryIsKept`, `PreparationImplementsOwnedWork` | a COMPLETED stage shows what its scan owes whether the scan is done or open again (`ScanInv`); what a running transaction read is as new as all that is COMPLETED, no scan that is done and newer than its own has its Search COMPLETED, and it shows what its own scan owes or it will fail (`TxInv`); publication transactions exclude each other (`LockInv`); scans are in the order of their generations (`GenInv`); only a preparation claims rows (`TaskInv`) |
| `ObservationProofs`, of `Memory` | `MemoryTypeCorrect`, `ManifestIsSound`, `SupportIsKept` | a required source, with a row or without, is either still said, or has a correction that was not built yet, or was attached by a backfill that a decision overtook (`SourcesReviewed`); what a backfill read and no decision replaced is still said (`FoundSupports`) |
| `ObservationProofs`, of `ScanProcessing` | `ScanTypeCorrect`, `FileObservedOnce`, `BatchIsCoherent`, `ObservationImplementsOwnedWork` | a request that recommends has a batch of its own, no newer than the session's; the batch in preparation began after the last invalidation, and leaves no file it is done with without suggestions (`BatchInv`); all other steps leave what batches wrote alone (`Quiet`); the claim of a live request is the claim of the file it works on (`ClaimInv`) |
| `FolderProofs`, of `RootLifecycle` | `TypeCorrect`, `SyncAgrees`, `DenialIsKept` | every sync and report on the way is the registry's present record or an older version of it (`SnapshotInv`); the row is at least as new as what was applied to it and as the denial (`HistoryInv`) |
| `FolderProofs`, of `Monitoring` | `MonitoringTypeCorrect`, `HintsAreKept`, `EventsAreReconciled`, `ChangesAreAccounted`, `WorkIsOwned`, `SettledIsKept` | a root has one batch in work and its events are that batch's (`OneProcessing`); one worker at most, by its fresh generation, creates the scan of a batch (`WorkersHold`); a scan was created after the batch took its events, so its inventory, if it has one, saw their changes, and is processed only when it has all its rows or its session was reopened; no row knows of a change before it happened (`SeenSince`, `HintsTrue`) |

`PhysicalRunProofs` is the longest argument. That `Attempt` finds an unbegun row
depends on a marker written two transactions earlier, which an expired transaction
no longer protects. `OwnerInv` adds that a prepared row and a row of a run that does
not exist were never begun, that a request which still owns what it claimed has not
begun it, that a request before its filesystem call meets the row unbegun and either
still its own or settled by a recovery, and that no two requests are there for one
row. `OutcomeInv` joins to it how markers, rows and journals agree (`TableInv`), on
which row and behind which rows every request works (`WorkInv`), that Undo runs of
one execution never take up what another of them restored (`FamilyInv`), where each
file is after its execution and its Undo (`DiskInv`), and that a request before its
filesystem call holds the root row or its transaction expired (`GrantInv`).

`CommandOnce` assumes `Room`: the replay cache has a place for every command. For a
physical command the cache is not needed, and `PhysicalOnce` shows without `Room`
that it is begun at most once and never after the cloud withdrew it, from the phase
of its journal alone. A control command is protected by the cache only; with more
than 500 newer keys it would run again (`command-runner.ts:294`).

Three theorems are refinements. `DeliveryImplementsContract`: the initial states of
`CommandDelivery` are those of `CommandContract`, and every step of a poll, a route,
an expiry or a crash is a step of the contract or leaves its variables alone.
`ObservationImplementsOwnedWork` and `PreparationImplementsOwnedWork` show the same
of `OwnedWork`, one lemma per kind of step. Each needs one fact the contract does not
see. That a request which finds its claim gone holds no other file is `ClaimInv`: every
step that ends the work on a file gives the claim up, leaves it to nobody or had lost
it. A backfill row
keeps the name of its owner until it is saved, so its holder is defined by the work
itself, and what is needed is that nothing but a preparation does that work.

The proofs corrected the models in five places: `Publication` made a backfill claim
past its lease unusable at once, where the code lets its owner save the row until
somebody takes it over (`search-backfill.ts:123-128`); `CommandContract` forbade the late
execution after a settlement without effect, which the code allows; `InventoryScan`
did not say that the marker for "no inventory" differs from every inventory;
`Memory`, `Publication` and `Monitoring` did not say that the sets they count are
finite; and `Monitoring` kept its outbox as a sequence filtered with `SelectSeq`,
about which nothing can be proved without induction over the sequence, and did not
say that `None` differs from the numbers it stands beside. TLAPS
1.4.5 misreads an `@` inside a nested `EXCEPT`, so `InventoryScan` names the field
there.

Only model-checked: liveness (`OwnedCaptureFinished`, `ChangeReported`), since
fairness is out of the prover's reach; and `ReconnectedAfterDenial` and
`CorrectionsReconciled`, which are false.

## 5. Findings and observations

Two disagreements with the documents are kept as runs.

`RootLifecycle_revived`: a folder is selected again on the Mac, then disconnected on the
web; the sync of the selection arrives after the disconnection and makes the row
CONNECTED, because `syncBridgeDeviceRoots` compares revisions and not the order of the
two human actions. SYSTEM_INVARIANTS.md:47 (ROOT-2) says that a native sync cannot
revive a later human disconnection. `DenialHolds` is what does hold: a connection the
cloud knew when it was denied never lifts the denial.

`Memory_backfill`: the backfill reads the text of the one approved item of a
historical entry and opens its transaction afterwards (`memory.ts:1268`). If the person
modifies that observation and the modification is built in between, the source is
attached although its text no longer says the entry, which is then retrievable.
SYSTEM_INVARIANTS.md:7 (AUTH-1) says that MODIFY replaces the machine's meaning.
`CorrectionsReconciledButOvertaken` is what does hold: this is the only way to it.

Observed while modelling, each on a counterexample or by reading the lines named:

- `physical-journal.ts:93`: a second live attempt of an interrupted move overwrites
  the journal that records a capture still holding the first attempt's bytes
  (`JournalExact` therefore speaks of the first capture of one live attempt, and would
  not notice the second).
- `safe-move.ts:95`: the captured source is unlinked after the destination was
  verified; if another program takes the destination away in between, the moved file
  loses its last name. `LastNameKept` exempts the moved file from that moment on.
- `physical-journal.ts:118`: a directory that replaces the new one between `mkdir`
  and `lstat` counts as the Bridge's own and is removed by Undo if it is empty.
- `command-runner.ts:575`: a command settled without effect can execute after a
  crash between the delivery of its report and the archiving of its journal: the
  row then stays without effect although the disk changed. `CommandContract` allows
  it, and only it, after a settlement.
- `electron-main.ts:529`: a revoked device never sends what its outbox holds;
  `ChangeReported` excludes it.
- `local-physical-recovery.ts:178`: the transaction around a physical action expires
  while the operation runs, and the operation may change the disk after a
  disconnection; `ChangedUnderGrant` excludes expired transactions, and with them
  native calls that outlive their request.
- `remote-read-commands.ts:441`: a read retry makes a session READING whatever it
  was. If its import is unfinished, the import is refused from then on and the
  session can complete with part of its inventory; a reconciliation bound to a
  reopened session waits for it. The properties of `InventoryScan` are about sessions
  whose import was finished.
- `monitor.ts:2265`: `finishMonitoringSnapshot` looks only at the status of the session
  of its batch. After such a retry it completes the events of the batch against a part
  of the inventory. It does so without any inventory when a person asks for the
  recommendations of a session that still waits for it: no file is left to
  understand, and SCANNING is a status a recommendation batch may claim
  (`scan-recommendation-batch.ts:26-31`). SYSTEM_INVARIANTS.md:27 (CURRENT-1) excludes
  partial watcher imports from complete snapshots. `EventsReconciled` names these
  sessions (`CutShort`); every other completed event was seen by a whole inventory
  that is younger than its change.
- `search-backfill.ts:45-64`: the rows of a preparation are keyed by session, file and
  index version, and stay when the session is reopened and completes again. The next
  preparation claims nothing and sets Search COMPLETED without indexing, where
  `scan-recommendation-batch.ts:110-111` says "Reprocessing this same session cannot
  reuse an older success". `SearchFresh` is what does hold: a session without such rows
  calls its Search COMPLETED only when its file was indexed since.
- `monitor.ts:2240`: a read retry in the session of a closed batch makes it an active
  scan of the root that no batch owns, and no batch of the root can be claimed until
  the retried read is done. `ScansOwned` exempts reopened sessions.
- `processing-pipeline.ts:145-150`, `cloud-command-results.ts:742-759`: a request that
  ends with an error after it lost its authority, or after the observation it meant to
  reuse is gone, leaves its claim for ten minutes. Recovery takes only files that are
  read or examined under the present revision, so on an EXAMINED file, or after a
  reconnection, the claim keeps every batch of the session waiting until a retry takes
  it over (`scan-recommendation-batch.ts:229-239`).
- `connected-libraries.ts:1571-1592`: the local settings route sets a disconnected
  library CONNECTED at the revision it was denied under.
- `observation-recovery.ts:109-120`: the claim of a file whose session is
  already GENERATING is not recovered, although the comment above the query
  promises restart-safe recovery.
- `search-backfill.ts:129-145`: a preparation that ends after a decision
  reopened Search sets it COMPLETED with entries made before the decision;
  `SearchCurrent` excludes prepared scans. A decision taken while a physical run is
  open, or while the folder is not readable, does not reopen Search at all.
- `memory.ts:827-856`: a rebuild that replaces the text of an entry and one that
  corrects it commit separately, so the entry is retrievable in between with a
  source that no longer says it; the two properties about corrections speak of
  sources whose correction was built. `memory.ts:1081-1087`: when the
  corrected source has no row, rows of other sources that are not current are deleted.
- `registry.ts:198-290`: selecting a connected folder again resets its grants and
  leaves a running watcher running. Two overlapping starts of one folder leave a
  watcher without a handle, and the last write of `startBridgeWatcher` sets
  CONNECTED even after a disconnection in between.
- `remote-scan-queue.ts:763`: the replay of a superseded inventory marks a session
  FAILED that had already completed.
- `monitor.ts:1250-1268`: one event of a root that no longer watches makes the whole
  delivery fail, and since the outbox delivers its oldest events first, the events of
  every other root wait behind it. SYSTEM_ARCHITECTURE.md:35 calls roots independent.
- `organization-suggestions.ts:3935-3938`: resetting a decision leaves the plan
  as it is when one of its runs is open; a plan that is READY again afterwards can be
  executed though the approval it rests on was withdrawn.
- `remote-execution.ts:819-827`: a plan becomes EXECUTED while its run is still
  RUNNING; harmless as long as the Bridge handles commands in the order of issue.
- `monitor.ts:830-838`: in local mode an event's key is its content, so a file that
  changes from A to B, back, and to B again is never queued a second time; the local
  drain acknowledges events before it has stored them.

## 6. What is not modelled

In the modelled parts: signatures, payload hashes and nonces (assumed to work);
re-pairing with a new key; failures of the keychain write; several actions inside
one command; the 500-key limit of the replay cache being reached by live keys. A
lost heartbeat is a poll that does not begin. `CompletedExact` speaks of runs
without interference, since another program may move the destination away at any
time.

Of local runs: several roots and sessions; the rewriting of `ScannedFile` paths with
an outcome; the BLOCKED record a refused preview leaves, which nothing reads; and
the branch of `outcome` for roots without a native Bridge root, which no run can
reach, since executions need a Bridge root and legacy connections are disabled. A
live attempt that the Bridge refuses before it writes a journal stays PENDING for
good, and so does a signed command refused before its first action;
SYSTEM_INVARIANTS.md:138 wants started work without proof to stay uncertain.

Of scans: media metadata and progress counters. Of recommendations, observations,
Knowledge and Memory: the text (analysis, signals, terms, ranking), which is
heuristic; only who may write it and when is modelled. The route that prepares the
suggestions of one file outside a batch is left out, and the explicit
`generateScanRecommendationBatch` (`StartOwnBatch`) has no caller but tests. A read
retry or a regeneration during an unfinished import is modelled in `Monitoring` only.
Of roots: the local settings route, merging duplicates,
and two folders that share a path. Of monitoring: the unpaired mode with its
directory snapshots, and changes made while the Bridge is not running, which no
event announces.

Whole components: the web interface, the language-model prompts, file readers,
ranking and the derived views hold most of the repository's lines and have no
protocol state. `PROJECT.json` lists each with its reason.

## 7. Plan

1. An abstract specification of a batch that outlives its worker (a lease with a
   generation), which the recommendation batch of `ScanProcessing` and `Monitoring`
   could share.
2. Reports of remote runs over several actions; plan review against the execution
   claim; pairing codes and nonces; merging of duplicate roots.
