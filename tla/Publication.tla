----------------------------- MODULE Publication -----------------------------
(***************************************************************************)
(* How the Knowledge and Search stages of a completed scan are published,  *)
(* invalidated by human decisions and by the scan being processed again,   *)
(* prepared file by file, and recovered.                                   *)
(*                                                                         *)
(*   src/lib/bridge/scan-publication.ts, scan-publication-lock.ts          *)
(*   src/lib/bridge/persistent-knowledge.ts                                *)
(*   src/lib/library/observation-sessions.ts                               *)
(*   src/lib/library/search-index.ts, search-backfill.ts                   *)
(*   src/lib/bridge/scan-recommendation-batch.ts, remote-read-commands.ts  *)
(*                                                                         *)
(* One connected root and one of its files, which every scan finds.  The   *)
(* text the stages publish is named by the decisions it was made from:     *)
(* authority is the number of the latest ACCEPT, MODIFY or REJECT of the   *)
(* file's observation, identity that of the latest review of an identity   *)
(* relationship.  A stage status is its word and a stamp, which stands for *)
(* the UUID of NOT_ATTEMPTED@ and the retry time of INCOMPLETE@; stamp 0   *)
(* is the bare word.  A scan is done while its session is COMPLETED or     *)
(* COMPLETED_WITH_ERRORS; a retried read or a batch run again opens it.    *)
(* A publication transaction is Serializable: it sees the state of its     *)
(* first statement and fails when a row it writes was written since.       *)
(***************************************************************************)
EXTENDS Integers, Sequences, FiniteSets

CONSTANTS
    Workers,        \* concurrent requests and polls
    MaxScans,       \* bound: scans
    MaxDecisions,   \* bound: decisions about the observation
    MaxReviews,     \* bound: reviews of identity relationships
    MaxEvents       \* bound: faults, physical runs, changes of the root's grant, reopened scans

ASSUME PublicationAssumption ==
    /\ IsFiniteSet(Workers) /\ {"nobody", "orphan"} \cap Workers = {}
    /\ MaxScans \in Nat \ {0} /\ MaxDecisions \in Nat /\ MaxReviews \in Nat /\ MaxEvents \in Nat

VARIABLES
    root,       \* readable, physicalInventoryGeneration, unresolved physical run
    scans,      \* scans in the order they started
    human,      \* latest decisions, and whether one corrected
    history,    \* scan -> latest decisions that found it the current snapshot; whether its
                \* file was indexed since it last completed; nothing the code reads
    signals,    \* authority the active document signals were made from; -1: no rows
    entry,      \* current search entry: scan and the decisions it was made from
    backfill,   \* scan -> librarySearchBackfillFile row of the file
    local,      \* worker -> volatile state of its request
    touched,    \* a row the open stage transaction writes was written since it began
    counts      \* use of the bound MaxEvents

vars == <<root, scans, human, history, signals, entry, backfill, local, touched, counts>>

Words == {"NOT_ATTEMPTED", "INCOMPLETE", "PREPARING", "COMPLETED"}
Status(word) == [word |-> word, stamp |-> 0]
Done == Status("COMPLETED")
StatusType == [word : Words, stamp : Nat]

NoTx == [expected |-> Done, authority |-> 0, identity |-> 0]
Idle == [pc |-> "idle", task |-> "publish", scan |-> 0, stage |-> "knowledge", seen |-> NoTx,
         row |-> "NONE"]

NewScan(gen, done) ==
    [gen |-> gen, done |-> done, knowledge |-> Status("NOT_ATTEMPTED"), search |-> Status("NOT_ATTEMPTED")]

Pcs == {"idle", "stage", "tx", "failed", "mark", "claim", "index", "indexTx", "save", "settle"}

TypeOK ==
    /\ root \in [readable : BOOLEAN, gen : Nat, busy : BOOLEAN]
    /\ scans \in Seq([gen : Nat, done : BOOLEAN, knowledge : StatusType, search : StatusType])
    /\ Len(scans) <= MaxScans
    /\ human \in [authority : Nat, identity : Nat, corrected : BOOLEAN]
    /\ history \in [1..MaxScans -> [authority : 0..human.authority, identity : 0..human.identity,
                                    indexed : BOOLEAN]]
    /\ signals \in -1..human.authority
    /\ entry \in [scan : 0..MaxScans, authority : 0..human.authority, identity : 0..human.identity]
    /\ backfill \in [1..MaxScans -> [status : {"NONE", "PROCESSING", "INDEXED", "FAILED"},
                                     owner : Workers \cup {"nobody"}, late : BOOLEAN]]
    /\ \A w \in Workers : local[w].pc \in Pcs /\ local[w].scan \in 0..Len(scans)
    /\ touched \in BOOLEAN
    /\ counts \in 0..MaxEvents

Init ==
    /\ root = [readable |-> TRUE, gen |-> 0, busy |-> FALSE]
    /\ scans = <<NewScan(0, TRUE)>>
    /\ human = [authority |-> 0, identity |-> 0, corrected |-> FALSE]
    /\ history = [s \in 1..MaxScans |-> [authority |-> 0, identity |-> 0, indexed |-> FALSE]]
    /\ signals = -1
    /\ entry = [scan |-> 0, authority |-> 0, identity |-> 0]
    /\ backfill = [s \in 1..MaxScans |-> [status |-> "NONE", owner |-> "nobody", late |-> FALSE]]
    /\ local = [w \in Workers |-> Idle]
    /\ touched = FALSE
    /\ counts = 0

(* latestKnowledgeSnapshot: of the scans that are done now, the latest of the
   root's physical generation, while no physical run is unresolved; 0 when there
   is none.  A scan that is reopened gives the place back to an older one. *)
Latest ==
    LET usable == {s \in 1..Len(scans) : scans[s].done /\ scans[s].gen = root.gen /\ ~root.busy}
    IN  IF usable = {} THEN 0 ELSE CHOOSE s \in usable : \A t \in usable : t <= s

(* lockCurrentScanPublication: the advisory lock of the root is tried, never
   awaited, and the scan must be the latest of a readable root. *)
InTx(w) == local[w].pc \in {"tx", "indexTx"}
Unlocked == \A w \in Workers : ~InTx(w)
CurrentScan(s) == Unlocked /\ root.readable /\ s = Latest

Goto(w, pc) == local' = [local EXCEPT ![w].pc = pc]
Finish(w) == local' = [local EXCEPT ![w] = Idle]
Event == counts < MaxEvents /\ counts' = counts + 1
(* A stamp nobody holds: a UUID, or a time in the future. *)
InUse(n) ==
    \/ \E s \in 1..Len(scans) : n \in {scans[s].knowledge.stamp, scans[s].search.stamp}
    \/ \E w \in Workers : local[w].seen.expected.stamp = n
Fresh == CHOOSE n \in 1..(2 * MaxScans + Cardinality(Workers) + 1) : ~InUse(n)
Stamped(word) == [word |-> word, stamp |-> Fresh]
(* Somebody writes the row of scan s. *)
Writing(s) == \E w \in Workers : local[w].pc = "tx" /\ local[w].scan = s
Touch(s) == touched' = (touched \/ Writing(s))
WritingSignals == \E w \in Workers : local[w].pc = "tx" /\ local[w].stage = "knowledge"

(***************************************************************************)
(* Human authority.                                                        *)
(***************************************************************************)

(* invalidateDocumentScanPublications and invalidateRootSearchPublication. *)
Invalidates == root.readable /\ Latest # 0
InvalidateDocument ==
    IF Invalidates
    THEN [scans EXCEPT ![Latest].knowledge = Stamped("NOT_ATTEMPTED"), ![Latest].search = Stamped("NOT_ATTEMPTED")]
    ELSE scans
InvalidateSearch ==
    IF Invalidates THEN [scans EXCEPT ![Latest].search = Stamped("NOT_ATTEMPTED")] ELSE scans

(* reconcileObservationKnowledge rewrites the signals in the decision's own
   transaction, except for an approval that follows no correction. *)
ReconcileSignals(kind) ==
    IF signals # -1 /\ (kind # "ACCEPT" \/ human.corrected) THEN human.authority + 1 ELSE signals

(* saveHumanDecision; what it calls after its transaction is a worker's work. *)
SaveDecision(kind) ==
    /\ human.authority < MaxDecisions
    /\ scans' = InvalidateDocument
    /\ signals' = ReconcileSignals(kind)
    /\ human' = [human EXCEPT !.authority = @ + 1, !.corrected = @ \/ kind # "ACCEPT"]
    /\ history' = IF Invalidates THEN [history EXCEPT ![Latest].authority = human.authority + 1] ELSE history
    /\ touched' = (touched \/ (Invalidates /\ Writing(Latest)) \/ (signals' # signals /\ WritingSignals))
    /\ UNCHANGED <<root, entry, backfill, local, counts>>

(* reviewPersistentRelationship and createIdentityCorrection refuse a root
   that is not readable, not one with an unresolved physical run. *)
ReviewIdentity ==
    /\ human.identity < MaxReviews /\ root.readable
    /\ scans' = InvalidateSearch
    /\ human' = [human EXCEPT !.identity = @ + 1]
    /\ history' = IF Invalidates THEN [history EXCEPT ![Latest].identity = human.identity + 1] ELSE history
    /\ touched' = (touched \/ (Invalidates /\ Writing(Latest)))
    /\ UNCHANGED <<root, signals, entry, backfill, local, counts>>

(***************************************************************************)
(* publishScanDerivedKnowledge.                                            *)
(***************************************************************************)

StageStatus(s, stage) == IF stage = "knowledge" THEN scans[s].knowledge ELSE scans[s].search
SetStage(s, stage, status) ==
    IF stage = "knowledge" THEN [scans EXCEPT ![s].knowledge = status] ELSE [scans EXCEPT ![s].search = status]
AfterStage(w) ==
    IF local[w].stage = "search" THEN Finish(w)
    ELSE IF local[w].task = "prepare" THEN local' = [local EXCEPT ![w].pc = "mark", ![w].seen = NoTx]
    ELSE local' = [local EXCEPT ![w].pc = "stage", ![w].stage = "search", ![w].seen = NoTx]

Snapshot(s, stage) ==
    [expected |-> StageStatus(s, stage), authority |-> human.authority, identity |-> human.identity]

(* Called for the scan that just completed, by recovery, by a decision and by
   the preparation; for a scan that is not the latest it does nothing. *)
StartPublish(w, task) ==
    LET s == Latest
    IN  /\ local[w].pc = "idle" /\ s # 0 /\ CurrentScan(s)
        /\ local' = [local EXCEPT ![w] =
              IF scans[s].knowledge # Done
              THEN [Idle EXCEPT !.pc = "tx", !.scan = s, !.task = task, !.seen = Snapshot(s, "knowledge")]
              ELSE IF task = "prepare" THEN [Idle EXCEPT !.pc = "mark", !.scan = s, !.task = task]
              ELSE [Idle EXCEPT !.pc = "stage", !.scan = s, !.stage = "search"]]
        /\ UNCHANGED <<root, scans, human, history, signals, entry, backfill, touched, counts>>

(* The Search stage is left alone until Knowledge is published. *)
SearchReady(s) == CurrentScan(s) /\ scans[s].knowledge = Done
BeginSearch(w) ==
    LET s == local[w].scan
    IN  /\ local[w].pc = "stage"
        /\ IF ~SearchReady(s) \/ scans[s].search = Done THEN Finish(w)
           ELSE local' = [local EXCEPT ![w].pc = "tx", ![w].seen = Snapshot(s, "search")]
        /\ UNCHANGED <<root, scans, human, history, signals, entry, backfill, touched, counts>>

(* Seeded fault: the stage commits over rows written since it began. *)
CommitStageReadCommitted(w) ==
    LET s == local[w].scan
    IN  /\ local[w].pc = "tx"
        /\ scans' = SetStage(s, local[w].stage, Done)
        /\ IF local[w].stage = "knowledge"
           THEN signals' = local[w].seen.authority /\ UNCHANGED <<entry, history>>
           ELSE /\ signals' = signals /\ history' = [history EXCEPT ![s].indexed = TRUE]
                /\ entry' = [scan |-> s, authority |-> local[w].seen.authority, identity |-> local[w].seen.identity]
        /\ AfterStage(w) /\ touched' = FALSE
        /\ UNCHANGED <<root, human, backfill, counts>>

(* persistScanWorkingKnowledge or indexScanKnowledge, and the stage's status. *)
CommitStage(w) ==
    LET s == local[w].scan
    IN  /\ local[w].pc = "tx" /\ ~touched
        /\ scans' = SetStage(s, local[w].stage, Done)
        /\ IF local[w].stage = "knowledge"
           THEN signals' = local[w].seen.authority /\ UNCHANGED <<entry, history>>
           ELSE /\ signals' = signals /\ history' = [history EXCEPT ![s].indexed = TRUE]
                /\ entry' = [scan |-> s, authority |-> local[w].seen.authority, identity |-> local[w].seen.identity]
        /\ AfterStage(w)
        /\ UNCHANGED <<root, human, backfill, touched, counts>>

(* A serialization conflict, or any other failure of the stage. *)
AbortStage(w) ==
    /\ local[w].pc = "tx"
    /\ IF touched THEN UNCHANGED counts ELSE Event
    /\ touched' = FALSE
    /\ Goto(w, "failed")
    /\ UNCHANGED <<root, scans, human, history, signals, entry, backfill>>

\* Seeded fault: a failure is recorded over a newer success.
RecordFailureAlways(w) ==
    LET s == local[w].scan
    IN  /\ local[w].pc = "failed" /\ Touch(s)
        /\ scans' = IF local[w].stage = "search" THEN [scans EXCEPT ![s].search = Stamped("INCOMPLETE")]
                    ELSE [scans EXCEPT ![s].knowledge = Stamped("INCOMPLETE"), ![s].search = Status("INCOMPLETE")]
        /\ Finish(w)
        /\ UNCHANGED <<root, human, history, signals, entry, backfill, counts>>

(* The retry obligation, only over the status the attempt started from. *)
RecordFailure(w) ==
    LET s == local[w].scan
    IN  /\ local[w].pc = "failed"
        /\ IF StageStatus(s, local[w].stage) # local[w].seen.expected THEN UNCHANGED <<scans, touched>>
           ELSE /\ Touch(s)
                /\ scans' = IF local[w].stage = "search" THEN [scans EXCEPT ![s].search = Stamped("INCOMPLETE")]
                            ELSE [scans EXCEPT ![s].knowledge = Stamped("INCOMPLETE"),
                                               ![s].search = Status("INCOMPLETE")]
        /\ Finish(w)
        /\ UNCHANGED <<root, human, history, signals, entry, backfill, counts>>

(***************************************************************************)
(* prepareSearchBatch: Search prepared file by file.                       *)
(***************************************************************************)

MarkPreparing(w) ==
    LET s == local[w].scan
        ready == SearchReady(s)
    IN  /\ local[w].pc = "mark"
        /\ scans' = IF ready /\ scans[s].search # Done THEN [scans EXCEPT ![s].search = Status("PREPARING")] ELSE scans
        /\ IF ready THEN Goto(w, "claim") ELSE Finish(w)
        /\ UNCHANGED <<root, human, history, signals, entry, backfill, counts, touched>>

(* A preparation works on the file of its scan from its claim to its row. *)
Working(w) == local[w].task = "prepare" /\ local[w].pc \in {"index", "indexTx", "save"}
Claimed(s) == backfill[s].status = "PROCESSING"
Owns(w, s) == Claimed(s) /\ backfill[s].owner = w
Held(s) == \E w \in Workers : Owns(w, s) /\ Working(w) /\ local[w].scan = s
Claimable(s, retry) ==
    \/ backfill[s].status = "NONE"
    \/ backfill[s].status = "FAILED" /\ retry
    \/ Claimed(s) /\ backfill[s].late

(* claimSearchFile; a batch that has nothing to claim goes on to settle. *)
ClaimFile(w) ==
    LET s == local[w].scan
    IN  /\ local[w].pc = "claim"
        /\ \E retry \in BOOLEAN :
              IF Claimable(s, retry)
              THEN /\ backfill' = [backfill EXCEPT ![s] = [status |-> "PROCESSING", owner |-> w, late |-> FALSE]]
                   /\ Goto(w, "index")
              ELSE backfill' = backfill /\ Goto(w, "settle")
        /\ UNCHANGED <<root, scans, human, history, signals, entry, counts, touched>>

(* The lease of a claim passes: always when its worker is dead, by bad luck while
   it is still busy. *)
ExpireClaim(s) ==
    /\ Claimed(s) /\ ~backfill[s].late
    /\ IF Held(s) THEN Event ELSE UNCHANGED counts
    /\ backfill' = [backfill EXCEPT ![s].late = TRUE]
    /\ UNCHANGED <<root, scans, human, history, signals, entry, local, touched>>

AfterIndex(w, row) ==
    IF local[w].task = "prepare" THEN local' = [local EXCEPT ![w].pc = "save", ![w].row = row, ![w].seen = NoTx]
    ELSE Finish(w)

(* indexOneFile for a claimed file. *)
BeginIndex(w) ==
    /\ local[w].pc = "index"
    /\ IF CurrentScan(local[w].scan)
       THEN local' = [local EXCEPT ![w].pc = "indexTx", ![w].seen = Snapshot(local[w].scan, "search")]
       ELSE AfterIndex(w, "FAILED")
    /\ UNCHANGED <<root, scans, human, history, signals, entry, backfill, touched, counts>>

(* refreshSearchForObservation and refreshSearchForIdentityRelationship, which the
   routes of a decision call after it, for the latest scan. *)
StartRefresh(w, task) ==
    /\ local[w].pc = "idle" /\ Latest # 0 /\ CurrentScan(Latest)
    /\ (task = "refresh" => human.authority > 0) /\ (task = "identity" => human.identity > 0)
    /\ local' = [local EXCEPT ![w] = [Idle EXCEPT !.pc = "indexTx", !.scan = Latest, !.task = task,
                                                  !.seen = Snapshot(Latest, "search")]]
    /\ UNCHANGED <<root, scans, human, history, signals, entry, backfill, touched, counts>>

(* The file is written anew; a refresh for an identity relationship rewrites the
   entity hashes of whatever entry is current and nothing else of it. *)
Projected(w) ==
    IF local[w].task = "identity" THEN [entry EXCEPT !.identity = local[w].seen.identity]
    ELSE [scan |-> local[w].scan, authority |-> local[w].seen.authority, identity |-> local[w].seen.identity]

\* Seeded fault: one version is written for both.
CommitIndexSwapped(w) ==
    /\ local[w].pc = "indexTx"
    /\ entry' = [scan |-> local[w].scan, authority |-> local[w].seen.identity, identity |-> local[w].seen.identity]
    /\ history' = IF local[w].task = "identity" THEN history ELSE [history EXCEPT ![local[w].scan].indexed = TRUE]
    /\ AfterIndex(w, "INDEXED")
    /\ UNCHANGED <<root, scans, human, signals, backfill, counts, touched>>

(* The file's entry alone; the scan's row is not written. *)
CommitIndex(w) ==
    /\ local[w].pc = "indexTx"
    /\ entry' = Projected(w)
    /\ history' = IF local[w].task = "identity" THEN history ELSE [history EXCEPT ![local[w].scan].indexed = TRUE]
    /\ AfterIndex(w, "INDEXED")
    /\ UNCHANGED <<root, scans, human, signals, backfill, counts, touched>>

AbortIndex(w) ==
    /\ local[w].pc = "indexTx" /\ Event
    /\ AfterIndex(w, "FAILED")
    /\ UNCHANGED <<root, scans, human, history, signals, entry, backfill, touched>>

\* Seeded fault: the outcome is saved whoever claimed the file since.
SaveRowUnclaimed(w) ==
    LET s == local[w].scan
    IN  /\ local[w].pc = "save"
        /\ backfill' = [backfill EXCEPT ![s] = [status |-> local[w].row, owner |-> "nobody", late |-> FALSE]]
        /\ Goto(w, "settle")
        /\ UNCHANGED <<root, scans, human, history, signals, entry, counts, touched>>

(* The outcome of the file, only under the claim that was taken for it; late, but
   not taken over, is in time. *)
SaveRow(w) ==
    LET s == local[w].scan
    IN  /\ local[w].pc = "save"
        /\ backfill' = IF Owns(w, s)
                       THEN [backfill EXCEPT ![s] = [status |-> local[w].row, owner |-> "nobody", late |-> FALSE]]
                       ELSE backfill
        /\ Goto(w, "settle")
        /\ UNCHANGED <<root, scans, human, history, signals, entry, counts, touched>>

(* Every file has its row: the scan's Search is settled by the rows, and when none
   of them failed the entries of other scans are retired. *)
Settleable(s) == backfill[s].status \in {"INDEXED", "FAILED"} /\ SearchReady(s)
SettleBackfill(w) ==
    LET s == local[w].scan
    IN  /\ local[w].pc = "settle"
        /\ scans' = IF Settleable(s) /\ scans[s].search # Done
                    THEN [scans EXCEPT ![s].search = IF backfill[s].status = "INDEXED" THEN Done ELSE Status("INCOMPLETE")]
                    ELSE scans
        /\ entry' = IF Settleable(s) /\ backfill[s].status = "INDEXED" /\ entry.scan # s
                    THEN [entry EXCEPT !.scan = 0] ELSE entry
        /\ Finish(w)
        /\ UNCHANGED <<root, human, history, signals, backfill, counts, touched>>

(* The route's catch, for a preparation that failed at any of its steps. *)
FailPrepare(w) ==
    LET s == local[w].scan
    IN  /\ local[w].task = "prepare" /\ local[w].pc \in {"mark", "claim", "settle"} /\ Event
        /\ scans' = IF scans[s].search = Done THEN scans ELSE [scans EXCEPT ![s].search = Status("INCOMPLETE")]
        /\ IF scans[s].search = Done THEN UNCHANGED touched ELSE Touch(s)
        /\ Finish(w)
        /\ UNCHANGED <<root, human, history, signals, entry, backfill>>

(***************************************************************************)
(* What happens around it.                                                 *)
(***************************************************************************)

WorkerDies(w) ==
    /\ local[w].pc # "idle" /\ Event
    /\ touched' = (touched /\ local[w].pc # "tx")
    /\ Finish(w)
    /\ UNCHANGED <<root, scans, human, history, signals, entry, backfill>>

(* A scan is discovered in the root's physical generation of that moment. *)
StartScan ==
    /\ Len(scans) < MaxScans /\ root.readable
    /\ scans' = Append(scans, NewScan(root.gen, FALSE))
    /\ UNCHANGED <<root, human, history, signals, entry, backfill, local, counts, touched>>

Completable(s) == ~scans[s].done /\ root.readable /\ scans[s].gen = root.gen /\ ~root.busy

\* Seeded fault: a scan that is processed again keeps the success of its last cycle.
CompleteScanKept(s) ==
    /\ Completable(s)
    /\ scans' = [scans EXCEPT ![s].done = TRUE]
    /\ Touch(s)
    /\ UNCHANGED <<root, human, history, signals, entry, backfill, local, counts>>

(* completeSession, for the first time or again: "Reprocessing this same session
   cannot reuse an older success", and both stages are pending. *)
CompleteScan(s) ==
    /\ Completable(s)
    /\ scans' = [scans EXCEPT ![s].done = TRUE, ![s].knowledge = Stamped("NOT_ATTEMPTED"),
                              ![s].search = Stamped("NOT_ATTEMPTED")]
    /\ history' = [history EXCEPT ![s].indexed = FALSE]
    /\ Touch(s)
    /\ UNCHANGED <<root, human, signals, entry, backfill, local, counts>>

(* A read retried in a completed session sets it READING, whatever the inventory
   is by now (markRetryQueued); a batch run again, by hand or because a file has
   no current suggestion, sets it GENERATING_SUGGESTIONS (claimBatch).  The
   stages keep their words until the session completes anew. *)
ReopenScan(s) ==
    /\ scans[s].done /\ root.readable /\ Event
    /\ scans' = [scans EXCEPT ![s].done = FALSE]
    /\ Touch(s)
    /\ UNCHANGED <<root, human, history, signals, entry, backfill, local>>

(* A physical run is admitted under a share lock of the root, which a
   publication transaction holds too. *)
StartPhysicalRun ==
    /\ ~root.busy /\ root.readable /\ Event
    /\ root' = [root EXCEPT !.busy = TRUE]
    /\ UNCHANGED <<scans, human, history, signals, entry, backfill, local, touched>>

(* An outcome that changed the disk advances the root's generation, under a
   lock that waits for publications; one without effect changes nothing. *)
SettlePhysicalRun(changed) ==
    /\ root.busy /\ (changed => Unlocked)
    /\ root' = [root EXCEPT !.busy = FALSE, !.gen = IF changed THEN @ + 1 ELSE @]
    /\ UNCHANGED <<scans, human, history, signals, entry, backfill, local, counts, touched>>

ChangeGrant ==
    /\ Unlocked /\ Event
    /\ root' = [root EXCEPT !.readable = ~@]
    /\ UNCHANGED <<scans, human, history, signals, entry, backfill, local, touched>>

PublishStep(w) ==
    (\E task \in {"publish", "prepare"} : StartPublish(w, task)) \/ BeginSearch(w) \/ CommitStage(w) \/ AbortStage(w) \/ RecordFailure(w)
PrepareStep(w) ==
    MarkPreparing(w) \/ ClaimFile(w) \/ SaveRow(w) \/ SettleBackfill(w) \/ FailPrepare(w)
IndexStep(w) ==
    (\E task \in {"refresh", "identity"} : StartRefresh(w, task)) \/ BeginIndex(w) \/ CommitIndex(w) \/ AbortIndex(w)

Next ==
    \/ \E kind \in {"ACCEPT", "MODIFY"} : SaveDecision(kind)
    \/ ReviewIdentity
    \/ \E w \in Workers : PublishStep(w) \/ PrepareStep(w) \/ IndexStep(w) \/ WorkerDies(w)
    \/ \E s \in 1..MaxScans : ExpireClaim(s)
    \/ StartScan \/ (\E s \in 1..Len(scans) : CompleteScan(s) \/ ReopenScan(s))
    \/ StartPhysicalRun \/ (\E changed \in BOOLEAN : SettlePhysicalRun(changed)) \/ ChangeGrant

Spec == Init /\ [][Next]_vars

(***************************************************************************)
(* Properties.                                                             *)
(***************************************************************************)

Current(s) == s = Latest /\ root.readable

(* scan-publication.ts: once the Knowledge stage of the current snapshot is
   COMPLETED, the document signals show every decision that found that snapshot
   current, however publications, failures, decisions and reopened scans raced. *)
KnowledgeCurrent ==
    \A s \in 1..Len(scans) : Current(s) /\ scans[s].knowledge = Done => signals >= history[s].authority

(* The same for Search, when neither this scan nor a newer one was prepared file
   by file.  The entry is of this scan, or of a newer one that was reopened since. *)
Unprepared(s) == \A u \in s..MaxScans : backfill[u].status = "NONE"
SearchCurrent ==
    \A s \in 1..Len(scans) :
        Current(s) /\ scans[s].search = Done /\ Unprepared(s) =>
            /\ entry.scan >= s
            /\ entry.authority >= history[s].authority /\ entry.identity >= history[s].identity

(* scan-recommendation-batch.ts "Reprocessing this same session cannot reuse an
   older success": Search that was published whole, and not settled by the rows of
   a preparation, was indexed since the session last completed. *)
SearchFresh ==
    \A s \in 1..Len(scans) : scans[s].search = Done /\ backfill[s].status = "NONE" => history[s].indexed

(* What a current snapshot calls COMPLETED shows every decision it owes, and was
   made for the cycle it completes. *)
DerivedCurrent == KnowledgeCurrent /\ SearchCurrent /\ SearchFresh

(* scan-publication.ts "Never roll a newer worker's success back": a stage that
   is COMPLETED becomes work again by a human decision or by its scan completing
   anew, and by nothing else: no failure, preparation or older worker undoes it. *)
CompletionKept ==
    [][\A s \in 1..Len(scans) :
        \/ scans[s].knowledge = Done /\ scans'[s].knowledge # Done
        \/ scans[s].search = Done /\ scans'[s].search # Done
        => human' # human \/ (~scans[s].done /\ scans'[s].done)]_vars

(* CURRENT-2 of SYSTEM_INVARIANTS.md: the search entry a current snapshot published
   is never taken by the work of an older scan, also when that work began while
   the snapshot's session was open again. *)
EntryKept ==
    [][\A s \in 1..Len(scans) : Current(s) /\ scans[s].search = Done /\ entry.scan = s => entry'.scan >= s]_vars

(* The claim of a dead preparation keeps its owner's name, and nobody uses it. *)
Holder(s) == IF ~Claimed(s) THEN "nobody" ELSE IF Held(s) THEN backfill[s].owner ELSE "orphan"
Belief(w) == IF Working(w) THEN local[w].scan ELSE 0
Indexed(s) == IF backfill[s].status = "INDEXED" THEN 1 ELSE 0

SearchClaims == INSTANCE OwnedWork WITH
    Items <- 1..MaxScans, NoWorker <- "nobody", Orphan <- "orphan", NoItem <- 0,
    holder <- [s \in 1..MaxScans |-> Holder(s)],
    lapsed <- {s \in 1..MaxScans : Claimed(s) /\ backfill[s].late},
    belief <- [w \in Workers |-> Belief(w)],
    product <- [s \in 1..MaxScans |-> Indexed(s)]

(* However preparations overlap, outlive their lease or die: a file is claimed by
   one at a time, INDEXED once, and a preparation whose claim was taken over
   changes no row (claimSearchFile, prepareSearchBatch). *)
ImplementsOwnedWork == SearchClaims!Spec
==============================================================================
