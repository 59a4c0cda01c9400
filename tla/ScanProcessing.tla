--------------------------- MODULE ScanProcessing ---------------------------
(***************************************************************************)
(* How the files of one imported scan are read, observed and given         *)
(* recommendations, by requests that race, time out and die.               *)
(*                                                                         *)
(*   src/lib/bridge/remote-read-commands.ts, cloud-command-results.ts      *)
(*   src/lib/bridge/observation-authority.ts, scanned-file-observations.ts *)
(*   src/lib/bridge/observation-recovery.ts, processing-pipeline.ts        *)
(*   src/lib/bridge/scan-recommendation-batch.ts                           *)
(*                                                                         *)
(* A worker is one request; each of its steps is one transaction.  A claim *)
(* is the observationClaimedAt of a file, named by the worker that took    *)
(* it; a claim whose request died or ended is Orphan.  A request serves a  *)
(* report of a paired Mac, processes a local folder, or serves a person    *)
(* who asked for one file.  The statuses READING and                       *)
(* EXAMINING of a session are both "READING", the stages EXAMINING and     *)
(* OBSERVING both "EXAMINING", SUGGESTIONS_GENERATED and                   *)
(* RECOMMENDATIONS_READY both "READY".  rec is the batch that made the     *)
(* suggestions a file has now, cut the last batch before a person          *)
(* invalidated all suggestions of the session.                             *)
(***************************************************************************)
EXTENDS Integers, FiniteSets, FiniteSetsExt

CONSTANTS
    Files,          \* supported files of the scan
    Workers,        \* concurrent requests
    ReadBatch,      \* remoteReadBatchSize
    MaxEvents,      \* bound: deaths, timeouts, failures, expiries
    MaxRequests,    \* bound: what a person asks for (retries, reconnections, permissions)
    None, Orphan    \* "no owner", "an owner that is gone"

ASSUME ProcessingAssumption ==
    /\ ReadBatch \in Nat \ {0} /\ MaxEvents \in Nat /\ MaxRequests \in Nat
    /\ {None, Orphan} \cap Workers = {} /\ None # Orphan

VARIABLES
    root,       \* paired device, readability, revision, permission, superseded generation
    session,    \* status, recommendationGeneration and its lease
    file,       \* file -> stage, observation claim, observations, recommendation
    command,    \* file -> its READ_FILE_TEMPORARILY command
    local,      \* worker -> volatile state of its request
    counts      \* uses of the bounds so far

vars == <<root, session, file, command, local, counts>>

Stages == {"DISCOVERED", "READING", "READ", "EXAMINING", "EXAMINED", "READY", "FAILED"}
Settled == {"EXAMINED", "READY", "FAILED"}
InFlight == {"READ", "EXAMINING"}

TypeOK ==
    /\ root \in [device : BOOLEAN, readable : BOOLEAN, rev : Nat, recommend : BOOLEAN,
                 superseded : BOOLEAN]
    /\ session \in [status : {"READING", "GENERATING", "COMPLETED", "FAILED"},
                    batch : Nat, owner : BOOLEAN, lease : BOOLEAN, full : BOOLEAN,
                    cut : Nat, regenerating : BOOLEAN]
    /\ file \in [Files -> [stage : Stages, claim : Workers \cup {None, Orphan}, rev : Nat,
                           expired : BOOLEAN, obs : Nat, rec : Nat]]
    /\ command \in [Files -> {"NONE", "OPEN", "DUE", "CLOSED"}]
    /\ counts \in [events : 0..MaxEvents, requests : 0..MaxRequests]

Idle == [pc |-> "idle", file |-> None, batch |-> 0, todo |-> {}, full |-> FALSE, asked |-> FALSE]

Init ==
    /\ root \in [device : BOOLEAN, readable : {TRUE}, rev : {0}, recommend : {TRUE},
                 superseded : {FALSE}]
    /\ session = [status |-> "READING", batch |-> 0, owner |-> FALSE, lease |-> FALSE,
                  full |-> FALSE, cut |-> 0, regenerating |-> FALSE]
    /\ file = [f \in Files |-> [stage |-> "DISCOVERED", claim |-> None, rev |-> 0,
                                expired |-> FALSE, obs |-> 0, rec |-> 0]]
    /\ command = [f \in Files |-> "NONE"]
    /\ local = [w \in Workers |-> Idle]
    /\ counts = [events |-> 0, requests |-> 0]

Event == counts.events < MaxEvents /\ counts' = [counts EXCEPT !.events = @ + 1]
Request == counts.requests < MaxRequests /\ counts' = [counts EXCEPT !.requests = @ + 1]
Finish(w) == local' = [local EXCEPT ![w] = Idle]
Goto(w, pc) == local' = [local EXCEPT ![w].pc = pc]

Usable(f) == file[f].obs > 0
Free(f) == file[f].claim = None
Reclaimable(f) == file[f].claim = None \/ file[f].expired
Active(f) == command[f] \in {"OPEN", "DUE"}
Close(S) == [f \in Files |-> IF f \in S /\ Active(f) THEN "CLOSED" ELSE command[f]]

(* claimObservationLease and withOwnedObservationLease: under the locks of the
   root, the session and the file. *)
ClaimTaken(w, f) ==
    [file EXCEPT ![f].claim = w, ![f].rev = root.rev, ![f].expired = FALSE]
Claimable(f) ==
    /\ root.readable /\ ~root.superseded
    /\ session.status # "GENERATING" /\ Reclaimable(f)

Owns(w, f) ==
    /\ root.readable /\ ~root.superseded
    /\ file[f].claim = w /\ file[f].rev = root.rev

\* Seeded fault: the claim is cleared whoever holds it.
ReleasedAnyone(w, f) == [file EXCEPT ![f].claim = None, ![f].expired = FALSE]
Released(w, f) ==
    IF file[f].claim = w THEN [file EXCEPT ![f].claim = None, ![f].expired = FALSE] ELSE file

(* A request ends and its claim stays, until its ten minutes are over. *)
Left(w, f) ==
    IF file[f].claim = w THEN [file EXCEPT ![f].claim = Orphan] ELSE file

(* markFileFailure, which itself needs the claim: without it the error is swallowed. *)
MarkedFailed(w, f) ==
    IF Owns(w, f) THEN [file EXCEPT ![f].stage = "FAILED", ![f].claim = None] ELSE Left(w, f)

(***************************************************************************)
(* Reads of a paired Mac.                                                  *)
(***************************************************************************)

Unread == {f \in Files : file[f].stage = "DISCOVERED" /\ Free(f)}

(* queueRemoteReads: one bounded batch at a time for the device. *)
QueueReads ==
    /\ root.device /\ root.readable /\ session.status = "READING"
    /\ Unread # {} /\ ~ \E f \in Files : command[f] = "OPEN"
    /\ \E S \in kSubset(IF Cardinality(Unread) < ReadBatch THEN Cardinality(Unread) ELSE ReadBatch, Unread) :
          /\ command' = [f \in Files |-> IF f \in S THEN "OPEN" ELSE command[f]]
          /\ file' = [f \in Files |-> IF f \in S THEN [file[f] EXCEPT !.stage = "READING"] ELSE file[f]]
    /\ UNCHANGED <<root, session, local, counts>>

(* A report of the Bridge arrives: with the text of the scanned bytes, or without. *)
ReportRead(w, f) ==
    /\ local[w].pc = "idle" /\ Active(f) /\ root.readable
    /\ local' = [local EXCEPT ![w] = [Idle EXCEPT !.pc = "claim", !.file = f]]
    /\ UNCHANGED <<root, session, file, command, counts>>

ReportFailure(w, f) ==
    /\ local[w].pc = "idle" /\ Active(f) /\ Event
    /\ local' = [local EXCEPT ![w] = [Idle EXCEPT !.pc = "fail", !.file = f]]
    /\ UNCHANGED <<root, session, file, command>>

(* The rows markRemoteReadFailure leaves. *)
Failed(f) ==
    IF Usable(f) /\ file[f].stage \in {"EXAMINED", "READY"} THEN file
    ELSE [file EXCEPT ![f].stage = "FAILED"]

Done(f) == Usable(f) /\ file[f].stage \in {"EXAMINED", "READY"}
Failable(f) == root.readable /\ (Done(f) \/ Free(f))

(* markRemoteReadFailure: an observation that is done stays; one in progress
   refuses the report, which the Bridge sends again. *)
FailRead(w) ==
    LET f == local[w].file
    IN  /\ local[w].pc = "fail"
        /\ IF Failable(f) THEN file' = Failed(f) /\ Goto(w, "batch")
                          ELSE file' = file /\ Finish(w)
        /\ UNCHANGED <<root, session, command, counts>>

ClaimObservation(w) ==
    LET f == local[w].file
    IN  /\ local[w].pc = "claim"
        /\ IF Claimable(f) THEN file' = ClaimTaken(w, f) /\ Goto(w, IF Usable(f) THEN "reuse" ELSE "store")
                           ELSE file' = file /\ Finish(w)
        /\ UNCHANGED <<root, session, command, counts>>

(* applyCompletedRead: the observation it saw is reused.  If the file or the
   observation is gone by now, the report is refused and the claim stays. *)
ReuseRead(w) ==
    LET f == local[w].file
    IN  /\ local[w].pc = "reuse"
        /\ IF Owns(w, f) /\ Usable(f)
           THEN /\ file' = [file EXCEPT ![f].stage = IF @ = "READY" THEN @ ELSE "EXAMINED",
                                        ![f].claim = None]
                /\ Goto(w, "batch")
           ELSE file' = Left(w, f) /\ Finish(w)
        /\ UNCHANGED <<root, session, command, counts>>

(* applyCompletedRead: the text is stored, or the claim is given back. *)
StoreRead(w) ==
    LET f == local[w].file
    IN  /\ local[w].pc = "store"
        /\ IF Owns(w, f) THEN file' = [file EXCEPT ![f].stage = "READ"] /\ Goto(w, "examine")
                         ELSE file' = Released(w, f) /\ Finish(w)
        /\ UNCHANGED <<root, session, command, counts>>

(***************************************************************************)
(* Files of a folder on this computer, and files a person asks about.      *)
(***************************************************************************)

(* processingFilePage. *)
ProcessingPage(retry) ==
    {f \in Files : /\ file[f].stage \notin {"EXAMINED", "READY"}
                   /\ file[f].stage = "FAILED" => retry
                   /\ Reclaimable(f)}

(* processNextBridgeScanSessionFile; a retry takes the failed files too. *)
ProcessNext(w) ==
    /\ ~root.device /\ root.readable /\ local[w].pc = "idle"
    /\ session.status # "FAILED"
    /\ \E retry \in BOOLEAN :
          /\ IF retry THEN Request ELSE UNCHANGED counts
          /\ IF ProcessingPage(retry) = {}
             THEN /\ local' = [local EXCEPT ![w] = [Idle EXCEPT !.pc = "batch"]]
                  /\ UNCHANGED file
             ELSE \E f \in ProcessingPage(retry) :
                     /\ Claimable(f)
                     /\ file' = ClaimTaken(w, f)
                     /\ local' = [local EXCEPT ![w] = [Idle EXCEPT !.pc = "read", !.file = f]]
    /\ UNCHANGED <<root, session, command>>

(* processOneScannedFile up to the observation, updateSessionStatus included. *)
ReadLocal(w) ==
    LET f == local[w].file
    IN  /\ local[w].pc = "read" /\ Owns(w, f)
        /\ session' = [session EXCEPT !.status = "READING"]
        /\ IF Usable(f)
           THEN /\ file' = [file EXCEPT ![f].stage = "EXAMINED", ![f].claim = None]
                /\ Goto(w, "batch")
           ELSE /\ file' = [file EXCEPT ![f].stage = "READ"]
                /\ Goto(w, "examine")
        /\ UNCHANGED <<root, command, counts>>

(* The observe route: a person asks for one file, whatever its session is.
   readScannedFile has a claim of its own, which it gives back either way. *)
ObserveFile(w, f) ==
    /\ ~root.device /\ local[w].pc = "idle" /\ Claimable(f) /\ Request
    /\ file' = ClaimTaken(w, f)
    /\ local' = [local EXCEPT ![w] = [Idle EXCEPT !.pc = "ask", !.file = f, !.asked = TRUE]]
    /\ UNCHANGED <<root, session, command>>

ReadAsked(w) ==
    LET f == local[w].file
    IN  /\ local[w].pc = "ask" /\ Owns(w, f)
        /\ file' = [file EXCEPT ![f].stage = "READ", ![f].claim = None]
        /\ Goto(w, "asked")
        /\ UNCHANGED <<root, session, command, counts>>

(* The observation takes the file again. *)
ClaimAsked(w) ==
    LET f == local[w].file
    IN  /\ local[w].pc = "asked"
        /\ IF Claimable(f) THEN file' = ClaimTaken(w, f) /\ Goto(w, "examine")
                           ELSE file' = file /\ Finish(w)
        /\ UNCHANGED <<root, session, command, counts>>

(***************************************************************************)
(* createObservationSessionForScannedFileReadResult.                       *)
(***************************************************************************)

Examine(w) ==
    LET f == local[w].file
    IN  /\ local[w].pc = "examine" /\ Owns(w, f)
        /\ file' = [file EXCEPT ![f].stage = "EXAMINING"]
        /\ Goto(w, "observe")
        /\ UNCHANGED <<root, session, command, counts>>

(* The transaction after the model answered. *)
CommitObservation(w) ==
    LET f == local[w].file
    IN  /\ local[w].pc = "observe" /\ Owns(w, f) /\ ~Usable(f)
        /\ file' = [file EXCEPT ![f].stage = "EXAMINED", ![f].claim = None, ![f].obs = @ + 1]
        /\ IF local[w].asked THEN Finish(w) ELSE Goto(w, "batch")
        /\ UNCHANGED <<root, session, command, counts>>

Observing(w) == local[w].pc \in {"read", "ask", "examine", "observe"}

(* A request of the local pipeline swallows its error and goes on. *)
Processes(w) == ~root.device /\ ~local[w].asked

(* An owner that lost its file, or an observation that exists by now.  The
   request that processes a local folder does not give its claim back. *)
ObservationRefused(w) ==
    LET f == local[w].file
    IN  /\ Observing(w)
        /\ ~Owns(w, f) \/ (local[w].pc = "observe" /\ Usable(f))
        /\ IF Processes(w) THEN file' = MarkedFailed(w, f) /\ Goto(w, "batch")
                           ELSE file' = Released(w, f) /\ Finish(w)
        /\ UNCHANGED <<root, session, command, counts>>

(* Reading, the model or a deadline fails.  A paired Mac reports again; a local
   file is FAILED by the pipeline, and by its reader when a person asked.  An
   observation past its deadline may still be running without its claim. *)
ObservationFails(w) ==
    LET f == local[w].file
    IN  /\ Observing(w) /\ Owns(w, f) /\ Event
        /\ IF Processes(w)
           THEN /\ file' = MarkedFailed(w, f)
                /\ Goto(w, "batch") \/ (local[w].pc # "read" /\ UNCHANGED local)
           ELSE /\ file' = IF local[w].pc = "ask"
                           THEN [file EXCEPT ![f].stage = "FAILED", ![f].claim = None] ELSE Released(w, f)
                /\ Finish(w)
        /\ UNCHANGED <<root, session, command>>

(* The report of a request is acknowledged when the whole request is done. *)
Acknowledge(w) == IF local[w].file = None THEN command ELSE Close({local[w].file})

(***************************************************************************)
(* Deadlines and recovery.                                                 *)
(***************************************************************************)

CommandDue(f) ==
    /\ command[f] = "OPEN" /\ Event
    /\ command' = [command EXCEPT ![f] = "DUE"]
    /\ UNCHANGED <<root, session, file, local>>

(* Ten minutes pass: always for an owner that died, by bad luck for a live one. *)
ClaimExpires(f) ==
    /\ ~Free(f) /\ ~file[f].expired
    /\ IF file[f].claim = Orphan THEN UNCHANGED counts ELSE Event
    /\ file' = [file EXCEPT ![f].expired = TRUE]
    /\ UNCHANGED <<root, session, command, local>>

(* expireRemoteReadCommandsForSession selects a command and looks at its file. *)
SelectExpired(w, f) ==
    /\ local[w].pc = "idle" /\ command[f] = "DUE"
    /\ Free(f) /\ file[f].stage \notin InFlight
    /\ local' = [local EXCEPT ![w] = [Idle EXCEPT !.pc = "expire", !.file = f]]
    /\ UNCHANGED <<root, session, file, command, counts>>

(* Its own transaction fails the file; the command is closed after it. *)
ExpireRead(w) ==
    LET f == local[w].file
    IN  /\ local[w].pc = "expire"
        /\ IF Failable(f) THEN file' = Failed(f) /\ Goto(w, "close")
                          ELSE file' = file /\ Finish(w)
        /\ UNCHANGED <<root, session, command, counts>>

CloseExpired(w) ==
    /\ local[w].pc = "close"
    /\ command' = Close({local[w].file})
    /\ local' = [local EXCEPT ![w] = [Idle EXCEPT !.pc = "batch"]]
    /\ UNCHANGED <<root, session, file, counts>>

(* The files recoverAbandonedObservationFilesForDevice takes. *)
Abandoned(f) ==
    /\ root.device /\ root.readable /\ ~root.superseded
    /\ session.status = "READING" /\ file[f].rev = root.rev
    /\ \/ file[f].stage \in InFlight /\ Reclaimable(f)
       \/ file[f].stage = "READING" /\ ~Free(f) /\ file[f].expired

RecoverAbandoned(w, f) ==
    LET complete == Usable(f) /\ file[f].stage \in InFlight
    IN  /\ local[w].pc = "idle" /\ Abandoned(f)
        /\ file' = [file EXCEPT ![f].claim = None, ![f].expired = FALSE,
                                ![f].stage = IF complete THEN "EXAMINED" ELSE "DISCOVERED"]
        /\ command' = Close({f})
        /\ IF complete THEN local' = [local EXCEPT ![w] = [Idle EXCEPT !.pc = "batch"]]
                       ELSE UNCHANGED local
        /\ UNCHANGED <<root, session, counts>>

(***************************************************************************)
(* Recommendation batches.                                                 *)
(***************************************************************************)

Understood == \A f \in Files : file[f].stage \in Settled /\ Free(f)
Recommendable(f) == Usable(f) /\ file[f].stage \in {"EXAMINED", "READY"}

(* claimBatch. *)
ClaimableBatch(explicit) ==
    /\ root.readable /\ ~root.superseded /\ Understood
    /\ \/ session.status = "READING"
       \/ session.status = "COMPLETED" /\ (explicit \/ (root.recommend
             /\ \E f \in Files : Recommendable(f) /\ file[f].rec = 0))
       \/ session.status = "GENERATING" /\ ~session.lease

BatchClaimed ==
    [session EXCEPT !.status = "GENERATING", !.batch = @ + 1, !.owner = TRUE, !.lease = TRUE]

StartBatch(w) ==
    local' = [local EXCEPT ![w] = [@ EXCEPT !.pc = "recommend", !.batch = session.batch + 1,
                 !.todo = IF root.recommend THEN {f \in Files : Recommendable(f)} ELSE {},
                 !.full = root.recommend]]

(* generateScanRecommendationBatchIfReady at the end of a request. *)
TryBatch(w) ==
    /\ local[w].pc = "batch"
    /\ IF ClaimableBatch(FALSE)
       THEN session' = BatchClaimed /\ StartBatch(w) /\ UNCHANGED command
       ELSE session' = session /\ Finish(w) /\ command' = Acknowledge(w)
    /\ UNCHANGED <<root, file, counts>>

(* generateScanRecommendationBatch, and recoverRecommendationBatchesForDevice. *)
StartOwnBatch(w) ==
    /\ local[w].pc = "idle"
    /\ \/ session.status = "GENERATING" /\ ~session.lease /\ ClaimableBatch(FALSE) /\ UNCHANGED counts
       \/ ClaimableBatch(TRUE) /\ Request
    /\ session' = BatchClaimed /\ StartBatch(w)
    /\ UNCHANGED <<root, file, command>>

(* Seeded fault: any batch of the session will do. *)
OwnsBatchAny(w) ==
    /\ root.readable /\ ~root.superseded
    /\ session.status = "GENERATING" /\ session.lease

(* lockRecommendationBatch. *)
OwnsBatch(w) ==
    /\ root.readable /\ ~root.superseded
    /\ session.status = "GENERATING" /\ session.lease
    /\ session.owner /\ session.batch = local[w].batch

(* persistDrafts: the suggestions a file has are kept, whoever made them. *)
Suggested(w, f) ==
    [file EXCEPT ![f].stage = "READY", ![f].rec = IF @ = 0 THEN local[w].batch ELSE @]

(* Seeded fault: the error category is written as the stage. *)
RecommendFileCategory(w) ==
    /\ local[w].pc = "recommend" /\ OwnsBatch(w) /\ root.recommend
    /\ \E f \in local[w].todo :
          /\ local' = [local EXCEPT ![w].todo = @ \ {f}]
          /\ \/ file' = Suggested(w, f) /\ UNCHANGED counts
             \/ Event /\ file' = [file EXCEPT ![f].stage = "SUGGESTIONS_FAILED"]
    /\ UNCHANGED <<root, session, command>>

(* One file: the lease is renewed, its suggestions are stored or it fails. *)
RecommendFile(w) ==
    /\ local[w].pc = "recommend" /\ OwnsBatch(w) /\ root.recommend
    /\ \E f \in local[w].todo :
          /\ local' = [local EXCEPT ![w].todo = @ \ {f}]
          /\ \/ file' = Suggested(w, f) /\ UNCHANGED counts
             \/ Event /\ file' = [file EXCEPT ![f].stage = "FAILED"]
    /\ UNCHANGED <<root, session, command>>

BatchRefused(w) ==
    /\ local[w].pc = "recommend"
    /\ ~OwnsBatch(w) \/ (~root.recommend /\ local[w].todo # {})
    /\ Finish(w)
    /\ UNCHANGED <<root, session, file, command, counts>>

(* completeSession. *)
CompleteSession(w) ==
    /\ local[w].pc = "recommend" /\ local[w].todo = {} /\ OwnsBatch(w)
    /\ IF Understood
       THEN /\ session' = [session EXCEPT !.status = "COMPLETED", !.owner = FALSE, !.lease = FALSE,
                                          !.full = local[w].full, !.regenerating = FALSE]
            /\ command' = Acknowledge(w)
       ELSE UNCHANGED <<session, command>>
    /\ Finish(w)
    /\ UNCHANGED <<root, file, counts>>

LeaseExpires ==
    /\ session.status = "GENERATING" /\ session.lease
    /\ IF \E w \in Workers : local[w].pc = "recommend" /\ OwnsBatch(w) THEN Event ELSE UNCHANGED counts
    /\ session' = [session EXCEPT !.lease = FALSE]
    /\ UNCHANGED <<root, file, command, local>>

(* recoverRecommendationBatchesForDevice, when it fails: the batch waits a minute
   more, with the generation it has. *)
DelayBatch ==
    /\ root.device /\ session.status = "GENERATING" /\ ~session.lease /\ Event
    /\ session' = [session EXCEPT !.lease = TRUE]
    /\ UNCHANGED <<root, file, command, local>>

(***************************************************************************)
(* What a person asks for.                                                 *)
(***************************************************************************)

(* queueRemoteReadRetryForScannedFile and markRetryQueued. *)
RetryRead(f) ==
    /\ root.device /\ root.readable /\ Reclaimable(f) /\ Request
    /\ command' = [command EXCEPT ![f] = "OPEN"]
    /\ file' = [file EXCEPT ![f].stage = "READING"]
    /\ session' = [session EXCEPT !.status = "READING", !.owner = FALSE, !.lease = FALSE]
    /\ UNCHANGED <<root, local>>

(* prepareOrganizationRecommendationRegeneration, refused while anything is
   claimed or leased. *)
MayRegenerate ==
    /\ root.readable /\ root.recommend /\ Request
    /\ (\A f \in Files : Free(f)) /\ ~session.lease

(* With resetRemoteReads: either every suggestion is invalidated, or only the
   files without one are read again. *)
Regenerate ==
    /\ root.device /\ MayRegenerate
    /\ ~(session.regenerating /\ session.status = "READING")
    /\ \E all \in BOOLEAN :
          LET again == {f \in Files : file[f].stage # "FAILED" /\ (all \/ file[f].rec = 0)}
          IN  /\ again # {}
              /\ file' = [f \in Files |->
                     [file[f] EXCEPT !.rec = IF all THEN 0 ELSE @,
                                     !.stage = IF f \in again THEN "DISCOVERED" ELSE @]]
              /\ session' = [session EXCEPT !.status = "READING", !.owner = FALSE, !.regenerating = TRUE,
                                            !.cut = IF all THEN session.batch ELSE @]
    /\ UNCHANGED <<root, command, local>>

(* The process route of a local folder invalidates every suggestion only. *)
RegenerateLocal ==
    /\ ~root.device /\ MayRegenerate
    /\ file' = [f \in Files |-> [file[f] EXCEPT !.rec = 0]]
    /\ session' = [session EXCEPT !.cut = session.batch, !.full = FALSE]
    /\ UNCHANGED <<root, command, local>>

(* A review that rejects the observation of a file. *)
RejectObservation(f) ==
    /\ Usable(f) /\ Request
    /\ file' = [file EXCEPT ![f].obs = 0]
    /\ UNCHANGED <<root, session, command, local>>

TogglePermission ==
    /\ Request
    /\ root' = [root EXCEPT !.recommend = ~@]
    /\ UNCHANGED <<session, file, command, local>>

Retired == IF session.status \in {"READING", "GENERATING"}
           THEN [session EXCEPT !.status = "FAILED", !.owner = FALSE, !.lease = FALSE] ELSE session

(* A folder chosen again: retireRootReadWork. *)
Reconnect ==
    /\ Request
    /\ root' = [root EXCEPT !.rev = @ + 1]
    /\ session' = Retired /\ command' = Close(Files)
    /\ UNCHANGED <<file, local>>

(* requireExecutionReconciliation: a physical outcome supersedes the scan. *)
PhysicalOutcome ==
    /\ ~root.superseded /\ Request
    /\ root' = [root EXCEPT !.superseded = TRUE]
    /\ session' = Retired /\ command' = Close(Files)
    /\ UNCHANGED <<file, local>>

WorkerDies(w) ==
    /\ local[w].pc # "idle" /\ Event
    /\ file' = [f \in Files |-> IF file[f].claim = w THEN [file[f] EXCEPT !.claim = Orphan] ELSE file[f]]
    /\ Finish(w)
    /\ UNCHANGED <<root, session, command>>

----------------------------------------------------------------------------

WorkerStep(w) ==
    \/ FailRead(w) \/ ClaimObservation(w) \/ ReuseRead(w) \/ StoreRead(w) \/ ReadLocal(w)
    \/ ReadAsked(w) \/ ClaimAsked(w) \/ Examine(w) \/ CommitObservation(w)
    \/ ObservationRefused(w) \/ ExpireRead(w) \/ CloseExpired(w)
    \/ TryBatch(w) \/ RecommendFile(w) \/ BatchRefused(w) \/ CompleteSession(w)

Poll(w) == (\E f \in Files : RecoverAbandoned(w, f)) \/ StartOwnBatch(w) \/ ProcessNext(w)

Next ==
    \/ QueueReads \/ LeaseExpires \/ DelayBatch \/ Regenerate \/ RegenerateLocal
    \/ TogglePermission \/ Reconnect \/ PhysicalOutcome
    \/ \E w \in Workers, f \in Files :
          ReportRead(w, f) \/ ReportFailure(w, f) \/ SelectExpired(w, f) \/ ObserveFile(w, f)
    \/ \E w \in Workers : WorkerStep(w) \/ Poll(w) \/ ObservationFails(w) \/ WorkerDies(w)
    \/ \E f \in Files : CommandDue(f) \/ ClaimExpires(f) \/ RetryRead(f) \/ RejectObservation(f)

Spec == Init /\ [][Next]_vars

----------------------------------------------------------------------------

(* However reports, retries and recoveries overlap, a file never carries two
   live observations: the second commit finds its lease or the observation gone.
   The contract below includes it. *)
ObservedOnce == \A f \in Files : file[f].obs <= 1

(* Suggestions a person invalidated do not come back, however late the batch
   that works on the file: what a file has was made by a batch that began after
   the last invalidation.  And a session completed by a full batch since then
   has suggestions for every file it calls ready (persistDrafts,
   prepareOrganizationRecommendationRegeneration). *)
SuggestionsCurrent ==
    /\ \A f \in Files : file[f].rec # 0 => file[f].rec > session.cut
    /\ session.status = "COMPLETED" /\ session.full
         => \A f \in Files : file[f].stage = "READY" /\ Usable(f) => file[f].rec # 0

(* No file of a batch in preparation is claimed, not even by a request that is gone. *)
BatchUndisturbed ==
    session.status = "GENERATING" => \A f \in Files : Free(f)

(* A batch works on files nobody is changing and what it leaves is current. *)
BatchCoherent == SuggestionsCurrent /\ BatchUndisturbed

(* A request works on a file from its claim to its observation or failure. *)
Working(w) == local[w].pc \in {"reuse", "store", "read", "ask", "examine", "observe"}

(* What the contract of owned work sees of files and requests. *)
Held == [f \in Files |-> file[f].claim]
Lapsed == {f \in Files : file[f].claim # None /\ file[f].expired}
Beliefs == [w \in Workers |-> IF Working(w) THEN local[w].file ELSE None]
Products == [f \in Files |-> file[f].obs]

Claims == INSTANCE OwnedWork WITH
    Items <- Files, NoWorker <- None, NoItem <- None,
    holder <- Held, lapsed <- Lapsed, belief <- Beliefs, product <- Products

(* Whatever expires, dies, is recovered or reported again: a claim is taken over
   only when it is free or late, nobody but its holder gives it up early, and a
   request that lost its file changes nothing of it (withOwnedObservationLease,
   releaseObservationLease).  A request may end and leave its claim behind. *)
ImplementsOwnedWork == Claims!Spec
=============================================================================
