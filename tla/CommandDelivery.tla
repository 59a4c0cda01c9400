-------------------------- MODULE CommandDelivery --------------------------
(***************************************************************************)
(* Delivery of signed commands from the cloud coordinator to the native    *)
(* Bridge and of their reports back: the durable command row, the native   *)
(* command journal, the report outbox and the replay-key cache.            *)
(*                                                                         *)
(*   apps/bridge/src/main/command-runner.ts  processPendingBridgeCommands  *)
(*   apps/bridge/src/main/command-journal.ts, command-outbox.ts            *)
(*   src/lib/bridge/cloud-coordinator.ts     acknowledge.., complete..     *)
(*   src/lib/bridge/command-lifecycle.ts, recoverable-commands.ts          *)
(*                                                                         *)
(* The native process runs one poll at a time.  Its durable writes and its *)
(* requests are separate steps; a request or its answer may be lost and    *)
(* the process may die between any two steps.  A command's filesystem      *)
(* actions are folded into one, whose own journal is MoveJournal's         *)
(* subject: here it is "none", "journaled" or "done".                      *)
(***************************************************************************)
EXTENDS Integers, Sequences, FiniteSets

CONSTANTS
    Physical,       \* EXECUTE_PLAN and EXECUTE_UNDO commands
    Control,        \* every other command bound to the root
    None,           \* no report, no current command
    ReplayLimit,    \* replayCacheLimit (500 in the code)
    MaxCrashes,     \* bound: process deaths
    MaxLost         \* bound: requests or answers lost by the network

Commands == Physical \cup Control

ASSUME ConstantsAssumption ==
    /\ Physical \cap Control = {}
    /\ None \notin Commands
    /\ ReplayLimit \in Nat \ {0}
    /\ MaxCrashes \in Nat /\ MaxLost \in Nat

VARIABLES
    row,        \* cloud: BridgeCommand.status
    outcome,    \* cloud: what the run's actions record for a physical command
    expired,    \* commands whose expiresAt has passed
    authority,  \* cloud: "granted", "root" (root denied or reconnected) or "revoked"
    phase,      \* native command journal: file and phase of each command
    outbox,     \* native report outbox: command -> report or None
    keys,       \* native replay-key cache, oldest first
    act,        \* native action journal of a physical command
    starts,     \* history: calls of executeCommand per command
    pc,         \* next step of the poll, "idle" between polls
    toFlush,    \* reports flushPendingReports has still to send
    skip,       \* deliveredReports and pendingReports of this poll
    hist,       \* historicalIds of this poll
    known,      \* replayKeys as loaded by this poll
    todo,       \* commands of this poll not processed yet
    cur,        \* command being processed
    admitted,   \* its acknowledgement succeeded
    never,      \* neverStarted handed to recoverBridgePhysicalActions
    rep,        \* report being submitted
    crashes, lost

cloud == <<row, outcome, expired, authority>>
native == <<phase, outbox, keys, act, starts>>
poll == <<toFlush, skip, hist, known, todo, cur, admitted, never, rep>>
vars == <<row, outcome, expired, authority, phase, outbox, keys, act, starts, pc,
          toFlush, skip, hist, known, todo, cur, admitted, never, rep, crashes, lost>>

Terminal == {"COMPLETED", "FAILED", "REJECTED", "EXPIRED", "CANCELLED"}
Statuses == Terminal \cup {"PENDING", "ACKNOWLEDGED", "RUNNING"}

(* verdict is what the report proves about the physical effect; RECOVERY is the
   category COMMAND_RECOVERY_REQUIRED. *)
Verdicts == {"CHANGED", "NONE", "RECOVERY"}
ReportSet == [status : {"COMPLETED", "FAILED", "REJECTED"}, verdict : Verdicts]

(* "LEGACY" is a journal without a phase; "SENT" is one already marked delivered
   that still lies in the hot directory. *)
Phases == {"NONE", "PREPARED", "LEGACY", "STARTED", "SENT", "HISTORY"}
Unfinished == {"PREPARED", "LEGACY", "STARTED"}

Labels == {"idle", "flush", "flushRemove", "flushKey", "fetch", "next", "rejectAck", "ack",
           "decide", "execute", "effect", "recover", "queue", "submit", "dequeue",
           "deliver", "archive", "key"}

TypeOK ==
    /\ row \in [Commands -> Statuses]
    /\ outcome \in [Physical -> Verdicts \cup {"none"}]
    /\ expired \subseteq Commands
    /\ authority \in {"granted", "root", "revoked"}
    /\ phase \in [Physical -> Phases]
    /\ outbox \in [Commands -> ReportSet \cup {None}]
    /\ keys \in Seq(Commands) /\ Len(keys) <= ReplayLimit
    /\ act \in [Physical -> {"none", "journaled", "done"}]
    /\ starts \in [Commands -> Nat]
    /\ pc \in Labels
    /\ toFlush \subseteq Commands /\ skip \subseteq Commands /\ hist \subseteq Physical
    /\ known \subseteq Commands /\ todo \subseteq Commands
    /\ cur \in Commands \cup {None}
    /\ admitted \in BOOLEAN /\ never \in BOOLEAN
    /\ rep \in ReportSet \cup {None}
    /\ crashes \in 0..MaxCrashes /\ lost \in 0..MaxLost

(* Every command has been signed and queued (createBridgeCloudCommand). *)
Init ==
    /\ row = [c \in Commands |-> "PENDING"]
    /\ outcome = [c \in Physical |-> "none"]
    /\ expired = {} /\ authority = "granted"
    /\ phase = [c \in Physical |-> "NONE"]
    /\ outbox = [c \in Commands |-> None]
    /\ keys = <<>>
    /\ act = [c \in Physical |-> "none"]
    /\ starts = [c \in Commands |-> 0]
    /\ pc = "idle"
    /\ toFlush = {} /\ skip = {} /\ hist = {} /\ known = {} /\ todo = {}
    /\ cur = None /\ admitted = FALSE /\ never = FALSE /\ rep = None
    /\ crashes = 0 /\ lost = 0

(***************************************************************************)
(* Requests to the cloud.                                                  *)
(***************************************************************************)

(* acknowledgeBridgeCloudCommand: the row afterwards, and whether the request
   succeeds.  A revoked device is not authenticated; rows that already ended other
   than by expiry or cancellation answer the request successfully. *)
AckRow(c) ==
    IF row[c] # "PENDING" \/ authority = "revoked" THEN row[c]
    ELSE IF authority = "root" THEN "CANCELLED"
    ELSE IF c \in expired THEN "EXPIRED"
    ELSE "ACKNOWLEDGED"

AckAccepted(c) ==
    /\ authority # "revoked"
    /\ \/ row[c] \in {"COMPLETED", "FAILED", "REJECTED"}
       \/ row[c] \in {"ACKNOWLEDGED", "RUNNING"} /\ authority = "granted"
       \/ row[c] = "PENDING" /\ authority = "granted" /\ c \notin expired

(* The complete route and completeBridgeCloudCommand: a terminal row is left
   alone, an unacknowledged one refuses the report, an unresolved outcome (or a
   rejection, which carries no action results) keeps a physical command RUNNING. *)
CompleteRow(c, r) ==
    IF row[c] \notin {"ACKNOWLEDGED", "RUNNING"} THEN row[c]
    ELSE IF r.verdict = "RECOVERY" \/ (c \in Physical /\ r.status = "REJECTED") THEN "RUNNING"
    ELSE r.status

(* applyRemoteExecutionReport / applyRemoteUndoReport. *)
CompleteOutcome(c, r) ==
    IF row[c] \notin {"ACKNOWLEDGED", "RUNNING"} THEN outcome[c]
    ELSE IF r.status = "REJECTED" THEN "RECOVERY"
    ELSE r.verdict

(* The request is lost, its answer is lost, or both arrive. *)
Deliveries == {"lost", "unanswered", "answered"}
Spend(d) == lost' = IF d = "answered" THEN lost ELSE lost + 1
Deliverable(d) == d = "answered" \/ lost < MaxLost

(* Reporting r for c under delivery d: the cloud's part. *)
Complete(c, r, d) ==
    /\ row' = IF d = "lost" THEN row ELSE [row EXCEPT ![c] = CompleteRow(c, r)]
    /\ outcome' = IF d = "lost" \/ c \notin Physical THEN outcome
                  ELSE [outcome EXCEPT ![c] = CompleteOutcome(c, r)]
    /\ UNCHANGED <<expired, authority>>
Reported(c, d) == d = "answered" /\ row[c] # "PENDING"

(* Seeded fault: keys pile up. *)
RememberUnbounded(c) == keys' = Append(keys, c)

(* A key is in the cache at most once, so filtering it out leaves out one place. *)
Without(s, c) ==
    IF \A i \in 1..Len(s) : s[i] # c THEN s
    ELSE LET at == CHOOSE i \in 1..Len(s) : s[i] = c
         IN  [j \in 1..(Len(s) - 1) |-> s[IF j < at THEN j ELSE j + 1]]

(* rememberReplayKey: most recent last, the oldest dropped beyond the limit. *)
Remember(c) ==
    LET s == Append(Without(keys, c), c) IN
    keys' = IF Len(s) > ReplayLimit THEN Tail(s) ELSE s

KeySet == {keys[i] : i \in 1..Len(keys)}

(***************************************************************************)
(* processPendingBridgeCommands.                                           *)
(***************************************************************************)

(* pollCloud goes on only after an accepted heartbeat, which a revoked device does
   not get; flushPendingReports loads the outbox. *)
BeginPoll ==
    /\ pc = "idle"
    /\ authority # "revoked"
    /\ pc' = "flush"
    /\ toFlush' = {c \in Commands : outbox[c] # None}
    /\ skip' = {} /\ hist' = {} /\ known' = {} /\ todo' = {}
    /\ cur' = None /\ admitted' = FALSE /\ never' = FALSE /\ rep' = None
    /\ UNCHANGED <<cloud, native, crashes, lost>>

(* One queued report is sent again; a failure leaves it in the outbox. *)
FlushReport ==
    /\ pc = "flush"
    /\ \E c \in toFlush, d \in Deliveries :
          /\ Deliverable(d) /\ Spend(d)
          /\ Complete(c, outbox[c], d)
          /\ toFlush' = toFlush \ {c}
          /\ IF Reported(c, d)
             THEN pc' = "flushRemove" /\ cur' = c
             ELSE pc' = "flush" /\ cur' = cur
    /\ UNCHANGED <<native, skip, hist, known, todo, admitted, never, rep, crashes>>

FlushRemove ==
    /\ pc = "flushRemove"
    /\ outbox' = [outbox EXCEPT ![cur] = None]
    /\ pc' = "flushKey"
    /\ UNCHANGED <<cloud, phase, keys, act, starts, poll, crashes, lost>>

FlushRemember ==
    /\ pc = "flushKey"
    /\ Remember(cur)
    /\ skip' = skip \cup {cur}
    /\ pc' = "flush"
    /\ UNCHANGED <<cloud, phase, outbox, act, starts, toFlush, hist, known, todo, cur,
                   admitted, never, rep, crashes, lost>>

FlushDone ==
    /\ pc = "flush" /\ toFlush = {}
    /\ pc' = "fetch"
    /\ UNCHANGED <<cloud, native, poll, crashes, lost>>

(* expireUnstartedCommands: unstarted work expires, acknowledged physical work
   does not. *)
ExpireRow(c) ==
    IF c \in expired /\ (row[c] = "PENDING" \/ (c \in Control /\ row[c] \in {"ACKNOWLEDGED", "RUNNING"}))
    THEN "EXPIRED" ELSE row[c]

(* The rows fetchRecoverableBridgeCommands returns after expiring. *)
Fetchable(c) ==
    /\ authority = "granted"
    /\ ExpireRow(c) \in {"PENDING", "ACKNOWLEDGED", "RUNNING"}
    /\ c \notin expired \/ (c \in Physical /\ ExpireRow(c) # "PENDING")

(* The unfinished journals, the fetched commands, the replay keys and the outbox
   fix what this poll looks at; without any journal a failed fetch ends it. *)
Fetch ==
    LET unfinished == {c \in Physical : phase[c] \in Unfinished} IN
    /\ pc = "fetch"
    /\ \E d \in Deliveries :
          /\ Deliverable(d) /\ Spend(d)
          /\ row' = IF d = "lost" \/ authority = "revoked" THEN row ELSE [c \in Commands |-> ExpireRow(c)]
          /\ todo' = unfinished \cup
                (IF d = "answered" THEN {c \in Commands : Fetchable(c)} ELSE {})
          /\ pc' = IF (d = "answered" /\ authority # "revoked") \/ unfinished # {} THEN "next" ELSE "idle"
    /\ hist' = unfinished
    /\ known' = KeySet
    /\ skip' = skip \cup {c \in Commands : outbox[c] # None}
    /\ UNCHANGED <<outcome, expired, authority, native, toFlush, cur, admitted, never, rep, crashes>>

(* Commands whose report was just delivered or is still queued are passed over. *)
SkipReported ==
    /\ pc = "next"
    /\ \E c \in todo \cap skip : todo' = todo \ {c}
    /\ UNCHANGED <<cloud, native, pc, toFlush, skip, hist, known, cur, admitted, never, rep,
                   crashes, lost>>

(* Expired work without a journal, and control work whose key is known. *)
Rejected(c) == (c \in expired /\ c \notin hist) \/ (c \in Control /\ c \in known)

RejectCommand ==
    /\ pc = "next"
    /\ \E c \in todo \ skip :
          /\ Rejected(c)
          /\ cur' = c
          /\ rep' = [status |-> "REJECTED",
                     verdict |-> IF c \in expired /\ c \notin hist THEN "NONE" ELSE "RECOVERY"]
          /\ todo' = todo \ {c}
    /\ pc' = "rejectAck"
    /\ UNCHANGED <<cloud, native, toFlush, skip, hist, known, admitted, never, crashes, lost>>

(* The rejection acknowledges first and ignores the answer. *)
RejectAck ==
    /\ pc = "rejectAck"
    /\ \E d \in Deliveries :
          /\ Deliverable(d) /\ Spend(d)
          /\ row' = IF d = "lost" THEN row ELSE [row EXCEPT ![cur] = AckRow(cur)]
    /\ pc' = "queue"
    /\ UNCHANGED <<outcome, expired, authority, native, poll, crashes>>

(* preparePhysicalCommand, or the replay key of a control command. *)
Prepare ==
    /\ pc = "next"
    /\ \E c \in todo \ skip :
          /\ ~Rejected(c)
          /\ cur' = c
          /\ todo' = todo \ {c}
          /\ \/ /\ c \in Physical
                /\ phase' = IF phase[c] # "NONE" THEN phase
                            ELSE [phase EXCEPT ![c] = IF c \in known THEN "LEGACY" ELSE "PREPARED"]
                /\ UNCHANGED <<keys, known>>
             \/ /\ c \in Control
                /\ Remember(c)
                /\ known' = known \cup {c}
                /\ UNCHANGED phase
    /\ pc' = "ack"
    /\ UNCHANGED <<cloud, outbox, act, starts, toFlush, skip, hist, admitted, never, rep,
                   crashes, lost>>

(* A failed acknowledgement ends the poll, unless the command has a journal from
   an earlier poll. *)
Acknowledge ==
    /\ pc = "ack"
    /\ \E d \in Deliveries :
          LET ok == d = "answered" /\ AckAccepted(cur) IN
          /\ Deliverable(d) /\ Spend(d)
          /\ row' = IF d = "lost" THEN row ELSE [row EXCEPT ![cur] = AckRow(cur)]
          /\ admitted' = ok
          /\ pc' = IF ok \/ cur \in hist THEN "decide" ELSE "idle"
    /\ UNCHANGED <<outcome, expired, authority, native, toFlush, skip, hist, known, todo, cur,
                   never, rep, crashes>>

NeverStarted(c) == c \in Physical /\ phase[c] = "PREPARED"

(* Seeded fault: a started journal of an earlier poll does not count. *)
HistoricalOnlyForgetsStart(c) ==
    c \in Physical /\ (~admitted \/ c \in expired \/ c \in known)

HistoricalOnly(c) ==
    c \in Physical /\ (~admitted \/ c \in expired \/ c \in known \/ (c \in hist /\ ~NeverStarted(c)))

(* Historical work is only recovered; anything else is durably STARTED first.
   Marking fails when the hot journal is gone, which leads to the catch. *)
Decide ==
    /\ pc = "decide"
    /\ \/ /\ HistoricalOnly(cur)
          /\ pc' = "recover"
          /\ never' = NeverStarted(cur)
          /\ rep' = [status |-> "COMPLETED", verdict |-> "RECOVERY"]
          /\ UNCHANGED phase
       \/ /\ cur \in Physical /\ ~HistoricalOnly(cur) /\ phase[cur] = "HISTORY"
          /\ pc' = "recover"
          /\ never' = FALSE
          /\ rep' = [status |-> "FAILED", verdict |-> "RECOVERY"]
          /\ UNCHANGED phase
       \/ /\ ~HistoricalOnly(cur) /\ ~(cur \in Physical /\ phase[cur] = "HISTORY")
          /\ phase' = IF cur \in Physical THEN [phase EXCEPT ![cur] = "STARTED"] ELSE phase
          /\ pc' = "execute"
          /\ UNCHANGED <<never, rep>>
    /\ UNCHANGED <<cloud, outbox, keys, act, starts, toFlush, skip, hist, known, todo, cur,
                   admitted, crashes, lost>>

Answer(status, verdict) ==
    /\ rep' = [status |-> status, verdict |-> verdict]
    /\ pc' = "queue"
    /\ UNCHANGED never

(* executeCommand.  A control command succeeds or throws.  A physical one throws
   before its first action (authority, permission or preview), finds no action it
   may admit, or writes an action journal. *)
Execute ==
    /\ pc = "execute"
    /\ starts' = [starts EXCEPT ![cur] = @ + 1]
    /\ \/ /\ cur \in Control
          /\ Answer("COMPLETED", "CHANGED") \/ Answer("FAILED", "NONE")
          /\ UNCHANGED act
       \/ /\ cur \in Physical
          /\ rep' = [status |-> "FAILED", verdict |-> "RECOVERY"]
          /\ never' = FALSE
          /\ pc' = "recover"
          /\ UNCHANGED act
       \/ /\ cur \in Physical
          /\ Answer("COMPLETED", "NONE")
          /\ UNCHANGED act
       \/ /\ cur \in Physical
          /\ act' = [act EXCEPT ![cur] = "journaled"]
          /\ pc' = "effect"
          /\ UNCHANGED <<rep, never>>
    /\ UNCHANGED <<cloud, phase, outbox, keys, toFlush, skip, hist, known, todo, cur,
                   admitted, crashes, lost>>

(* The journaled action completes, or its outcome stays unknown. *)
Effect ==
    /\ pc = "effect"
    /\ \/ act' = [act EXCEPT ![cur] = "done"] /\ Answer("COMPLETED", "CHANGED")
       \/ UNCHANGED act /\ Answer("COMPLETED", "RECOVERY")
    /\ UNCHANGED <<cloud, phase, outbox, keys, starts, toFlush, skip, hist, known, todo, cur,
                   admitted, crashes, lost>>

(* Seeded fault: a journaled action is reported as a change without proof. *)
RecoverAssumesDone ==
    /\ pc = "recover"
    /\ \/ act[cur] # "none" /\ Answer(rep.status, "CHANGED")
       \/ act[cur] = "none" /\ Answer(rep.status, IF never THEN "NONE" ELSE "RECOVERY")
    /\ UNCHANGED <<act, cloud, phase, outbox, keys, starts, toFlush, skip, hist, known, todo,
                   cur, admitted, crashes, lost>>

(* recoverBridgePhysicalActions: a journaled action may turn out complete; no
   journal proves no effect only for a command that never started. *)
Recover ==
    /\ pc = "recover"
    /\ \/ /\ act[cur] = "done" /\ Answer(rep.status, "CHANGED")
          /\ UNCHANGED act
       \/ /\ act[cur] = "journaled"
          /\ \/ act' = [act EXCEPT ![cur] = "done"] /\ Answer(rep.status, "CHANGED")
             \/ UNCHANGED act /\ Answer(rep.status, "RECOVERY")
       \/ /\ act[cur] = "none" /\ Answer(rep.status, IF never THEN "NONE" ELSE "RECOVERY")
          /\ UNCHANGED act
    /\ UNCHANGED <<cloud, phase, outbox, keys, starts, toFlush, skip, hist, known, todo, cur,
                   admitted, crashes, lost>>

(* submitPersistedReport: persist, send, forget. *)
QueueReport ==
    /\ pc = "queue"
    /\ outbox' = [outbox EXCEPT ![cur] = rep]
    /\ pc' = "submit"
    /\ UNCHANGED <<cloud, phase, keys, act, starts, poll, crashes, lost>>

(* Seeded fault: the report is forgotten whatever the request answered. *)
SubmitReportOnce ==
    /\ pc = "submit"
    /\ \E d \in Deliveries :
          /\ Deliverable(d) /\ Spend(d)
          /\ Complete(cur, rep, d)
    /\ pc' = "dequeue"
    /\ UNCHANGED <<native, poll, crashes>>

SubmitReport ==
    /\ pc = "submit"
    /\ \E d \in Deliveries :
          /\ Deliverable(d) /\ Spend(d)
          /\ Complete(cur, rep, d)
          /\ pc' = IF Reported(cur, d) THEN "dequeue" ELSE "next"
    /\ UNCHANGED <<native, poll, crashes>>

RemoveReport ==
    /\ pc = "dequeue"
    /\ outbox' = [outbox EXCEPT ![cur] = None]
    /\ pc' = IF cur \in Physical /\ rep.status # "REJECTED" /\ rep.verdict # "RECOVERY"
             THEN "deliver" ELSE "next"
    /\ UNCHANGED <<cloud, phase, keys, act, starts, poll, crashes, lost>>

(* markPhysicalCommandDelivered writes the flag, then moves the file. *)
MarkDelivered ==
    /\ pc = "deliver"
    /\ phase' = [phase EXCEPT ![cur] = "SENT"]
    /\ pc' = "archive"
    /\ UNCHANGED <<cloud, outbox, keys, act, starts, poll, crashes, lost>>

MoveToHistory ==
    /\ pc = "archive"
    /\ phase' = [phase EXCEPT ![cur] = "HISTORY"]
    /\ pc' = "key"
    /\ UNCHANGED <<cloud, outbox, keys, act, starts, poll, crashes, lost>>

RememberDelivered ==
    /\ pc = "key"
    /\ Remember(cur)
    /\ pc' = "next"
    /\ UNCHANGED <<cloud, phase, outbox, act, starts, poll, crashes, lost>>

EndPoll ==
    /\ pc = "next" /\ todo = {}
    /\ pc' = "idle"
    /\ UNCHANGED <<cloud, native, poll, crashes, lost>>

(***************************************************************************)
(* The environment.                                                        *)
(***************************************************************************)

Crash ==
    /\ pc # "idle"
    /\ crashes < MaxCrashes
    /\ crashes' = crashes + 1
    /\ pc' = "idle"
    /\ UNCHANGED <<cloud, native, poll, lost>>

(* expiresAt passes, for the cloud and the Bridge alike. *)
PassExpiry ==
    /\ \E c \in Commands \ expired : expired' = expired \cup {c}
    /\ UNCHANGED <<row, outcome, authority, native, pc, poll, crashes, lost>>

(* Seeded fault: losing the root cancels acknowledged physical work as well. *)
WithoutUnstartedAndAcknowledged ==
    [c \in Commands |-> IF row[c] \notin Terminal THEN "CANCELLED" ELSE row[c]]

(* retireRootReadWork cancels every open control row; settleUnstartedCommands
   cancels PENDING rows.  Acknowledged physical work stays. *)
WithoutReadWork ==
    [c \in Commands |-> IF c \in Control /\ row[c] \notin Terminal THEN "CANCELLED" ELSE row[c]]
WithoutUnstarted ==
    [c \in Commands |->
        IF row[c] = "PENDING" \/ (c \in Control /\ row[c] \notin Terminal)
        THEN "CANCELLED" ELSE row[c]]

(* The owner disconnects the root. *)
DisconnectRoot ==
    /\ authority = "granted"
    /\ authority' = "root"
    /\ row' = WithoutUnstarted
    /\ UNCHANGED <<outcome, expired, native, pc, poll, crashes, lost>>

(* A newer native connection revision replaces the one the commands name. *)
ReconnectRoot ==
    /\ authority = "granted"
    /\ authority' = "root"
    /\ row' = WithoutReadWork
    /\ UNCHANGED <<outcome, expired, native, pc, poll, crashes, lost>>

(* revokeBridgeDevice. *)
RevokeDevice ==
    /\ authority # "revoked"
    /\ authority' = "revoked"
    /\ row' = WithoutUnstarted
    /\ UNCHANGED <<outcome, expired, native, pc, poll, crashes, lost>>

Poll ==
    \/ BeginPoll \/ FlushReport \/ FlushRemove \/ FlushRemember \/ FlushDone \/ Fetch
    \/ SkipReported \/ RejectCommand \/ RejectAck \/ Prepare \/ Acknowledge \/ Decide
    \/ Execute \/ Effect \/ Recover \/ QueueReport \/ SubmitReport \/ RemoveReport
    \/ MarkDelivered \/ MoveToHistory \/ RememberDelivered \/ EndPoll

Next == Poll \/ Crash \/ PassExpiry \/ DisconnectRoot \/ ReconnectRoot \/ RevokeDevice

Spec == Init /\ [][Next]_vars

(* pollCloud runs again and again, and the network loses finitely many requests. *)
FairSpec == Spec /\ WF_vars(Poll)

(***************************************************************************)
(* Properties.                                                             *)
(***************************************************************************)

(* No command is executed twice, whatever is lost and wherever the process dies:
   the journal phase protects physical commands, the replay key the others
   (processPendingBridgeCommands; holds while the cache has room for every key). *)
AtMostOnce == \A c \in Commands : starts[c] <= 1

(* A command the cloud expired or cancelled never touched the disk: PENDING is
   the only state these settle, and no live execution starts before the cloud
   acknowledged it (settleUnstartedCommands against an acknowledgement in flight). *)
WithdrawnUntouched ==
    \A c \in Physical : row[c] \in {"EXPIRED", "CANCELLED"} => act[c] = "none"

(* The cloud records a change only for an action the Bridge's own journal proves
   complete, and such a command is settled (applyRemoteExecutionReport). *)
ChangeProven ==
    \A c \in Physical : outcome[c] = "CHANGED" => act[c] = "done" /\ row[c] \in Terminal

(* The Bridge archives a physical command only after the cloud settled it, so no
   crash between sending, forgetting and archiving strands an outcome
   (markPhysicalCommandDelivered). *)
ArchivedAfterSettled ==
    \A c \in Physical : phase[c] \in {"SENT", "HISTORY"} => row[c] \in Terminal

(* A command is begun at most once, and not at all once the cloud withdrew it.  (It
   may still be begun after it was settled without effect: see CommandContract.) *)
EffectOnce == AtMostOnce /\ WithdrawnUntouched

(* What the cloud records of a change, and what the Bridge forgets about it,
   rest on a settled, proven outcome. *)
OutcomeProven == ChangeProven /\ ArchivedAfterSettled

(* A change the Bridge made is eventually known to the cloud, through lost requests
   and a crash anywhere, even when the root is disconnected or the command expires
   meanwhile: unless the device is revoked, or the command had already been settled
   without effect (submitPersistedReport, flushPendingReports, the command journal). *)
ChangeReported ==
    \A c \in Physical :
        (act[c] = "done" /\ outcome[c] # "NONE")
            ~> (outcome[c] = "CHANGED" \/ authority = "revoked")

(* What a reader of the cloud's tables sees of a physical command. *)
Settled ==
    [c \in Physical |->
        IF row[c] \in {"EXPIRED", "CANCELLED"} THEN "withdrawn"
        ELSE IF row[c] \in Terminal THEN outcome[c]
        ELSE "open"]

Contract == INSTANCE CommandContract WITH Commands <- Physical, effect <- act, settled <- Settled

(* Through every loss of a request or an answer, and every race with expiry and
   revocation, the poll, the journal, the outbox and the cloud routes together
   implement the contract of a command. *)
ImplementsContract == Contract!Spec
=============================================================================
