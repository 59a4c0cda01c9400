---------------------------- MODULE PhysicalRun ----------------------------
(***************************************************************************)
(* Execution and Undo of one approved plan on a local root, as the web     *)
(* service runs them: admission, the two transactions around every action, *)
(* publication of the outcome, settlement of the run, and the journal-only *)
(* recovery that a page view starts for every run still RUNNING.           *)
(*                                                                         *)
(*   src/lib/bridge/executor.ts                  executeOrganizationPlan   *)
(*   src/lib/bridge/plan-execution-authority.ts  claimPlanExecution        *)
(*   src/lib/bridge/undo.ts                      executeExecutionUndo      *)
(*   src/lib/bridge/local-physical-recovery.ts   executeLocalPhysicalRun   *)
(*   src/lib/bridge/execution-reconciliation.ts                            *)
(*                                        requireExecutionReconciliation   *)
(*                                                                         *)
(* A worker is a request of the service.  A step is one transaction, or    *)
(* one part of the long transaction that holds the root row while the      *)
(* filesystem works.  A filesystem action is one step with the outcomes    *)
(* that MoveJournal and FolderJournal reach; recovery reads what they      *)
(* leave.  A run is an execution when it is its own base, an Undo of its   *)
(* base otherwise.                                                         *)
(***************************************************************************)
EXTENDS Integers, FiniteSets

CONSTANTS
    N,              \* actions of the plan, in sequence
    Folders,        \* the actions that create a folder; the others move a file
    Workers,        \* concurrent requests of the web service
    MaxRuns,        \* bound: execution and Undo runs
    None,           \* "no run", "nobody"
    MaxCrashes,     \* bound: requests that die
    MaxChanges,     \* bound: changes of the root's grant or connection
    MaxTimeouts,    \* bound: transactions that exceed their 120 seconds
    MaxRemovals     \* bound: files another program removes

ASSUME RunAssumption ==
    /\ N \in Nat \ {0} /\ MaxRuns \in Nat \ {0}
    /\ Folders \subseteq 1..N
    /\ None \notin Workers /\ None \notin Nat
    /\ Workers \cap {"PREPARED", "UNMARKED"} = {}
    /\ MaxCrashes \in Nat /\ MaxChanges \in Nat
    /\ MaxTimeouts \in Nat /\ MaxRemovals \in Nat

Actions == 1..N
Runs == 1..MaxRuns

VARIABLES
    base,       \* run -> the execution it belongs to; None while not created
    run,        \* run -> status
    runRev,     \* run -> physicalRootRevision; None for a run of an older deployment
    status,     \* run -> action -> status of its row, ABSENT without a row
    mark,       \* run -> action -> safeErrorCategory: PREPARED, the STARTED owner, or neither
    recon,      \* run -> reconciliationStatus of an execution
    plan,       \* status and updatedAt of the organization plan
    root,       \* connection revision, grant and physicalInventoryGeneration
    lock,       \* the worker whose transaction holds the root row
    journal,    \* run -> action -> durable journal of the action
    place,      \* action -> where its file or folder is
    local,      \* worker -> volatile state of its request
    starts,     \* history: run -> action -> filesystem operations begun
    ungranted,  \* history: an operation changed the disk without a current grant
    counts      \* crashes, changes, timeouts and removals so far

database == <<base, run, runRev, status, mark, recon, plan, root>>
disk == <<journal, place>>
history == <<starts, ungranted>>
vars == <<base, run, runRev, status, mark, recon, plan, root, lock, journal,
          place, local, starts, ungranted, counts>>

RunStatuses == {"NONE", "RUNNING", "COMPLETED", "PARTIALLY_COMPLETED", "FAILED"}
RowStatuses == {"ABSENT", "PENDING", "COMPLETED", "FAILED"}
JournalStates == {"NONE", "INTENT", "LINKED", "CAPTURED", "COMPLETED", "EXISTING"}
Places == {"source", "both", "destination", "lost"}
Steps == {"idle", "planLoaded", "undoPreviewed", "claim", "enter", "attempt",
          "settle", "publish", "finish"}
Locals == [pc : Steps, run : Runs \cup {None}, at : Actions, claimed : BOOLEAN,
           allowed : BOOLEAN, stop : BOOLEAN, result : RowStatuses,
           chosen : SUBSET Actions, seen : Nat]

TypeOK ==
    /\ base \in [Runs -> Runs \cup {None}]
    /\ run \in [Runs -> RunStatuses]
    /\ runRev \in [Runs -> Nat \cup {None}]
    /\ status \in [Runs -> [Actions -> RowStatuses]]
    /\ mark \in [Runs -> [Actions -> {"PREPARED", "UNMARKED"} \cup Workers]]
    /\ recon \in [Runs -> {"PENDING", "REQUIRED", "NOT_STARTED"}]
    /\ plan \in [status : {"READY_FOR_EXECUTION", "EXECUTED"}, updatedAt : Nat]
    /\ root \in [rev : Nat, permitted : BOOLEAN, generation : Nat]
    /\ lock \in Workers \cup {None}
    /\ journal \in [Runs -> [Actions -> JournalStates]]
    /\ place \in [Actions -> Places]
    /\ local \in [Workers -> Locals]
    /\ starts \in [Runs -> [Actions -> 0..2]]
    /\ ungranted \in BOOLEAN
    /\ counts \in [crashes : 0..MaxCrashes, changes : 0..MaxChanges,
                   timeouts : 0..MaxTimeouts, removals : 0..MaxRemovals]

Idle == [pc |-> "idle", run |-> None, at |-> 1, claimed |-> FALSE, allowed |-> FALSE,
         stop |-> FALSE, result |-> "ABSENT", chosen |-> {}, seen |-> 0]

(* A reviewed plan that never ran, of which a folder may exist already. *)
NewPlan ==
    /\ base = [r \in Runs |-> None]
    /\ run = [r \in Runs |-> "NONE"]
    /\ runRev = [r \in Runs |-> 0]
    /\ status = [r \in Runs |-> [a \in Actions |-> "ABSENT"]]
    /\ place \in [Actions -> {"source", "both"}]
    /\ \A a \in Actions \ Folders : place[a] = "source"

(* A run that an older deployment left: no revision, no markers, no journal,
   and any of its effects may have happened. *)
LegacyRun ==
    /\ base = [r \in Runs |-> IF r = 1 THEN 1 ELSE None]
    /\ run = [r \in Runs |-> IF r = 1 THEN "RUNNING" ELSE "NONE"]
    /\ runRev = [r \in Runs |-> IF r = 1 THEN None ELSE 0]
    /\ status = [r \in Runs |-> [a \in Actions |-> IF r = 1 THEN "PENDING" ELSE "ABSENT"]]
    /\ place \in [Actions -> {"source", "destination"}]

Init ==
    /\ NewPlan \/ LegacyRun
    /\ mark = [r \in Runs |-> [a \in Actions |-> "UNMARKED"]]
    /\ recon = [r \in Runs |-> "PENDING"]
    /\ plan = [status |-> "READY_FOR_EXECUTION", updatedAt |-> 0]
    /\ root = [rev |-> 0, permitted |-> TRUE, generation |-> 0]
    /\ lock = None
    /\ journal = [r \in Runs |-> [a \in Actions |-> "NONE"]]
    /\ local = [w \in Workers |-> Idle]
    /\ starts = [r \in Runs |-> [a \in Actions |-> 0]]
    /\ ungranted = FALSE
    /\ counts = [crashes |-> 0, changes |-> 0, timeouts |-> 0, removals |-> 0]

(***************************************************************************)
(* Runs and their rows.                                                    *)
(***************************************************************************)

IsUndo(r) == base[r] \notin {r, None}
Rows(r) == {a \in Actions : status[r][a] # "ABSENT"}
Completed(r) == {a \in Actions : status[r][a] = "COMPLETED"}
Fresh(r) == base[r] = None /\ \A q \in Runs : q < r => base[q] # None

(* completedExecutionActions orders an Undo by descending sequence. *)
Before(undo, a, b) == IF undo THEN a > b ELSE a < b
FirstOf(undo, S) == {a \in S : \A b \in S : ~Before(undo, b, a)}
Later(r, a) == {b \in Rows(r) : Before(IsUndo(r), a, b)}

UndosOf(e) == {u \in Runs : base[u] = e /\ u # e}
Undone(e) == UNION {Completed(u) : u \in UndosOf(e)}

(* localPhysicalPermission and the revision the run was admitted with. *)
Granted(r) == root.permitted /\ runRev[r] = root.rev

From(r) == IF IsUndo(r) THEN "destination" ELSE "source"
To(r) == IF IsUndo(r) THEN "source" ELSE "destination"

(* The loop over the action ids, after an action whose state lets it go on. *)
Advance(w, stop) ==
    LET r == local[w].run
        rest == Later(r, local[w].at)
    IN  \/ /\ rest = {}
           /\ local' = [local EXCEPT ![w].pc = "finish", ![w].stop = stop]
        \/ \E a \in FirstOf(IsUndo(r), rest) :
              local' = [local EXCEPT ![w].pc = "claim", ![w].stop = stop, ![w].at = a]

Begin(r, a) == [Idle EXCEPT !.pc = "claim", !.run = r, !.at = a]

(***************************************************************************)
(* Admission.                                                              *)
(***************************************************************************)

(* blockingPlanExecutionWhere, and the compare-and-set on updatedAt. *)
ClaimPlanExecution(seen) ==
    /\ plan.status = "READY_FOR_EXECUTION"
    /\ plan.updatedAt = seen
    /\ \A r \in Runs : base[r] = r =>
          run[r] \notin {"RUNNING", "COMPLETED", "PARTIALLY_COMPLETED"}

(* executeOrganizationPlan loads the plan and previews it against the database
   and the disk.  A refused preview leaves a BLOCKED record that nothing reads. *)
LoadPlan(w) ==
    /\ local[w].pc = "idle"
    /\ \E r \in Runs : Fresh(r)
    /\ root.permitted /\ ClaimPlanExecution(plan.updatedAt)
    /\ \A a \in Actions : place[a] = "source" \/ (a \in Folders /\ place[a] \in {"both", "destination"})
    /\ local' = [local EXCEPT ![w] = [Idle EXCEPT !.pc = "planLoaded", !.seen = plan.updatedAt]]
    /\ UNCHANGED <<database, lock, disk, history, counts>>

CreateRun(w, r, e, rows, undo) ==
    /\ base' = [base EXCEPT ![r] = e]
    /\ run' = [run EXCEPT ![r] = "RUNNING"]
    /\ runRev' = [runRev EXCEPT ![r] = root.rev]
    /\ status' = [status EXCEPT ![r] = [a \in Actions |-> IF a \in rows THEN "PENDING" ELSE "ABSENT"]]
    /\ mark' = [mark EXCEPT ![r] = [a \in Actions |-> IF a \in rows THEN "PREPARED" ELSE "UNMARKED"]]
    /\ \E a \in FirstOf(undo, rows) : local' = [local EXCEPT ![w] = Begin(r, a)]

(* The admission transaction: it waits for whoever holds the root row. *)
StartExecution(w) ==
    /\ local[w].pc = "planLoaded"
    /\ lock = None
    /\ \/ /\ root.permitted /\ ClaimPlanExecution(local[w].seen)
          /\ \E r \in Runs : Fresh(r) /\ CreateRun(w, r, r, Actions, FALSE)
          /\ plan' = [plan EXCEPT !.updatedAt = @ + 1]
       \/ /\ ~(root.permitted /\ ClaimPlanExecution(local[w].seen) /\ \E r \in Runs : Fresh(r))
          /\ local' = [local EXCEPT ![w] = Idle]
          /\ UNCHANGED <<base, run, runRev, status, mark, plan>>
    /\ UNCHANGED <<recon, root, lock, disk, history, counts>>

(* buildUndoPreview: what is chosen here is used by the later transaction. *)
PreviewUndo(w, e) ==
    LET chosen == Completed(e) \ Undone(e)
    IN  /\ local[w].pc = "idle"
        /\ \E r \in Runs : Fresh(r)
        /\ base[e] = e /\ run[e] \in {"COMPLETED", "PARTIALLY_COMPLETED"}
        /\ \A u \in UndosOf(e) : run[u] \notin {"COMPLETED", "RUNNING"}
        /\ chosen # {}
        /\ \A a \in chosen : place[a] = "destination" /\ journal[e][a] # "EXISTING"
        /\ local' = [local EXCEPT ![w] = [Idle EXCEPT !.pc = "undoPreviewed", !.run = e,
                                                      !.chosen = chosen]]
        /\ UNCHANGED <<database, lock, disk, history, counts>>

(* Seeded fault: the transaction trusts the preview for earlier Undo runs. *)
AdmitsUndoUnchecked(e, chosen) == root.permitted

(* The checks of executeExecutionUndo's transaction. *)
AdmitsUndo(e, chosen) ==
    /\ root.permitted
    /\ chosen \cap Undone(e) = {}
    /\ \A u \in UndosOf(e) : run[u] \notin {"RUNNING", "COMPLETED"}

StartUndo(w) ==
    LET e == local[w].run  chosen == local[w].chosen
    IN  /\ local[w].pc = "undoPreviewed"
        /\ lock = None
        /\ \/ /\ AdmitsUndo(e, chosen)
              /\ \E r \in Runs : Fresh(r) /\ CreateRun(w, r, e, chosen, TRUE)
           \/ /\ ~(AdmitsUndo(e, chosen) /\ \E r \in Runs : Fresh(r))
              /\ local' = [local EXCEPT ![w] = Idle]
              /\ UNCHANGED <<base, run, runRev, status, mark>>
        /\ UNCHANGED <<recon, plan, root, lock, disk, history, counts>>

(* recoverLocalPhysicalRunsForSession reaches a run that was RUNNING. *)
RecoverRun(w, r) ==
    /\ local[w].pc = "idle"
    /\ base[r] # None /\ run[r] = "RUNNING"
    /\ \E a \in FirstOf(IsUndo(r), Rows(r)) : local' = [local EXCEPT ![w] = Begin(r, a)]
    /\ UNCHANGED <<database, lock, disk, history, counts>>

(***************************************************************************)
(* executeLocalPhysicalRun, one action.                                    *)
(***************************************************************************)

(* The first transaction may make this worker the owner of the action. *)
Claimable(w) ==
    LET r == local[w].run  a == local[w].at
    IN  /\ run[r] = "RUNNING" /\ status[r][a] = "PENDING" /\ ~local[w].stop
        /\ mark[r][a] = "PREPARED" /\ Granted(r)

Claim(w) ==
    LET r == local[w].run  a == local[w].at
    IN  /\ local[w].pc = "claim"
        /\ lock = None
        /\ mark' = IF Claimable(w) THEN [mark EXCEPT ![r][a] = w] ELSE mark
        /\ local' = [local EXCEPT ![w].pc = "enter", ![w].claimed = Claimable(w)]
        /\ UNCHANGED <<base, run, runRev, status, recon, plan, root, lock, disk, history, counts>>

(* allowed: this worker still owns the row and the grant is still current. *)
Allowed(w) ==
    LET r == local[w].run
    IN  /\ local[w].claimed /\ mark[r][local[w].at] = w
        /\ ~local[w].stop /\ Granted(r)

(* The second transaction finds the run settled. *)
EnterTerminal(w) ==
    /\ local[w].pc = "enter" /\ lock = None
    /\ run[local[w].run] # "RUNNING"
    /\ local' = [local EXCEPT ![w].pc = "finish"]
    /\ UNCHANGED <<database, lock, disk, history, counts>>

(* It finds the action settled, and goes on behind it. *)
EnterSettled(w) ==
    LET r == local[w].run  a == local[w].at
    IN  /\ local[w].pc = "enter" /\ lock = None
        /\ run[r] = "RUNNING" /\ status[r][a] # "PENDING"
        /\ Advance(w, local[w].stop \/ status[r][a] # "COMPLETED")
        /\ UNCHANGED <<database, lock, disk, history, counts>>

(* A row nobody started is a proven no-effect: PERMISSION_DENIED. *)
EnterPrepared(w) ==
    LET r == local[w].run  a == local[w].at
    IN  /\ local[w].pc = "enter" /\ lock = None
        /\ run[r] = "RUNNING" /\ status[r][a] = "PENDING" /\ mark[r][a] = "PREPARED"
        /\ status' = [status EXCEPT ![r][a] = "FAILED"]
        /\ mark' = [mark EXCEPT ![r][a] = "UNMARKED"]
        /\ Advance(w, TRUE)
        /\ UNCHANGED <<base, run, runRev, recon, plan, root, lock, disk, history, counts>>

(* Otherwise the transaction keeps the root row: it performs the action when
   it is allowed to, and reads the journal alone when it is not. *)
EnterStarted(w) ==
    LET r == local[w].run  a == local[w].at
    IN  /\ local[w].pc = "enter" /\ lock = None
        /\ run[r] = "RUNNING" /\ status[r][a] = "PENDING" /\ mark[r][a] # "PREPARED"
        /\ lock' = w
        /\ local' = [local EXCEPT ![w].allowed = Allowed(w),
                                  ![w].pc = IF Allowed(w) THEN "attempt" ELSE "settle"]
        /\ UNCHANGED <<database, disk, history, counts>>

(***************************************************************************)
(* The filesystem.                                                         *)
(***************************************************************************)

(* What one journaled operation of the Bridge can leave: the journal and the place.  A
   refusal leaves neither; an exception or a death may leave any prefix. *)
Effects(r, a) ==
    {<<"NONE", place[a]>>} \cup
    (IF place[a] # From(r)
     THEN IF a \in Folders /\ ~IsUndo(r) THEN {<<"INTENT", place[a]>>, <<"EXISTING", place[a]>>} ELSE {}
     ELSE {<<"INTENT", place[a]>>, <<"COMPLETED", To(r)>>}
          \cup (IF a \in Folders /\ IsUndo(r) THEN {} ELSE {<<"LINKED", "both">>})
          \cup (IF a \in Folders /\ ~IsUndo(r) THEN {} ELSE {<<"CAPTURED", To(r)>>}))

(* journaledMove, journaledCreateFolder or journaledRemoveFolder.  The worker
   has no way to notice that its transaction has expired. *)
Attempt(w) ==
    LET r == local[w].run  a == local[w].at
    IN  /\ local[w].pc = "attempt"
        /\ \E fx \in Effects(r, a) :
              /\ journal' = [journal EXCEPT ![r][a] = fx[1]]
              /\ place' = [place EXCEPT ![a] = fx[2]]
              /\ ungranted' = (ungranted \/ (fx[2] # place[a] /\ ~Granted(r)))
        /\ starts' = [starts EXCEPT ![r][a] = IF @ = 2 THEN 2 ELSE @ + 1]
        /\ local' = [local EXCEPT ![w].pc = "settle"]
        /\ UNCHANGED <<database, lock, counts>>

(* recoverPhysicalAction: a verified outcome, null (no effect in sight), an
   exception, or no journal at all. *)
Recovered(r, a) ==
    CASE journal[r][a] = "NONE" -> {"absent"}
      [] journal[r][a] \in {"COMPLETED", "EXISTING"} -> {"done"}
      [] journal[r][a] = "INTENT" -> IF a \in Folders THEN {"unproven"} ELSE {"null"}
      [] journal[r][a] = "LINKED" ->
            IF a \in Folders \/ place[a] = "both" THEN {"unproven"}
            ELSE IF place[a] = To(r) THEN {"done"} ELSE {"null"}
      [] journal[r][a] = "CAPTURED" ->
            IF place[a] = To(r) THEN {"done", "unproven"} ELSE {"null", "unproven"}

(* Seeded fault: a live attempt that threw counts as no effect. *)
SettlesUnproven(allowed, found) ==
    IF found = "done" THEN "COMPLETED" ELSE IF allowed THEN "FAILED" ELSE "PENDING"

(* Seeded fault: the row takes the reported effect for its status. *)
SettlesEffect(allowed, found) == IF found = "done" THEN "COMPLETED" ELSE "UNKNOWN"

(* The Bridge's answer: settleFailedPhysicalAction after a live attempt,
   recoverBridgePhysicalActions otherwise.  Only a live attempt that left no
   journal proves that nothing happened. *)
Settles(allowed, found) ==
    IF found = "done" THEN "COMPLETED"
    ELSE IF found = "absent" /\ allowed THEN "FAILED" ELSE "PENDING"

Settle(w) ==
    LET r == local[w].run  a == local[w].at
    IN  /\ local[w].pc = "settle"
        /\ \E found \in Recovered(r, a) :
              /\ journal' = IF found = "done" /\ journal[r][a] # "EXISTING"
                            THEN [journal EXCEPT ![r][a] = "COMPLETED"] ELSE journal
              /\ local' = [local EXCEPT ![w].pc = "publish",
                                        ![w].result = Settles(local[w].allowed, found)]
        /\ UNCHANGED <<database, lock, place, history, counts>>

(* The call threw, or its answer and the answer to the journal-only call that
   follows were lost: outcome keeps the row pending. *)
SettleUnanswered(w) ==
    /\ local[w].pc = "settle"
    /\ local' = [local EXCEPT ![w].pc = "publish", ![w].result = "PENDING"]
    /\ UNCHANGED <<database, lock, disk, history, counts>>

(***************************************************************************)
(* Publication and settlement.                                             *)
(***************************************************************************)

(* physicalResultChanged: an existing folder is a completed action that did
   not change the disk. *)
Changed(r, a, result) == result = "COMPLETED" /\ journal[r][a] # "EXISTING"

(* Seeded fault: a pending result clears the owner of the row. *)
PublishClearsOwner(w) ==
    LET r == local[w].run  a == local[w].at  result == local[w].result
    IN  /\ status' = [status EXCEPT ![r][a] = result]
        /\ mark' = [mark EXCEPT ![r][a] = IF result = "PENDING" THEN "PREPARED" ELSE "UNMARKED"]
        /\ root' = [root EXCEPT !.generation = @ + (IF Changed(r, a, result) THEN 1 ELSE 0)]
        /\ recon' = [recon EXCEPT ![base[r]] = IF Changed(r, a, result) THEN "REQUIRED" ELSE @]

(* Seeded fault: a changed outcome asks for no reconciliation. *)
PublishUnreconciled(w) ==
    LET r == local[w].run  a == local[w].at  result == local[w].result
    IN  /\ status' = [status EXCEPT ![r][a] = result]
        /\ mark' = [mark EXCEPT ![r][a] = IF result = "PENDING" THEN @ ELSE "UNMARKED"]
        /\ root' = [root EXCEPT !.generation = @ + (IF Changed(r, a, result) THEN 1 ELSE 0)]
        /\ recon' = recon

(* The outcome transaction: the row, and the inventory generation and the
   reconciliation the execution owes, together. *)
PublishRow(w) ==
    LET r == local[w].run  a == local[w].at  result == local[w].result
    IN  /\ status' = [status EXCEPT ![r][a] = result]
        /\ mark' = [mark EXCEPT ![r][a] = IF result = "PENDING" THEN @ ELSE "UNMARKED"]
        /\ root' = [root EXCEPT !.generation = @ + (IF Changed(r, a, result) THEN 1 ELSE 0)]
        /\ recon' = [recon EXCEPT ![base[r]] = IF Changed(r, a, result) THEN "REQUIRED" ELSE @]

Publish(w) ==
    /\ local[w].pc = "publish"
    /\ lock = w
    /\ PublishRow(w)
    /\ lock' = None
    /\ \/ /\ local[w].result = "PENDING"
          /\ local' = [local EXCEPT ![w].pc = "finish"]
       \/ /\ local[w].result # "PENDING"
          /\ Advance(w, local[w].stop \/ local[w].result # "COMPLETED")
    /\ UNCHANGED <<base, run, runRev, plan, disk, history, counts>>

(* The transaction expired while the filesystem worked: its writes throw, and
   the request ends without settling anything. *)
PublishExpired(w) ==
    /\ local[w].pc = "publish"
    /\ lock # w
    /\ local' = [local EXCEPT ![w] = Idle]
    /\ UNCHANGED <<database, lock, disk, history, counts>>

(* The parent status the rows imply. *)
SettledStatus(r) ==
    IF \E a \in Rows(r) : status[r][a] = "PENDING" THEN "RUNNING"
    ELSE IF Completed(r) = Rows(r) THEN "COMPLETED"
    ELSE IF Completed(r) # {} THEN "PARTIALLY_COMPLETED" ELSE "FAILED"

Finish(w) ==
    LET r == local[w].run
        success == Completed(r) # {}
    IN  /\ local[w].pc = "finish"
        /\ lock = None
        /\ local' = [local EXCEPT ![w] = Idle]
        /\ \/ /\ run[r] # "RUNNING"
              /\ UNCHANGED <<run, recon, plan>>
           \/ /\ run[r] = "RUNNING"
              /\ run' = [run EXCEPT ![r] = SettledStatus(r)]
              /\ recon' = IF ~IsUndo(r) /\ ~success THEN [recon EXCEPT ![r] = "NOT_STARTED"] ELSE recon
              /\ plan' = IF ~IsUndo(r) /\ success THEN [plan EXCEPT !.status = "EXECUTED"] ELSE plan
        /\ UNCHANGED <<base, runRev, status, mark, root, lock, disk, history, counts>>

(***************************************************************************)
(* The environment.                                                        *)
(***************************************************************************)

(* The request dies; the database rolls its transaction back.  The Bridge is a
   process of its own: a native call that outlives its request changes the disk
   as an expired transaction's does, and Timeout, Attempt and then Crash are its steps. *)
Crash(w) ==
    /\ local[w].pc # "idle"
    /\ counts.crashes < MaxCrashes
    /\ counts' = [counts EXCEPT !.crashes = @ + 1]
    /\ local' = [local EXCEPT ![w] = Idle]
    /\ lock' = IF lock = w THEN None ELSE lock
    /\ UNCHANGED <<database, disk, history>>

(* The transaction of 120 seconds expires under the filesystem call: it is
   rolled back and the root row is free, while the call goes on. *)
Timeout(w) ==
    /\ lock = w
    /\ counts.timeouts < MaxTimeouts
    /\ counts' = [counts EXCEPT !.timeouts = @ + 1]
    /\ lock' = None
    /\ UNCHANGED <<database, disk, local, history>>

(* The owner grants, revokes or reconnects the root: an update of its row. *)
ChangeAuthority ==
    /\ lock = None
    /\ counts.changes < MaxChanges
    /\ counts' = [counts EXCEPT !.changes = @ + 1]
    /\ \E permitted \in BOOLEAN, rev \in {root.rev, root.rev + 1} :
          /\ <<permitted, rev>> # <<root.permitted, root.rev>>
          /\ root' = [root EXCEPT !.permitted = permitted, !.rev = rev]
    /\ UNCHANGED <<base, run, runRev, status, mark, recon, plan, lock, disk, local, history>>

(* Another program removes a file, or one of its two names. *)
RemoveFile(a) ==
    /\ a \notin Folders /\ place[a] # "lost"
    /\ counts.removals < MaxRemovals
    /\ counts' = [counts EXCEPT !.removals = @ + 1]
    /\ \E left \in IF place[a] = "both" THEN {"source", "destination"} ELSE {"lost"} :
          place' = [place EXCEPT ![a] = left]
    /\ UNCHANGED <<database, lock, journal, local, history>>

Work(w) ==
    \/ StartExecution(w) \/ StartUndo(w)
    \/ Claim(w) \/ EnterTerminal(w) \/ EnterSettled(w) \/ EnterPrepared(w) \/ EnterStarted(w)
    \/ Attempt(w) \/ Settle(w) \/ SettleUnanswered(w)
    \/ Publish(w) \/ PublishExpired(w) \/ Finish(w)

Next ==
    \/ \E w \in Workers :
          \/ Work(w) \/ LoadPlan(w) \/ Crash(w) \/ Timeout(w)
          \/ \E r \in Runs : PreviewUndo(w, r) \/ RecoverRun(w, r)
    \/ ChangeAuthority
    \/ \E a \in Actions : RemoveFile(a)

Spec == Init /\ [][Next]_vars

(***************************************************************************)
(* Properties.                                                             *)
(***************************************************************************)

(* The journal says that the disk was changed for good. *)
Moved(r, a) == journal[r][a] \in {"CAPTURED", "COMPLETED"}

(* outcome, publication and the parent's settlement: a row is COMPLETED only
   with a finished journal, and FAILED only when the action left the disk alone. *)
RowsTruthful ==
    \A r \in Runs, a \in Actions :
        /\ status[r][a] = "COMPLETED" => journal[r][a] \in {"COMPLETED", "EXISTING"}
        /\ status[r][a] = "FAILED" => ~Moved(r, a)

(* STARTED owners: whatever crashes, expires or recovers concurrently, the
   filesystem operation of a row is begun at most once. *)
BegunOnce == \A r \in Runs, a \in Actions : starts[r][a] <= 1

(* executeLocalPhysicalRun stops behind an action that is not COMPLETED: an
   operation has begun only when every earlier row of its run is COMPLETED. *)
InSequence ==
    \A r \in Runs, a, b \in Actions :
        (starts[r][b] > 0 /\ a \in Rows(r) /\ Before(IsUndo(r), a, b))
            => status[r][a] = "COMPLETED"

(* completedExecutionActions and the retired count: an executed action is
   restored by at most one Undo, and only one run of the plan is open. *)
RestoredOnce ==
    \A e \in Runs : base[e] = e =>
        /\ \A u, v \in UndosOf(e) : u # v => Completed(u) \cap Completed(v) = {}
        /\ Cardinality({r \in UndosOf(e) \cup {e} : run[r] = "RUNNING"}) <= 1

(* CURRENT-4: the inventory generation counts exactly the published outcomes
   that changed the disk, and each of them left its execution a reconciliation. *)
GenerationExact ==
    root.generation =
        Cardinality({p \in Runs \X Actions : Changed(p[1], p[2], status[p[1]][p[2]])})

(* requireExecutionReconciliation is called in the outcome transaction, and no
   later settlement of the run takes the obligation back. *)
ObligationKept ==
    \A r \in Runs, a \in Actions :
        Changed(r, a, status[r][a]) => recon[base[r]] = "REQUIRED"

(* History agrees with the disk: what was executed and not restored is at its
   destination, what was restored is back, unless another program took it. *)
HistoryMatchesDisk ==
    \A e \in Runs, a \in Actions :
        (base[e] = e /\ Changed(e, a, status[e][a]) /\ \A r \in Runs : run[r] # "RUNNING")
            => place[a] \in {IF a \in Undone(e) THEN "source" ELSE "destination", "lost"}

(* The comment above executeLocalPhysicalRun: the root grant stays locked
   across each physical action and its publication.  It does, as long as no
   transaction of the run expires and frees the row. *)
ChangedUnderGrant == counts.timeouts = 0 => ~ungranted

(* The rows of a run, and the history made of them, tell what is on disk. *)
RunTruthful == RowsTruthful /\ HistoryMatchesDisk

(* Every outcome that changed the disk is published once, with the new
   inventory generation and the obligation to reconcile. *)
OutcomePublished == GenerationExact /\ ObligationKept

(* A run acts in order, restores an action once and, while no transaction
   expires, changes the disk only under the grant it holds. *)
RunDisciplined == InSequence /\ RestoredOnce /\ ChangedUnderGrant
=============================================================================
