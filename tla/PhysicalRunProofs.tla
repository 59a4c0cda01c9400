------------------------- MODULE PhysicalRunProofs -------------------------
(***************************************************************************)
(* Proofs about PhysicalRun, for every plan, every set of requests and     *)
(* every bound: the state stays well typed, the filesystem operation of a  *)
(* row is begun at most once, rows and history tell what is on disk,       *)
(* outcomes are published once, and runs act in order under their grant.   *)
(***************************************************************************)
EXTENDS PhysicalRun, FiniteSetTheorems, TLAPS

(***************************************************************************)
(* Typing.                                                                 *)
(***************************************************************************)

(* Idle is a state a request may be in, and so is every change of one field
   that the actions make. *)
LEMMA IdleTyped == Idle \in Locals
  BY RunAssumption DEF Idle, Locals, Steps, Runs, Actions, RowStatuses

(* The first action of a run is one of its actions. *)
LEMMA FirstOfTyped ==
    ASSUME NEW undo \in BOOLEAN, NEW S \in SUBSET Actions, NEW a \in FirstOf(undo, S)
    PROVE  a \in Actions
  BY DEF FirstOf

(* A request that begins a run is well typed. *)
LEMMA BeginTyped ==
    ASSUME NEW r \in Runs, NEW a \in Actions
    PROVE  Begin(r, a) \in Locals
  BY IdleTyped DEF Begin, Idle, Locals, Steps, RowStatuses

(* A new plan and a run of an older deployment are well typed. *)
LEMMA TypeInit == Init => TypeOK
<1> SUFFICES ASSUME Init PROVE TypeOK
  OBVIOUS
<1> USE DEF Init
<1>1. /\ base \in [Runs -> Runs \cup {None}]
      /\ run \in [Runs -> RunStatuses]
      /\ runRev \in [Runs -> Nat \cup {None}]
      /\ status \in [Runs -> [Actions -> RowStatuses]]
      /\ place \in [Actions -> Places]
  <2>1. CASE NewPlan
    BY <2>1 DEF NewPlan, RunStatuses, RowStatuses, Places
  <2>2. CASE LegacyRun
    <3>1. 1 \in Runs
      BY RunAssumption DEF Runs
    <3> QED
      BY <2>2, <3>1 DEF LegacyRun, RunStatuses, RowStatuses, Places
  <2> QED
    BY <2>1, <2>2
<1>2. local \in [Workers -> Locals]
  BY IdleTyped
<1>3. counts \in [crashes : 0..MaxCrashes, changes : 0..MaxChanges,
                  timeouts : 0..MaxTimeouts, removals : 0..MaxRemovals]
  BY RunAssumption
<1>4. /\ mark \in [Runs -> [Actions -> {"PREPARED", "UNMARKED"} \cup Workers]]
      /\ recon \in [Runs -> {"PENDING", "REQUIRED", "NOT_STARTED"}]
      /\ journal \in [Runs -> [Actions -> JournalStates]]
      /\ starts \in [Runs -> [Actions -> 0..2]]
  BY DEF JournalStates
<1>5. /\ plan \in [status : {"READY_FOR_EXECUTION", "EXECUTED"}, updatedAt : Nat]
      /\ root \in [rev : Nat, permitted : BOOLEAN, generation : Nat]
  OBVIOUS
<1>6. lock \in Workers \cup {None} /\ ungranted \in BOOLEAN
  OBVIOUS
<1> QED
  BY <1>1, <1>2, <1>3, <1>4, <1>5, <1>6 DEF TypeOK

(* Going on behind an action keeps the request well typed. *)
LEMMA AdvanceTyped ==
    ASSUME TypeOK, NEW w \in Workers, NEW stop \in BOOLEAN, Advance(w, stop)
    PROVE  local' \in [Workers -> Locals]
<1> DEFINE l == local[w]
           rest == Later(l.run, l.at)
<1>1. local \in [Workers -> Locals] /\ l \in Locals
  BY DEF TypeOK
<1>2. CASE local' = [local EXCEPT ![w].pc = "finish", ![w].stop = stop]
  <2>1. [l EXCEPT !.pc = "finish", !.stop = stop] \in Locals
    BY <1>1 DEF Steps, Locals
  <2>2. local' = [local EXCEPT ![w] = [l EXCEPT !.pc = "finish", !.stop = stop]]
    BY <1>1, <1>2
  <2> QED
    BY <1>1, <2>1, <2>2
<1>3. ASSUME NEW a \in FirstOf(IsUndo(l.run), rest),
             local' = [local EXCEPT ![w].pc = "claim", ![w].stop = stop, ![w].at = a]
      PROVE  local' \in [Workers -> Locals]
  <2>1. a \in Actions
    BY <1>3 DEF FirstOf, Later, Rows
  <2>2. [l EXCEPT !.pc = "claim", !.stop = stop, !.at = a] \in Locals
    BY <1>1, <2>1 DEF Steps, Locals
  <2>3. local' = [local EXCEPT ![w] = [l EXCEPT !.pc = "claim", !.stop = stop, !.at = a]]
    BY <1>1, <1>3
  <2> QED
    BY <1>1, <2>2, <2>3
<1> QED
  BY <1>2, <1>3 DEF Advance

(* Admission of a run keeps the database and the request well typed. *)
LEMMA CreateRunTyped ==
    ASSUME TypeOK, NEW w \in Workers, NEW r \in Runs, NEW e \in Runs \cup {None},
           NEW rows \in SUBSET Actions, NEW undo \in BOOLEAN, CreateRun(w, r, e, rows, undo)
    PROVE  /\ base' \in [Runs -> Runs \cup {None}]
           /\ run' \in [Runs -> RunStatuses]
           /\ runRev' \in [Runs -> Nat \cup {None}]
           /\ status' \in [Runs -> [Actions -> RowStatuses]]
           /\ mark' \in [Runs -> [Actions -> {"PREPARED", "UNMARKED"} \cup Workers]]
           /\ local' \in [Workers -> Locals]
<1>1. local' \in [Workers -> Locals]
  BY BeginTyped DEF CreateRun, TypeOK, FirstOf
<1> QED
  BY <1>1 DEF CreateRun, TypeOK, RunStatuses, RowStatuses

(* Publication of an outcome keeps the rows, the root and the obligations well
   typed. *)
LEMMA PublishTyped ==
    ASSUME TypeOK, NEW w \in Workers, PublishRow(w)
    PROVE  /\ status' \in [Runs -> [Actions -> RowStatuses]]
           /\ mark' \in [Runs -> [Actions -> {"PREPARED", "UNMARKED"} \cup Workers]]
           /\ root' \in [rev : Nat, permitted : BOOLEAN, generation : Nat]
           /\ recon' \in [Runs -> {"PENDING", "REQUIRED", "NOT_STARTED"}]
<1>1. local[w].result \in RowStatuses
  BY DEF TypeOK, Locals
<1>2. status' \in [Runs -> [Actions -> RowStatuses]]
  BY <1>1 DEF PublishRow, TypeOK
<1>3. mark' \in [Runs -> [Actions -> {"PREPARED", "UNMARKED"} \cup Workers]]
  <2> DEFINE r == local[w].run
             a == local[w].at
             v == IF local[w].result = "PENDING" THEN mark[r][a] ELSE "UNMARKED"
  <2>1. mark \in [Runs -> [Actions -> {"PREPARED", "UNMARKED"} \cup Workers]]
    BY DEF TypeOK
  <2>2. (r \in Runs /\ a \in Actions) => v \in {"PREPARED", "UNMARKED"} \cup Workers
    BY <2>1
  <2>3. mark' = [mark EXCEPT ![r][a] = v]
    BY DEF PublishRow
  <2> HIDE DEF r, a, v
  <2> QED
    BY <2>1, <2>2, <2>3
<1>4. root' \in [rev : Nat, permitted : BOOLEAN, generation : Nat]
  <2>1. PICK d \in {0, 1} : root' = [root EXCEPT !.generation = root.generation + d]
    BY DEF PublishRow
  <2>2. root \in [rev : Nat, permitted : BOOLEAN, generation : Nat]
    BY DEF TypeOK
  <2>3. root.generation + d \in Nat
    BY <2>2
  <2> QED
    BY <2>1, <2>2, <2>3
<1>5. recon' \in [Runs -> {"PENDING", "REQUIRED", "NOT_STARTED"}]
  BY DEF PublishRow, TypeOK
<1> QED
  BY <1>2, <1>3, <1>4, <1>5

(* The part of TypeOK that speaks of the environment's counters. *)
CountsTyped ==
    counts \in [crashes : 0..MaxCrashes, changes : 0..MaxChanges,
                timeouts : 0..MaxTimeouts, removals : 0..MaxRemovals]

(* Every step of every request, and every step around them, keeps the types. *)
LEMMA TypeStep == TypeOK /\ [Next]_vars => TypeOK'
<1> SUFFICES ASSUME TypeOK, [Next]_vars PROVE TypeOK'
  OBVIOUS
<1> USE DEF database, disk, history
<1>1. ASSUME NEW w \in Workers, LoadPlan(w) PROVE TypeOK'
  BY <1>1, IdleTyped DEF LoadPlan, TypeOK, Idle, Locals, Steps
<1>2. ASSUME NEW w \in Workers, StartExecution(w) PROVE TypeOK'
  <2>1. CASE \E r \in Runs : CreateRun(w, r, r, Actions, FALSE) /\ plan' = [plan EXCEPT !.updatedAt = @ + 1]
    <3>1. PICK r \in Runs : CreateRun(w, r, r, Actions, FALSE) /\ plan' = [plan EXCEPT !.updatedAt = @ + 1]
      BY <2>1
    <3> QED
      <4>1. plan' \in [status : {"READY_FOR_EXECUTION", "EXECUTED"}, updatedAt : Nat]
        <5>1. plan \in [status : {"READY_FOR_EXECUTION", "EXECUTED"}, updatedAt : Nat]
          BY DEF TypeOK
        <5> QED
          BY <3>1, <5>1
      <4>2. /\ base' \in [Runs -> Runs \cup {None}]
            /\ run' \in [Runs -> RunStatuses]
            /\ runRev' \in [Runs -> Nat \cup {None}]
            /\ status' \in [Runs -> [Actions -> RowStatuses]]
            /\ mark' \in [Runs -> [Actions -> {"PREPARED", "UNMARKED"} \cup Workers]]
            /\ local' \in [Workers -> Locals]
        BY <3>1, CreateRunTyped
      <4> QED
        BY <1>2, <4>1, <4>2 DEF StartExecution, TypeOK
  <2>2. CASE local' = [local EXCEPT ![w] = Idle] /\ UNCHANGED <<base, run, runRev, status, mark, plan>>
    BY <1>2, <2>2, IdleTyped DEF StartExecution, TypeOK
  <2> QED
    BY <1>2, <2>1, <2>2 DEF StartExecution
<1>3. ASSUME NEW w \in Workers, NEW e \in Runs, PreviewUndo(w, e) PROVE TypeOK'
  <2> DEFINE l == [Idle EXCEPT !.pc = "undoPreviewed", !.run = e,
                               !.chosen = Completed(e) \ Undone(e)]
  <2>1. l \in Locals
    <3>1. Completed(e) \ Undone(e) \in SUBSET Actions
      BY DEF Completed
    <3> QED
      BY <3>1, IdleTyped DEF Locals, Steps
  <2>2. local' = [local EXCEPT ![w] = l]
    BY <1>3 DEF PreviewUndo
  <2>3. local' \in [Workers -> Locals]
    BY <2>1, <2>2 DEF TypeOK
  <2> QED
    BY <1>3, <2>3 DEF PreviewUndo, TypeOK
<1>4. ASSUME NEW w \in Workers, StartUndo(w) PROVE TypeOK'
  <2> DEFINE e == local[w].run
             chosen == local[w].chosen
  <2>1. CASE AdmitsUndo(e, chosen) /\ \E r \in Runs : CreateRun(w, r, e, chosen, TRUE)
    <3>1. PICK r \in Runs : CreateRun(w, r, e, chosen, TRUE)
      BY <2>1
    <3>2. chosen \in SUBSET Actions /\ e \in Runs \cup {None}
      BY DEF TypeOK, Locals
    <3> QED
      BY <1>4, <3>1, <3>2, CreateRunTyped DEF StartUndo, TypeOK
  <2>2. CASE local' = [local EXCEPT ![w] = Idle] /\ UNCHANGED <<base, run, runRev, status, mark>>
    BY <1>4, <2>2, IdleTyped DEF StartUndo, TypeOK
  <2> QED
    BY <1>4, <2>1, <2>2 DEF StartUndo
<1>5. ASSUME NEW w \in Workers, NEW r \in Runs, RecoverRun(w, r) PROVE TypeOK'
  <2>1. PICK a \in FirstOf(IsUndo(r), Rows(r)) : local' = [local EXCEPT ![w] = Begin(r, a)]
    BY <1>5 DEF RecoverRun
  <2>2. Begin(r, a) \in Locals
    BY BeginTyped DEF FirstOf, Rows
  <2> QED
    BY <1>5, <2>1, <2>2 DEF RecoverRun, TypeOK
<1>6. ASSUME NEW w \in Workers, Claim(w) PROVE TypeOK'
  <2>1. local[w] \in Locals /\ local \in [Workers -> Locals]
    BY DEF TypeOK
  <2>2. [local[w] EXCEPT !.pc = "enter", !.claimed = Claimable(w)] \in Locals
    BY <2>1 DEF Locals, Steps, Claimable
  <2>3. local' = [local EXCEPT ![w] = [local[w] EXCEPT !.pc = "enter", !.claimed = Claimable(w)]]
    BY <2>1, <1>6 DEF Claim
  <2>4. local' \in [Workers -> Locals]
    BY <2>1, <2>2, <2>3
  <2>5. mark' \in [Runs -> [Actions -> {"PREPARED", "UNMARKED"} \cup Workers]]
    BY <1>6 DEF Claim, TypeOK
  <2> QED
    BY <1>6, <2>4, <2>5 DEF Claim, TypeOK
<1>7. ASSUME NEW w \in Workers, EnterTerminal(w) PROVE TypeOK'
  <2>1. local[w] \in Locals /\ local \in [Workers -> Locals]
    BY DEF TypeOK
  <2>2. [local[w] EXCEPT !.pc = "finish"] \in Locals
    BY <2>1 DEF Locals, Steps
  <2>3. local' = [local EXCEPT ![w] = [local[w] EXCEPT !.pc = "finish"]]
    BY <2>1, <1>7 DEF EnterTerminal
  <2>4. local' \in [Workers -> Locals]
    BY <2>1, <2>2, <2>3
  <2> QED
    BY <1>7, <2>4 DEF EnterTerminal, TypeOK
<1>8. ASSUME NEW w \in Workers, EnterSettled(w) PROVE TypeOK'
  <2>1. local' \in [Workers -> Locals]
    BY <1>8, AdvanceTyped DEF EnterSettled, TypeOK, Locals
  <2> QED
    BY <1>8, <2>1 DEF EnterSettled, TypeOK
<1>9. ASSUME NEW w \in Workers, EnterPrepared(w) PROVE TypeOK'
  <2>1. local' \in [Workers -> Locals]
    BY <1>9, AdvanceTyped DEF EnterPrepared
  <2>2. status' \in [Runs -> [Actions -> RowStatuses]]
    BY <1>9 DEF EnterPrepared, TypeOK, RowStatuses
  <2>3. mark' \in [Runs -> [Actions -> {"PREPARED", "UNMARKED"} \cup Workers]]
    BY <1>9 DEF EnterPrepared, TypeOK
  <2> QED
    BY <1>9, <2>1, <2>2, <2>3 DEF EnterPrepared, TypeOK
<1>10. ASSUME NEW w \in Workers, EnterStarted(w) PROVE TypeOK'
  <2>1. local[w] \in Locals /\ local \in [Workers -> Locals]
    BY DEF TypeOK
  <2>2. [local[w] EXCEPT !.allowed = Allowed(w), !.pc = IF Allowed(w) THEN "attempt" ELSE "settle"] \in Locals
    BY <2>1 DEF Locals, Steps, Allowed
  <2>3. local' = [local EXCEPT ![w] = [local[w] EXCEPT !.allowed = Allowed(w), !.pc = IF Allowed(w) THEN "attempt" ELSE "settle"]]
    BY <2>1, <1>10 DEF EnterStarted
  <2>4. local' \in [Workers -> Locals]
    BY <2>1, <2>2, <2>3
  <2> QED
    BY <1>10, <2>4 DEF EnterStarted, TypeOK
<1>11. ASSUME NEW w \in Workers, Attempt(w) PROVE TypeOK'
  <2>1. local[w] \in Locals /\ local \in [Workers -> Locals]
    BY DEF TypeOK
  <2>2. [local[w] EXCEPT !.pc = "settle"] \in Locals
    BY <2>1 DEF Locals, Steps
  <2>3. local' = [local EXCEPT ![w] = [local[w] EXCEPT !.pc = "settle"]]
    BY <2>1, <1>11 DEF Attempt
  <2>4. local' \in [Workers -> Locals]
    BY <2>1, <2>2, <2>3
  <2>5. PICK fx \in Effects(local[w].run, local[w].at) :
           /\ journal' = [journal EXCEPT ![local[w].run][local[w].at] = fx[1]]
           /\ place' = [place EXCEPT ![local[w].at] = fx[2]]
    BY <1>11 DEF Attempt
  <2>6. local[w].at \in Actions
    BY <2>1 DEF Locals
  <2>7. fx[1] \in JournalStates /\ fx[2] \in Places
    BY <2>6 DEF Effects, From, To, TypeOK, JournalStates, Places
  <2>8. journal' \in [Runs -> [Actions -> JournalStates]]
    BY <2>5, <2>7 DEF TypeOK
  <2>9. place' \in [Actions -> Places]
    BY <2>5, <2>7 DEF TypeOK
  <2>10. starts' \in [Runs -> [Actions -> 0..2]]
    <3> DEFINE r == local[w].run
               a == local[w].at
               v == IF starts[r][a] = 2 THEN 2 ELSE starts[r][a] + 1
    <3>1. starts \in [Runs -> [Actions -> 0..2]]
      BY DEF TypeOK
    <3>2. (r \in Runs /\ a \in Actions) => v \in 0..2
      BY <3>1
    <3>3. starts' = [starts EXCEPT ![r][a] = v]
      BY <1>11 DEF Attempt
    <3> HIDE DEF r, a, v
    <3> QED
      BY <3>1, <3>2, <3>3
  <2>11. ungranted' \in BOOLEAN
    BY <1>11 DEF Attempt, TypeOK
  <2> QED
    BY <1>11, <2>4, <2>8, <2>9, <2>10, <2>11 DEF Attempt, TypeOK
<1>12. ASSUME NEW w \in Workers, Settle(w) PROVE TypeOK'
  <2>1. local[w] \in Locals /\ local \in [Workers -> Locals]
    BY DEF TypeOK
  <2>2. PICK result \in RowStatuses :
           local' = [local EXCEPT ![w].pc = "publish", ![w].result = result]
    BY <1>12 DEF Settle, Settles, RowStatuses
  <2>3. [local[w] EXCEPT !.pc = "publish", !.result = result] \in Locals
    BY <2>1 DEF Locals, Steps
  <2>4. local' = [local EXCEPT ![w] = [local[w] EXCEPT !.pc = "publish", !.result = result]]
    BY <2>1, <2>2
  <2>5. local' \in [Workers -> Locals]
    BY <2>1, <2>3, <2>4
  <2>6. journal' \in [Runs -> [Actions -> JournalStates]]
    <3>1. journal \in [Runs -> [Actions -> JournalStates]] /\ "COMPLETED" \in JournalStates
      BY DEF TypeOK, JournalStates
    <3>2. \/ journal' = journal
          \/ journal' = [journal EXCEPT ![local[w].run][local[w].at] = "COMPLETED"]
      BY <1>12 DEF Settle
    <3> QED
      BY <3>1, <3>2
  <2> QED
    BY <1>12, <2>5, <2>6 DEF Settle, TypeOK
<1>13. ASSUME NEW w \in Workers, SettleUnanswered(w) PROVE TypeOK'
  <2>1. local[w] \in Locals /\ local \in [Workers -> Locals]
    BY DEF TypeOK
  <2>2. [local[w] EXCEPT !.pc = "publish", !.result = "PENDING"] \in Locals
    BY <2>1 DEF Locals, Steps, RowStatuses
  <2>3. local' = [local EXCEPT ![w] = [local[w] EXCEPT !.pc = "publish", !.result = "PENDING"]]
    BY <2>1, <1>13 DEF SettleUnanswered
  <2>4. local' \in [Workers -> Locals]
    BY <2>1, <2>2, <2>3
  <2> QED
    BY <1>13, <2>4 DEF SettleUnanswered, TypeOK
<1>14. ASSUME NEW w \in Workers, Publish(w) PROVE TypeOK'
  <2>1. local[w] \in Locals /\ local \in [Workers -> Locals]
    BY DEF TypeOK
  <2>2. CASE local' = [local EXCEPT ![w].pc = "finish"]
    <3>1. [local[w] EXCEPT !.pc = "finish"] \in Locals
      BY <2>1 DEF Locals, Steps
    <3>2. local' = [local EXCEPT ![w] = [local[w] EXCEPT !.pc = "finish"]]
      BY <2>1, <2>2
    <3> QED
      BY <2>1, <3>1, <3>2, PublishTyped, <1>14 DEF Publish, TypeOK
  <2>3. CASE Advance(w, local[w].stop \/ local[w].result # "COMPLETED")
    <3>1. local' \in [Workers -> Locals]
      BY <2>1, <2>3, AdvanceTyped DEF Locals
    <3> QED
      BY <3>1, PublishTyped, <1>14 DEF Publish, TypeOK
  <2> QED
    BY <1>14, <2>2, <2>3 DEF Publish
<1>15. ASSUME NEW w \in Workers, PublishExpired(w) PROVE TypeOK'
  BY <1>15, IdleTyped DEF PublishExpired, TypeOK
<1>16. ASSUME NEW w \in Workers, Finish(w) PROVE TypeOK'
  <2>1. local' \in [Workers -> Locals]
    BY <1>16, IdleTyped DEF Finish, TypeOK
  <2>2. run' \in [Runs -> RunStatuses]
    <3>1. SettledStatus(local[w].run) \in RunStatuses
      BY DEF SettledStatus, RunStatuses
    <3>2. run' = run \/ run' = [run EXCEPT ![local[w].run] = SettledStatus(local[w].run)]
      BY <1>16 DEF Finish
    <3> QED
      BY <3>1, <3>2 DEF TypeOK
  <2>3. recon' \in [Runs -> {"PENDING", "REQUIRED", "NOT_STARTED"}]
    BY <1>16 DEF Finish, TypeOK
  <2>4. plan' \in [status : {"READY_FOR_EXECUTION", "EXECUTED"}, updatedAt : Nat]
    BY <1>16 DEF Finish, TypeOK
  <2> QED
    BY <1>16, <2>1, <2>2, <2>3, <2>4 DEF Finish, TypeOK
<1>17. ASSUME NEW w \in Workers, Crash(w) PROVE TypeOK'
  <2>1. local' \in [Workers -> Locals] /\ lock' \in Workers \cup {None}
    BY <1>17, IdleTyped DEF Crash, TypeOK
  <2>2. CountsTyped'
    <3>1. CountsTyped
      BY DEF TypeOK, CountsTyped
    <3> QED
      BY <1>17, <3>1, RunAssumption DEF Crash, CountsTyped
  <2> QED
    BY <1>17, <2>1, <2>2 DEF Crash, TypeOK, CountsTyped
<1>18. ASSUME NEW w \in Workers, Timeout(w) PROVE TypeOK'
  <2>1. CountsTyped'
    <3>1. CountsTyped
      BY DEF TypeOK, CountsTyped
    <3> QED
      BY <1>18, <3>1, RunAssumption DEF Timeout, CountsTyped
  <2> QED
    BY <1>18, <2>1 DEF Timeout, TypeOK, CountsTyped
<1>19. ASSUME ChangeAuthority PROVE TypeOK'
  <2>1. CountsTyped'
    <3>1. CountsTyped
      BY DEF TypeOK, CountsTyped
    <3> QED
      BY <1>19, <3>1, RunAssumption DEF ChangeAuthority, CountsTyped
  <2>2. root' \in [rev : Nat, permitted : BOOLEAN, generation : Nat]
    <3>1. root \in [rev : Nat, permitted : BOOLEAN, generation : Nat]
      BY DEF TypeOK
    <3>2. PICK p \in BOOLEAN, v \in {root.rev, root.rev + 1} :
             /\ <<p, v>> # <<root.permitted, root.rev>>
             /\ root' = [root EXCEPT !.permitted = p, !.rev = v]
      BY <1>19, Zenon DEF ChangeAuthority
    <3>3. v \in Nat
      BY <3>1
    <3> QED
      BY <3>1, <3>2, <3>3
  <2> QED
    BY <1>19, <2>1, <2>2 DEF ChangeAuthority, TypeOK, CountsTyped
<1>20. ASSUME NEW a \in Actions, RemoveFile(a) PROVE TypeOK'
  <2>1. CountsTyped'
    <3>1. CountsTyped
      BY DEF TypeOK, CountsTyped
    <3> QED
      BY <1>20, <3>1, RunAssumption DEF RemoveFile, CountsTyped
  <2>2. place' \in [Actions -> Places]
    BY <1>20 DEF RemoveFile, TypeOK, Places
  <2> QED
    BY <1>20, <2>1, <2>2 DEF RemoveFile, TypeOK, CountsTyped
<1>21. CASE UNCHANGED vars
  BY <1>21 DEF vars, TypeOK
<1> QED
  BY <1>1, <1>2, <1>3, <1>4, <1>5, <1>6, <1>7, <1>8, <1>9, <1>10, <1>11, <1>12, <1>13,
     <1>14, <1>15, <1>16, <1>17, <1>18, <1>19, <1>20, <1>21 DEF Next, Work

(* Every reachable state of PhysicalRun is well typed. *)
THEOREM TypeCorrect == Spec => []TypeOK
  BY TypeInit, TypeStep, PTL DEF Spec

(***************************************************************************)
(* One operation per row.                                                  *)
(***************************************************************************)

(* The steps of a request that has a run to work on. *)
Bound == {"claim", "enter", "attempt", "settle", "publish", "finish"}

(* A prepared row, and a row of a run that does not exist, was never begun. *)
PreparedUnbegun ==
    \A r \in Runs, a \in Actions :
        (mark[r][a] = "PREPARED" \/ base[r] = None) => starts[r][a] = 0

(* A request works on a run that exists. *)
RequestsBound ==
    \A w \in Workers :
        /\ local[w].pc \in Bound => local[w].run \in Runs /\ base[local[w].run] # None
        /\ local[w].pc = "undoPreviewed" => local[w].run \in Runs

(* A request that has claimed a row and still owns it has not begun it. *)
OwnersUnbegun ==
    \A w \in Workers :
        (local[w].pc = "enter" /\ local[w].claimed /\ mark[local[w].run][local[w].at] = w)
            => starts[local[w].run][local[w].at] = 0

(* Before the filesystem call the row is unbegun, and nobody else can have
   become its owner: it is still owned, or settled by a recovery. *)
AttemptsOwned ==
    \A w \in Workers : local[w].pc = "attempt" =>
        /\ starts[local[w].run][local[w].at] = 0
        /\ mark[local[w].run][local[w].at] \in {w, "UNMARKED"}

(* No two requests are before the filesystem call of the same row. *)
AttemptsApart ==
    \A v, w \in Workers : (v # w /\ local[v].pc = "attempt" /\ local[w].pc = "attempt")
        => local[v].run # local[w].run \/ local[v].at # local[w].at

(* The inductive invariant behind BegunOnce. *)
OwnerInv ==
    /\ PreparedUnbegun /\ RequestsBound /\ OwnersUnbegun
    /\ AttemptsOwned /\ AttemptsApart /\ BegunOnce

(* Initially nothing has begun and no request is under way. *)
LEMMA OwnerInit == Init => OwnerInv
<1> SUFFICES ASSUME Init PROVE OwnerInv
  OBVIOUS
<1>1. \A w \in Workers : local[w].pc = "idle"
  BY DEF Init, Idle
<1>2. \A r \in Runs, a \in Actions : starts[r][a] = 0
  BY DEF Init
<1> QED
  BY <1>1, <1>2 DEF OwnerInv, PreparedUnbegun, RequestsBound, OwnersUnbegun, AttemptsOwned,
                    AttemptsApart, BegunOnce, Bound

(* A step of one request that begins nothing, makes nobody an owner, and leaves
   the request outside the steps that rely on ownership. *)
LEMMA HarmlessStep ==
    ASSUME TypeOK, OwnerInv, NEW w \in Workers,
           starts' = starts, base' = base,
           \A r \in Runs, a \in Actions : mark'[r][a] \in {mark[r][a], "UNMARKED"},
           \A v \in Workers : v # w => local'[v] = local[v],
           local'[w].pc \notin {"enter", "attempt"},
           local'[w].pc \in Bound => local'[w].run \in Runs /\ base[local'[w].run] # None,
           local'[w].pc = "undoPreviewed" => local'[w].run \in Runs
    PROVE  OwnerInv'
<1>1. PreparedUnbegun'
  BY DEF OwnerInv, PreparedUnbegun
<1>2. RequestsBound'
  BY DEF OwnerInv, RequestsBound
<1>3. \A v \in Workers : local[v].at \in Actions
  BY DEF TypeOK, Locals
<1>4. "UNMARKED" \notin Workers
  BY RunAssumption
<1>5. ASSUME NEW v \in Workers, local'[v].pc \in {"enter", "attempt"}
      PROVE  /\ local'[v] = local[v] /\ local[v].run \in Runs /\ local[v].at \in Actions
             /\ mark'[local[v].run][local[v].at] \in {mark[local[v].run][local[v].at], "UNMARKED"}
  BY <1>3, <1>5 DEF OwnerInv, RequestsBound, Bound
<1>6. OwnersUnbegun'
  BY <1>4, <1>5 DEF OwnerInv, OwnersUnbegun
<1>7. AttemptsOwned'
  BY <1>5 DEF OwnerInv, AttemptsOwned
<1>8. AttemptsApart'
  BY <1>5 DEF OwnerInv, AttemptsApart
<1>9. BegunOnce'
  BY DEF OwnerInv, BegunOnce
<1> QED
  BY <1>1, <1>2, <1>6, <1>7, <1>8, <1>9 DEF OwnerInv

(* A request that returns to idle is harmless. *)
LEMMA IdleHarmless ==
    ASSUME TypeOK, OwnerInv, NEW w \in Workers,
           local' = [local EXCEPT ![w] = Idle], UNCHANGED <<starts, base, mark>>
    PROVE  OwnerInv'
<1>1. local'[w] = Idle /\ \A v \in Workers : v # w => local'[v] = local[v]
  BY DEF TypeOK
<1>2. Idle.pc = "idle"
  BY DEF Idle
<1> QED
  BY <1>1, <1>2, HarmlessStep DEF Bound

(* Going on behind an action stays with the run. *)
LEMMA AdvanceHarmless ==
    ASSUME TypeOK, OwnerInv, NEW w \in Workers, NEW stop \in BOOLEAN, Advance(w, stop),
           local[w].pc \in Bound, UNCHANGED <<starts, base>>,
           \A r \in Runs, a \in Actions : mark'[r][a] \in {mark[r][a], "UNMARKED"}
    PROVE  OwnerInv'
<1>1. local \in [Workers -> Locals] /\ local[w] \in Locals
  BY DEF TypeOK
<1>2. /\ local'[w].pc \in {"finish", "claim"} /\ local'[w].run = local[w].run
      /\ \A v \in Workers : v # w => local'[v] = local[v]
  <2>1. CASE local' = [local EXCEPT ![w].pc = "finish", ![w].stop = stop]
    BY <1>1, <2>1 DEF Locals
  <2>2. ASSUME NEW a, local' = [local EXCEPT ![w].pc = "claim", ![w].stop = stop, ![w].at = a]
        PROVE  /\ local'[w].pc = "claim" /\ local'[w].run = local[w].run
               /\ \A v \in Workers : v # w => local'[v] = local[v]
    BY <1>1, <2>2 DEF Locals
  <2> QED
    BY <2>1, <2>2 DEF Advance
<1>3. local[w].run \in Runs /\ base[local[w].run] # None
  BY DEF OwnerInv, RequestsBound
<1> QED
  BY <1>2, <1>3, HarmlessStep

(* A change of the position to a step that does not rely on ownership. *)
LEMMA MoveOnHarmless ==
    ASSUME TypeOK, OwnerInv, NEW w \in Workers, NEW pc \in {"settle", "publish", "finish"},
           NEW l \in Locals, l.pc = pc, l.run = local[w].run,
           local' = [local EXCEPT ![w] = l],
           local[w].pc \in Bound, UNCHANGED <<starts, base>>,
           \A r \in Runs, a \in Actions : mark'[r][a] \in {mark[r][a], "UNMARKED"}
    PROVE  OwnerInv'
<1>1. local'[w] = l /\ \A v \in Workers : v # w => local'[v] = local[v]
  BY DEF TypeOK
<1>2. local[w].run \in Runs /\ base[local[w].run] # None
  BY DEF OwnerInv, RequestsBound
<1> QED
  BY <1>1, <1>2, HarmlessStep

(* A new run has prepared rows that nothing has begun, and no request but its
   own works on it. *)
LEMMA CreateRunOwner ==
    ASSUME TypeOK, OwnerInv, NEW w \in Workers, NEW r \in Runs, NEW e \in Runs,
           NEW rows \in SUBSET Actions, NEW undo \in BOOLEAN, Fresh(r),
           CreateRun(w, r, e, rows, undo), starts' = starts
    PROVE  OwnerInv'
<1>1. base[r] = None /\ None \notin Runs
  BY RunAssumption DEF Fresh, Runs
<1>2. /\ base'[r] = e
      /\ \A q \in Runs : q # r => base'[q] = base[q] /\ mark'[q] = mark[q]
  BY DEF CreateRun, TypeOK
<1>3. \A a \in Actions : starts[r][a] = 0
  BY <1>1 DEF OwnerInv, PreparedUnbegun
<1>4. PICK a \in Actions : local' = [local EXCEPT ![w] = Begin(r, a)]
  BY DEF CreateRun, FirstOf
<1>5. /\ local'[w].pc = "claim" /\ local'[w].run = r
      /\ \A v \in Workers : v # w => local'[v] = local[v]
  BY <1>4 DEF Begin, Idle, TypeOK
<1>6. ASSUME NEW v \in Workers, v # w, local[v].pc \in Bound
      PROVE  /\ local'[v] = local[v] /\ local[v].run \in Runs /\ local[v].run # r
             /\ base'[local[v].run] # None
             /\ mark'[local[v].run] = mark[local[v].run]
  BY <1>1, <1>2, <1>5, <1>6 DEF OwnerInv, RequestsBound
<1>7. PreparedUnbegun'
  BY <1>2, <1>3 DEF OwnerInv, PreparedUnbegun
<1>8. RequestsBound'
  BY <1>1, <1>2, <1>5, <1>6 DEF OwnerInv, RequestsBound
<1>9. OwnersUnbegun'
  BY <1>5, <1>6 DEF OwnerInv, OwnersUnbegun, Bound
<1>10. AttemptsOwned'
  BY <1>5, <1>6 DEF OwnerInv, AttemptsOwned, Bound
<1>11. AttemptsApart'
  BY <1>5 DEF OwnerInv, AttemptsApart
<1>12. BegunOnce'
  BY DEF OwnerInv, BegunOnce
<1> QED
  BY <1>7, <1>8, <1>9, <1>10, <1>11, <1>12 DEF OwnerInv

(* The first transaction makes at most this request the owner, of a row that
   nothing has begun. *)
LEMMA ClaimOwner ==
    ASSUME TypeOK, OwnerInv, NEW w \in Workers, Claim(w)
    PROVE  OwnerInv'
<1> DEFINE r == local[w].run
           a == local[w].at
<1>1. r \in Runs /\ base[r] # None /\ a \in Actions
  BY DEF Claim, OwnerInv, RequestsBound, Bound, TypeOK, Locals
<1>2. /\ local'[w].pc = "enter" /\ local'[w].run = r /\ local'[w].at = a
      /\ local'[w].claimed = Claimable(w)
      /\ \A v \in Workers : v # w => local'[v] = local[v]
  BY DEF Claim, TypeOK, Locals
<1>3. UNCHANGED <<starts, base>>
  BY DEF Claim, history
<1>4. "PREPARED" \notin Workers /\ "UNMARKED" \notin Workers
  BY RunAssumption
<1>5. CASE ~Claimable(w)
  <2>1. mark' = mark
    BY <1>5 DEF Claim
  <2>2. RequestsBound'
    BY <1>1, <1>2, <1>3 DEF OwnerInv, RequestsBound
  <2>3. OwnersUnbegun'
    BY <1>2, <1>3, <1>5, <2>1 DEF OwnerInv, OwnersUnbegun
  <2>4. AttemptsOwned' /\ AttemptsApart'
    BY <1>2, <1>3, <2>1 DEF OwnerInv, AttemptsOwned, AttemptsApart
  <2> QED
    BY <1>3, <2>1, <2>2, <2>3, <2>4 DEF OwnerInv, PreparedUnbegun, BegunOnce
<1>6. CASE Claimable(w)
  <2>1. mark[r][a] = "PREPARED" /\ starts[r][a] = 0
    BY <1>1, <1>6 DEF Claimable, OwnerInv, PreparedUnbegun
  <2>2. /\ mark'[r][a] = w
        /\ \A q \in Runs, b \in Actions : (q # r \/ b # a) => mark'[q][b] = mark[q][b]
    BY <1>1, <1>6 DEF Claim, TypeOK
  <2>3. PreparedUnbegun'
    BY <1>3, <1>4, <2>1, <2>2 DEF OwnerInv, PreparedUnbegun
  <2>4. RequestsBound'
    BY <1>1, <1>2, <1>3 DEF OwnerInv, RequestsBound
  <2>5. ASSUME NEW v \in Workers, v # w, local[v].pc \in {"enter", "attempt"}
        PROVE  /\ local[v].run \in Runs /\ local[v].at \in Actions
               /\ local'[v] = local[v]
    BY <1>2, <2>5 DEF OwnerInv, RequestsBound, Bound, TypeOK, Locals
  <2>6. OwnersUnbegun'
    BY <1>2, <1>3, <2>1, <2>2, <2>5 DEF OwnerInv, OwnersUnbegun
  <2>7. AttemptsOwned'
    BY <1>2, <1>3, <1>4, <2>1, <2>2, <2>5 DEF OwnerInv, AttemptsOwned
  <2>8. AttemptsApart'
    BY <1>2 DEF OwnerInv, AttemptsApart
  <2> QED
    BY <1>3, <2>3, <2>4, <2>6, <2>7, <2>8 DEF OwnerInv, BegunOnce
<1> QED
  BY <1>5, <1>6

(* The second transaction lets a request go to the filesystem only while it is
   the recorded owner, so two requests never reach one row. *)
LEMMA EnterStartedOwner ==
    ASSUME TypeOK, OwnerInv, NEW w \in Workers, EnterStarted(w)
    PROVE  OwnerInv'
<1> DEFINE r == local[w].run
           a == local[w].at
<1>1. r \in Runs /\ base[r] # None /\ a \in Actions
  BY DEF EnterStarted, OwnerInv, RequestsBound, Bound, TypeOK, Locals
<1>2. /\ local'[w].pc = IF Allowed(w) THEN "attempt" ELSE "settle"
      /\ local'[w].run = r /\ local'[w].at = a
      /\ \A v \in Workers : v # w => local'[v] = local[v]
  BY DEF EnterStarted, TypeOK, Locals
<1>3. UNCHANGED <<starts, base, mark>>
  BY DEF EnterStarted, history, database
<1>4. Allowed(w) => mark[r][a] = w /\ starts[r][a] = 0
  BY DEF EnterStarted, Allowed, OwnerInv, OwnersUnbegun
<1>5. "UNMARKED" \notin Workers
  BY RunAssumption
<1>6. RequestsBound'
  BY <1>1, <1>2, <1>3 DEF OwnerInv, RequestsBound
<1>7. OwnersUnbegun'
  BY <1>2, <1>3 DEF OwnerInv, OwnersUnbegun
<1>8. AttemptsOwned'
  BY <1>2, <1>3, <1>4 DEF OwnerInv, AttemptsOwned
<1>9. AttemptsApart'
  <2>1. ASSUME NEW v \in Workers, v # w, local[v].pc = "attempt", Allowed(w)
        PROVE  local[v].run # r \/ local[v].at # a
    BY <1>4, <1>5, <2>1 DEF OwnerInv, AttemptsOwned
  <2> QED
    BY <1>2, <2>1 DEF OwnerInv, AttemptsApart
<1> QED
  BY <1>3, <1>6, <1>7, <1>8, <1>9 DEF OwnerInv, PreparedUnbegun, BegunOnce

(* The filesystem call begins a row that nothing had begun, and leaves nobody
   who could begin it again. *)
LEMMA AttemptOwner ==
    ASSUME TypeOK, OwnerInv, NEW w \in Workers, Attempt(w)
    PROVE  OwnerInv'
<1> DEFINE r == local[w].run
           a == local[w].at
<1>1. r \in Runs /\ base[r] # None /\ a \in Actions
  BY DEF Attempt, OwnerInv, RequestsBound, Bound, TypeOK, Locals
<1>2. /\ local'[w].pc = "settle" /\ local'[w].run = r
      /\ \A v \in Workers : v # w => local'[v] = local[v]
  BY DEF Attempt, TypeOK, Locals
<1>3. UNCHANGED <<base, mark>>
  BY DEF Attempt, database
<1>4. starts[r][a] = 0 /\ mark[r][a] \in {w, "UNMARKED"}
  BY DEF Attempt, OwnerInv, AttemptsOwned
<1>5. /\ starts'[r][a] = 1
      /\ \A q \in Runs, b \in Actions : (q # r \/ b # a) => starts'[q][b] = starts[q][b]
  BY <1>1, <1>4 DEF Attempt, TypeOK
<1>6. "PREPARED" \notin Workers /\ "UNMARKED" \notin Workers
  BY RunAssumption
<1>7. PreparedUnbegun'
  BY <1>1, <1>3, <1>4, <1>5, <1>6 DEF OwnerInv, PreparedUnbegun
<1>8. RequestsBound'
  BY <1>1, <1>2, <1>3 DEF OwnerInv, RequestsBound
<1>9. ASSUME NEW v \in Workers, v # w, local[v].pc \in {"enter", "attempt"}
      PROVE  /\ local[v].run \in Runs /\ local[v].at \in Actions
             /\ local'[v] = local[v]
  BY <1>2, <1>9 DEF OwnerInv, RequestsBound, Bound, TypeOK, Locals
<1>10. OwnersUnbegun'
  BY <1>2, <1>3, <1>4, <1>5, <1>6, <1>9 DEF OwnerInv, OwnersUnbegun
<1>11. AttemptsOwned'
  <2>1. local[w].pc = "attempt"
    BY DEF Attempt
  <2> QED
    BY <1>2, <1>3, <1>5, <1>9, <2>1 DEF OwnerInv, AttemptsOwned, AttemptsApart
<1>12. AttemptsApart'
  BY <1>2 DEF OwnerInv, AttemptsApart
<1>13. BegunOnce'
  BY <1>5 DEF OwnerInv, BegunOnce
<1> QED
  BY <1>7, <1>8, <1>10, <1>11, <1>12, <1>13 DEF OwnerInv

(* Every step keeps the owners apart. *)
LEMMA OwnerStep == TypeOK /\ OwnerInv /\ [Next]_vars => OwnerInv'
<1> SUFFICES ASSUME TypeOK, OwnerInv, [Next]_vars PROVE OwnerInv'
  OBVIOUS
<1> USE DEF database, disk, history
<1>1. ASSUME NEW w \in Workers, LoadPlan(w) PROVE OwnerInv'
  <2>1. /\ local'[w].pc = "planLoaded"
        /\ \A v \in Workers : v # w => local'[v] = local[v]
    BY <1>1 DEF LoadPlan, TypeOK, Idle
  <2> QED
    BY <1>1, <2>1, HarmlessStep DEF LoadPlan, Bound
<1>2. ASSUME NEW w \in Workers, StartExecution(w) PROVE OwnerInv'
  <2>1. CASE \E r \in Runs : Fresh(r) /\ CreateRun(w, r, r, Actions, FALSE)
    BY <1>2, <2>1, CreateRunOwner DEF StartExecution
  <2>2. CASE local' = [local EXCEPT ![w] = Idle] /\ UNCHANGED <<base, mark>>
    BY <1>2, <2>2, IdleHarmless DEF StartExecution
  <2> QED
    BY <1>2, <2>1, <2>2 DEF StartExecution
<1>3. ASSUME NEW w \in Workers, NEW e \in Runs, PreviewUndo(w, e) PROVE OwnerInv'
  <2>1. /\ local'[w].pc = "undoPreviewed" /\ local'[w].run = e
        /\ \A v \in Workers : v # w => local'[v] = local[v]
    BY <1>3 DEF PreviewUndo, TypeOK, Idle
  <2> QED
    BY <1>3, <2>1, HarmlessStep DEF PreviewUndo, Bound
<1>4. ASSUME NEW w \in Workers, StartUndo(w) PROVE OwnerInv'
  <2>1. local[w].run \in Runs /\ local[w].chosen \in SUBSET Actions
    BY <1>4 DEF StartUndo, OwnerInv, RequestsBound, TypeOK, Locals
  <2>2. CASE \E r \in Runs : Fresh(r) /\ CreateRun(w, r, local[w].run, local[w].chosen, TRUE)
    BY <1>4, <2>1, <2>2, CreateRunOwner DEF StartUndo
  <2>3. CASE local' = [local EXCEPT ![w] = Idle] /\ UNCHANGED <<base, mark>>
    BY <1>4, <2>3, IdleHarmless DEF StartUndo
  <2> QED
    BY <1>4, <2>2, <2>3 DEF StartUndo
<1>5. ASSUME NEW w \in Workers, NEW r \in Runs, RecoverRun(w, r) PROVE OwnerInv'
  <2>1. /\ local'[w].pc = "claim" /\ local'[w].run = r /\ base[r] # None
        /\ \A v \in Workers : v # w => local'[v] = local[v]
    BY <1>5 DEF RecoverRun, TypeOK, Begin, Idle
  <2> QED
    BY <1>5, <2>1, HarmlessStep DEF RecoverRun
<1>6. ASSUME NEW w \in Workers, Claim(w) PROVE OwnerInv'
  BY <1>6, ClaimOwner
<1>7. ASSUME NEW w \in Workers, EnterTerminal(w) PROVE OwnerInv'
  <2> DEFINE l == [local[w] EXCEPT !.pc = "finish"]
  <2>1. local[w] \in Locals /\ local \in [Workers -> Locals]
    BY DEF TypeOK
  <2>2. l \in Locals /\ l.pc \in {"settle", "publish", "finish"} /\ l.run = local[w].run
    BY <2>1 DEF Locals, Steps
  <2>3. local' = [local EXCEPT ![w] = l] /\ local[w].pc \in Bound
    BY <1>7, <2>1 DEF EnterTerminal, Bound
  <2> QED
    BY <1>7, <2>2, <2>3, MoveOnHarmless DEF EnterTerminal
<1>8. ASSUME NEW w \in Workers, EnterSettled(w) PROVE OwnerInv'
  BY <1>8, AdvanceHarmless DEF EnterSettled, Bound, TypeOK, Locals
<1>9. ASSUME NEW w \in Workers, EnterPrepared(w) PROVE OwnerInv'
  <2>1. \A r \in Runs, a \in Actions : mark'[r][a] \in {mark[r][a], "UNMARKED"}
    BY <1>9 DEF EnterPrepared, TypeOK
  <2> QED
    BY <1>9, <2>1, AdvanceHarmless DEF EnterPrepared, Bound
<1>10. ASSUME NEW w \in Workers, EnterStarted(w) PROVE OwnerInv'
  BY <1>10, EnterStartedOwner
<1>11. ASSUME NEW w \in Workers, Attempt(w) PROVE OwnerInv'
  BY <1>11, AttemptOwner
<1>12. ASSUME NEW w \in Workers, Settle(w) PROVE OwnerInv'
  <2>1. local[w] \in Locals /\ local \in [Workers -> Locals]
    BY DEF TypeOK
  <2>2. PICK result \in RowStatuses :
           local' = [local EXCEPT ![w].pc = "publish", ![w].result = result]
    BY <1>12 DEF Settle, Settles, RowStatuses
  <2> DEFINE l == [local[w] EXCEPT !.pc = "publish", !.result = result]
  <2>3. l \in Locals /\ l.pc = "publish" /\ l.run = local[w].run
    BY <2>1 DEF Locals, Steps
  <2>4. local' = [local EXCEPT ![w] = l] /\ local[w].pc \in Bound
    BY <1>12, <2>1, <2>2 DEF Settle, Bound
  <2> QED
    BY <1>12, <2>3, <2>4, MoveOnHarmless DEF Settle
<1>13. ASSUME NEW w \in Workers, SettleUnanswered(w) PROVE OwnerInv'
  <2> DEFINE l == [local[w] EXCEPT !.pc = "publish", !.result = "PENDING"]
  <2>1. local[w] \in Locals /\ local \in [Workers -> Locals]
    BY DEF TypeOK
  <2>2. l \in Locals /\ l.pc \in {"settle", "publish", "finish"} /\ l.run = local[w].run
    BY <2>1 DEF Locals, Steps, RowStatuses
  <2>3. local' = [local EXCEPT ![w] = l] /\ local[w].pc \in Bound
    BY <1>13, <2>1 DEF SettleUnanswered, Bound
  <2> QED
    BY <1>13, <2>2, <2>3, MoveOnHarmless DEF SettleUnanswered
<1>14. ASSUME NEW w \in Workers, Publish(w) PROVE OwnerInv'
  <2>1. local[w] \in Locals /\ local \in [Workers -> Locals] /\ local[w].pc \in Bound
    BY <1>14 DEF Publish, Bound, TypeOK
  <2>2. \A r \in Runs, a \in Actions : mark'[r][a] \in {mark[r][a], "UNMARKED"}
    BY <1>14 DEF Publish, PublishRow, TypeOK
  <2>3. CASE local' = [local EXCEPT ![w].pc = "finish"]
    <3> DEFINE l == [local[w] EXCEPT !.pc = "finish"]
    <3>1. l \in Locals /\ l.pc = "finish" /\ l.run = local[w].run
      BY <2>1 DEF Locals, Steps
    <3>2. local' = [local EXCEPT ![w] = l]
      BY <2>1, <2>3
    <3> QED
      BY <1>14, <2>1, <2>2, <3>1, <3>2, MoveOnHarmless DEF Publish
  <2>4. CASE Advance(w, local[w].stop \/ local[w].result # "COMPLETED")
    BY <1>14, <2>1, <2>2, <2>4, AdvanceHarmless DEF Publish, Locals
  <2> QED
    BY <1>14, <2>3, <2>4 DEF Publish
<1>15. ASSUME NEW w \in Workers, PublishExpired(w) PROVE OwnerInv'
  BY <1>15, IdleHarmless DEF PublishExpired
<1>16. ASSUME NEW w \in Workers, Finish(w) PROVE OwnerInv'
  BY <1>16, IdleHarmless DEF Finish
<1>17. ASSUME NEW w \in Workers, Crash(w) PROVE OwnerInv'
  BY <1>17, IdleHarmless DEF Crash
<1>18. CASE UNCHANGED <<starts, base, mark, local>>
  BY <1>18 DEF OwnerInv, PreparedUnbegun, RequestsBound, OwnersUnbegun, AttemptsOwned,
               AttemptsApart, BegunOnce
<1>19. ASSUME NEW w \in Workers, Timeout(w) PROVE OwnerInv'
  BY <1>18, <1>19 DEF Timeout
<1>20. ASSUME ChangeAuthority PROVE OwnerInv'
  BY <1>18, <1>20 DEF ChangeAuthority
<1>21. ASSUME NEW a \in Actions, RemoveFile(a) PROVE OwnerInv'
  BY <1>18, <1>21 DEF RemoveFile
<1>22. CASE UNCHANGED vars
  BY <1>18, <1>22 DEF vars
<1> QED
  BY <1>1, <1>2, <1>3, <1>4, <1>5, <1>6, <1>7, <1>8, <1>9, <1>10, <1>11, <1>12, <1>13,
     <1>14, <1>15, <1>16, <1>17, <1>19, <1>20, <1>21, <1>22 DEF Next, Work

(* Whatever requests die, transactions expire or recoveries run side by side,
   the filesystem operation of a row of executeLocalPhysicalRun is begun at
   most once. *)
THEOREM OperationBegunOnce == Spec => []BegunOnce
<1>1. OwnerInv => BegunOnce
  BY DEF OwnerInv
<1> QED
  BY <1>1, TypeInit, TypeStep, OwnerInit, OwnerStep, PTL DEF Spec

(***************************************************************************)
(* What the rows, the journals and the requests know of each other.        *)
(***************************************************************************)

(* A run exists with its rows; a settled run has no pending row, a failed one
   no completed row; a row nobody began has no journal, a COMPLETED row a
   finished one, a FAILED row none at all. *)
TableInv ==
    /\ \A r \in Runs : base[r] = None => run[r] = "NONE" /\ \A a \in Actions : status[r][a] = "ABSENT"
    /\ \A r \in Runs : base[r] # None => run[r] # "NONE" /\ base[base[r]] = base[r]
    /\ \A r \in Runs, a \in Actions : run[r] # "RUNNING" => status[r][a] # "PENDING"
    /\ \A r \in Runs, a \in Actions : run[r] = "FAILED" => status[r][a] # "COMPLETED"
    /\ \A r \in Runs, a \in Actions :
          /\ starts[r][a] = 0 => journal[r][a] = "NONE"
          /\ status[r][a] = "ABSENT" => starts[r][a] = 0
          /\ status[r][a] = "COMPLETED" => journal[r][a] \in {"COMPLETED", "EXISTING"}
          /\ status[r][a] = "FAILED" => journal[r][a] = "NONE"

(* A request works on a row of its run; unless it stopped, behind rows that are
   all COMPLETED; what it is about to publish is what the journal says; and
   while it holds the root row nobody settles its action. *)
AtRow(l) ==
    /\ status[l.run][l.at] # "ABSENT"
    /\ ~l.stop /\ l.pc # "finish" =>
         \A b \in Actions : status[l.run][b] # "ABSENT" /\ Before(IsUndo(l.run), b, l.at) => status[l.run][b] = "COMPLETED"
    /\ l.pc = "attempt" => status[l.run][l.at] = "PENDING" /\ ~l.stop
    /\ l.pc \in {"settle", "publish"} /\ l.allowed => starts[l.run][l.at] = 1
    /\ l.pc = "publish" =>
         /\ l.result # "ABSENT"
         /\ l.result = "COMPLETED" => journal[l.run][l.at] \in {"COMPLETED", "EXISTING"}
         /\ l.result = "FAILED" => journal[l.run][l.at] = "NONE" /\ starts[l.run][l.at] = 1
WorkInv ==
    \A w \in Workers :
        /\ local[w].pc \in Bound => AtRow(local[w])
        /\ lock = w => local[w].pc \in {"attempt", "settle", "publish"}
                       /\ status[local[w].run][local[w].at] = "PENDING"
        /\ local[w].pc = "undoPreviewed" => base[local[w].run] = local[w].run

(* Before the filesystem call the root row is held, unless a transaction
   expired, and the grant cannot change under it. *)
GrantInv ==
    /\ \A w \in Workers : lock = w /\ local[w].pc = "attempt" => Granted(local[w].run)
    /\ counts.timeouts = 0 =>
          ~ungranted /\ \A w \in Workers : local[w].pc \in {"attempt", "settle", "publish"} => lock = w

(* One execution that did anything; its Undo runs are of what it completed,
   one at a time, and none takes up what another restored. *)
FamilyInv ==
    /\ \A e, f \in Runs : base[e] = e /\ base[f] = f /\ e # f => run[e] = "FAILED" \/ run[f] = "FAILED"
    /\ \A u \in Runs : IsUndo(u) =>
          /\ run[base[u]] \in {"COMPLETED", "PARTIALLY_COMPLETED"}
          /\ \A a \in Actions : status[u][a] # "ABSENT" => status[base[u]][a] = "COMPLETED"
          /\ \A a \in Actions : journal[u][a] # "EXISTING"
    /\ \A u, v \in Runs : IsUndo(u) /\ base[v] = base[u] /\ IsUndo(v) /\ u # v =>
          /\ run[u] # "RUNNING" \/ run[v] # "RUNNING"
          /\ \A a \in Actions : status[u][a] = "COMPLETED" =>
                status[v][a] # "COMPLETED" /\ (run[v] = "RUNNING" => status[v][a] = "ABSENT")
    /\ \A w \in Workers : local[w].pc = "undoPreviewed" =>
          LET e == local[w].run
          IN  /\ run[e] \in {"COMPLETED", "PARTIALLY_COMPLETED"}
              /\ \A a \in local[w].chosen : status[e][a] = "COMPLETED"

(* Where a file is after its execution, until an Undo takes it up and after it
   restored it. *)
DiskInv ==
    \A e \in Runs, a \in Actions : base[e] = e =>
        /\ journal[e][a] = "CAPTURED" => place[a] \in {"destination", "lost"}
        /\ journal[e][a] = "COMPLETED" =>
             /\ (\A u \in UndosOf(e) : journal[u][a] \in {"NONE", "INTENT"}) => place[a] \in {"destination", "lost"}
             /\ \A u \in UndosOf(e) : journal[u][a] \in {"CAPTURED", "COMPLETED"} => place[a] \in {"source", "lost"}

Others(w) == \A v \in Workers : v # w => local'[v] = local[v]

(* What no step does to a row: a settled row stays as it is, only begun or
   prepared rows are settled, and the journal of a begun row that is absent or
   finished stays so. *)
Stable ==
    /\ \A q \in Runs : base[q] # None => base'[q] = base[q]
    /\ \A q \in Runs, b \in Actions :
          /\ base[q] # None /\ status[q][b] # "PENDING" => status'[q][b] = status[q][b]
          /\ status[q][b] = "PENDING" => status'[q][b] # "ABSENT"
          /\ status[q][b] = "PENDING" /\ status'[q][b] # "PENDING" => starts[q][b] = 1 \/ mark[q][b] = "PREPARED"
          /\ starts[q][b] = 1 => starts'[q][b] = 1
          /\ starts[q][b] = 1 /\ journal[q][b] \in {"NONE", "COMPLETED", "EXISTING"} => journal'[q][b] = journal[q][b]

Rest == TypeOK /\ OwnerInv /\ TableInv /\ WorkInv

(* The row a request works on. *)
LEMMA RowOf ==
    ASSUME Rest, NEW w \in Workers, local[w].pc \in Bound
    PROVE  /\ local[w].run \in Runs /\ local[w].at \in Actions /\ base[local[w].run] # None
           /\ base[local[w].run] \in Runs /\ AtRow(local[w])
           /\ local \in [Workers -> Locals] /\ local[w] \in Locals
           /\ status[local[w].run][local[w].at] \in RowStatuses
BY DEF Rest, OwnerInv, RequestsBound, TypeOK, Locals, WorkInv

(* A request that does not step still stands where AtRow says. *)
LEMMA OthersKeep ==
    ASSUME Rest, Stable, NEW v \in Workers, local'[v] = local[v], local[v].pc \in Bound
    PROVE  AtRow(local[v])'
<1> DEFINE l == local[v]
           r == l.run
           a == l.at
<1>1. r \in Runs /\ a \in Actions /\ base[r] # None /\ AtRow(l)
  BY RowOf
<1>2. IsUndo(r)' = IsUndo(r) /\ base'[r] = base[r]
  BY <1>1 DEF IsUndo, Stable
<1>3. \A b \in Actions : /\ status'[r][b] # "ABSENT" <=> status[r][b] # "ABSENT"
                         /\ status[r][b] = "COMPLETED" => status'[r][b] = "COMPLETED"
  BY <1>1 DEF Stable
<1>4. l.pc = "attempt" => starts[r][a] = 0 /\ mark[r][a] # "PREPARED"
  BY RunAssumption DEF Rest, OwnerInv, AttemptsOwned
<1>5. l.pc = "attempt" => status'[r][a] = "PENDING"
  BY <1>1, <1>4 DEF AtRow, Stable
<1>6. starts[r][a] = 1 => starts'[r][a] = 1
  BY <1>1 DEF Stable
<1>7. l.pc = "publish" /\ l.result \in {"COMPLETED", "FAILED"} => journal'[r][a] = journal[r][a]
  <2>1. ASSUME l.pc = "publish", l.result \in {"COMPLETED", "FAILED"} PROVE starts[r][a] = 1
    <3>1. starts[r][a] \in 0..2 /\ starts[r][a] <= 1 /\ (starts[r][a] = 0 => journal[r][a] = "NONE")
      BY <1>1 DEF Rest, TableInv, OwnerInv, BegunOnce, TypeOK
    <3>2. starts[r][a] # 0
      BY <1>1, <2>1, <3>1 DEF AtRow
    <3> HIDE DEF l, r, a
    <3> QED
      BY <3>1, <3>2
  <2> QED
    BY <1>1, <2>1 DEF AtRow, Stable
<1> QED
  BY <1>1, <1>2, <1>3, <1>5, <1>6, <1>7 DEF AtRow

(* A step of one request, which may take or give back the root row. *)
LEMMA WorkKeeps ==
    ASSUME Rest, Stable, NEW w \in Workers, Others(w),
           local'[w].pc \in Bound => AtRow(local[w])',
           local'[w].pc = "undoPreviewed" => base'[local'[w].run] = local'[w].run,
           lock \notin {None, w} => status' = status,
           lock' \in {lock, None, w},
           lock' = w => /\ local'[w].pc \in {"attempt", "settle", "publish"}
                        /\ status'[local'[w].run][local'[w].at] = "PENDING"
    PROVE  WorkInv'
<1> SUFFICES ASSUME NEW v \in Workers
             PROVE  /\ local'[v].pc \in Bound => AtRow(local[v])'
                    /\ lock' = v => local'[v].pc \in {"attempt", "settle", "publish"}
                                    /\ status'[local'[v].run][local'[v].at] = "PENDING"
                    /\ local'[v].pc = "undoPreviewed" => base'[local'[v].run] = local'[v].run
  BY DEF WorkInv
<1>1. CASE v = w
  BY <1>1
<1>2. CASE v # w
  <2>1. local'[v] = local[v]
    BY <1>2 DEF Others
  <2>2. local[v].pc \in Bound => AtRow(local[v])'
    BY <2>1, OthersKeep
  <2>3. lock' = v => lock = v /\ status' = status
    BY <1>2, RunAssumption
  <2>4. local[v].pc = "undoPreviewed" =>
          local[v].run \in Runs /\ base[local[v].run] = local[v].run /\ base[local[v].run] # None
    BY RunAssumption DEF Rest, OwnerInv, RequestsBound, WorkInv, Runs
  <2>5. local[v].pc = "undoPreviewed" => base'[local[v].run] = local[v].run
    BY <2>4 DEF Stable
  <2> QED
    BY <2>1, <2>2, <2>3, <2>5 DEF Rest, WorkInv
<1> QED
  BY <1>1, <1>2

(* Going on to the next row, or to the end. *)
LEMMA AdvanceKeeps ==
    ASSUME Rest, NEW w \in Workers, local[w].pc \in Bound, NEW stop \in BOOLEAN, Advance(w, stop),
           base'[local[w].run] = base[local[w].run],
           \A b \in Actions : status'[local[w].run][b] # "ABSENT" <=> status[local[w].run][b] # "ABSENT",
           ~stop => \A b \in Actions :
              status[local[w].run][b] # "ABSENT" /\ (b = local[w].at \/ Before(IsUndo(local[w].run), b, local[w].at))
                => status'[local[w].run][b] = "COMPLETED"
    PROVE  /\ local'[w].pc \in {"finish", "claim"} /\ local'[w].run = local[w].run
           /\ Others(w) /\ AtRow(local[w])'
<1> DEFINE r == local[w].run
           at == local[w].at
<1>1. r \in Runs /\ at \in Actions /\ AtRow(local[w]) /\ local \in [Workers -> Locals] /\ local[w] \in Locals
  BY RowOf
<1>3. CASE local' = [local EXCEPT ![w].pc = "finish", ![w].stop = stop]
  <2>1. local'[w].pc = "finish" /\ local'[w].run = r /\ local'[w].at = at /\ Others(w)
    BY <1>1, <1>3 DEF Locals, Others
  <2> QED
    BY <1>1, <2>1 DEF AtRow
<1>4. ASSUME NEW a \in FirstOf(IsUndo(r), Later(r, at)),
             local' = [local EXCEPT ![w].pc = "claim", ![w].stop = stop, ![w].at = a]
      PROVE  /\ local'[w].pc = "claim" /\ local'[w].run = r /\ Others(w) /\ AtRow(local[w])'
  <2>1. local'[w].pc = "claim" /\ local'[w].run = r /\ local'[w].at = a /\ local'[w].stop = stop /\ Others(w)
    BY <1>1, <1>4 DEF Locals, Others
  <2>2. a \in Actions /\ status[r][a] # "ABSENT"
        /\ \A b \in Actions : status[r][b] # "ABSENT" /\ Before(IsUndo(r), at, b) => ~Before(IsUndo(r), b, a)
    BY <1>4 DEF FirstOf, Later, Rows
  <2>3. \A b \in Actions : b = at \/ Before(IsUndo(r), b, at) \/ Before(IsUndo(r), at, b)
    BY <1>1, RunAssumption DEF Before, Actions
  <2>4. \A b \in Actions : status[r][b] # "ABSENT" /\ Before(IsUndo(r), b, a) =>
                             b = at \/ Before(IsUndo(r), b, at)
    BY <2>2, <2>3
  <2> HIDE DEF r, at
  <2>5. ~stop => \A b \in Actions : status'[r][b] # "ABSENT" /\ Before(IsUndo(r), b, a) => status'[r][b] = "COMPLETED"
    BY <2>4 DEF r, at
  <2> QED
    BY <2>1, <2>2, <2>5 DEF AtRow, IsUndo, r
<1> QED
  BY <1>3, <1>4 DEF Advance

(***************************************************************************)
(* The rows through every step.                                            *)
(***************************************************************************)

(* Steps that leave the rows, the runs and the journals alone. *)
LEMMA QuietRows ==
    ASSUME Rest, UNCHANGED <<base, run, status, journal, starts>>
    PROVE  Stable /\ TableInv'
<1>1. Stable
  BY DEF Stable
<1>2. TableInv'
  BY DEF Rest, TableInv
<1> QED
  BY <1>1, <1>2

(* A request that is not behind a transaction does not hold the root row. *)
LEMMA NotHolder ==
    ASSUME Rest, NEW w \in Workers, local[w].pc \notin {"attempt", "settle", "publish"}
    PROVE  lock # w
BY DEF Rest, WorkInv

(* A request that ends gives the root row back. *)
LEMMA IdleRows ==
    ASSUME Rest, NEW w \in Workers, local' = [local EXCEPT ![w] = Idle], Stable,
           lock' = IF lock = w THEN None ELSE lock, lock \notin {None, w} => status' = status
    PROVE  WorkInv'
<1>1. local'[w].pc = "idle" /\ Others(w)
  BY DEF Idle, Others, Rest, TypeOK
<1>2. lock' # w
  BY RunAssumption
<1> QED
  BY <1>1, <1>2, WorkKeeps DEF Bound

(* A request that begins a run begins it with its first row. *)
LEMMA BeginAt ==
    ASSUME Rest, NEW w \in Workers, NEW r \in Runs, NEW undo \in BOOLEAN, NEW rows \in SUBSET Actions,
           NEW a \in FirstOf(undo, rows), local' = [local EXCEPT ![w] = Begin(r, a)],
           undo <=> IsUndo(r)', \A b \in Actions : b \in rows <=> status'[r][b] # "ABSENT"
    PROVE  Others(w) /\ local'[w].pc = "claim" /\ AtRow(local[w])'
<1>1. Others(w) /\ local'[w].pc = "claim" /\ local'[w].run = r /\ local'[w].at = a
  BY DEF Begin, Idle, Others, Rest, TypeOK
<1>2. a \in rows /\ a \in Actions /\ \A b \in rows : ~Before(undo, b, a)
  BY DEF FirstOf
<1>3. \A b \in Actions : status'[r][b] # "ABSENT" => ~Before(IsUndo(r)', b, a)
  BY <1>2 DEF Before
<1> QED
  BY <1>1, <1>2, <1>3 DEF AtRow, IsUndo

(* Recovery begins at the first row of its run. *)
LEMMA RecoverRows ==
    ASSUME Rest, NEW w \in Workers, NEW r \in Runs, RecoverRun(w, r)
    PROVE  Stable /\ TableInv' /\ WorkInv'
<1>1. UNCHANGED <<base, run, status, journal, starts, lock>> /\ lock # w /\ local[w].pc = "idle"
  BY NotHolder DEF RecoverRun, database, disk, history
<1>2. Stable /\ TableInv'
  BY <1>1, QuietRows
<1>3. PICK a \in FirstOf(IsUndo(r), Rows(r)) : local' = [local EXCEPT ![w] = Begin(r, a)]
  BY DEF RecoverRun
<1>4. IsUndo(r) \in BOOLEAN /\ Rows(r) \in SUBSET Actions /\ (IsUndo(r) <=> IsUndo(r)')
      /\ \A b \in Actions : b \in Rows(r) <=> status'[r][b] # "ABSENT"
  BY <1>1 DEF IsUndo, Rows
<1>5. Others(w) /\ local'[w].pc = "claim" /\ AtRow(local[w])'
  BY <1>3, <1>4, BeginAt
<1> QED
  BY <1>1, <1>2, <1>5, WorkKeeps

(* What a preview of an Undo reads and remembers. *)
LEMMA PreviewIs ==
    ASSUME TypeOK, NEW w \in Workers, NEW e \in Runs, PreviewUndo(w, e)
    PROVE  /\ UNCHANGED <<database, lock, disk, history, counts>>
           /\ local[w].pc = "idle" /\ base[e] = e /\ run[e] \in {"COMPLETED", "PARTIALLY_COMPLETED"}
           /\ Others(w) /\ local'[w].pc = "undoPreviewed" /\ local'[w].run = e
           /\ local'[w].chosen = Completed(e) \ Undone(e)
<1>1. /\ UNCHANGED <<database, lock, disk, history, counts>>
      /\ local[w].pc = "idle" /\ base[e] = e /\ run[e] \in {"COMPLETED", "PARTIALLY_COMPLETED"}
  BY ZenonT(30) DEF PreviewUndo
<1>2. local' = [local EXCEPT ![w] = [Idle EXCEPT !.pc = "undoPreviewed", !.run = e,
                                                !.chosen = Completed(e) \ Undone(e)]]
  BY DEF PreviewUndo
<1> DEFINE chosen == Completed(e) \ Undone(e)
<1> HIDE DEF chosen
<1>3. local' = [local EXCEPT ![w] = [Idle EXCEPT !.pc = "undoPreviewed", !.run = e, !.chosen = chosen]]
  BY <1>2 DEF chosen
<1>4. Others(w) /\ local'[w].pc = "undoPreviewed" /\ local'[w].run = e /\ local'[w].chosen = chosen
  BY <1>3 DEF TypeOK, Idle, Others
<1> QED
  BY <1>1, <1>4 DEF chosen

(* Previews touch no row. *)
LEMMA PreviewRows ==
    ASSUME Rest, NEW w \in Workers, LoadPlan(w) \/ \E e \in Runs : PreviewUndo(w, e)
    PROVE  Stable /\ TableInv' /\ WorkInv'
<1>1. UNCHANGED <<base, run, status, journal, starts, lock>> /\ local[w].pc = "idle"
  <2>1. CASE LoadPlan(w)
    BY <2>1 DEF LoadPlan, database, disk, history
  <2>2. ASSUME NEW e \in Runs, PreviewUndo(w, e)
        PROVE  UNCHANGED <<base, run, status, journal, starts, lock>> /\ local[w].pc = "idle"
    BY <2>2, PreviewIs DEF Rest, database, disk, history
  <2> QED
    BY <2>1, <2>2
<1>2. Stable /\ TableInv' /\ lock # w
  BY <1>1, QuietRows, NotHolder
<1>3. Others(w) /\ local'[w].pc \in {"planLoaded", "undoPreviewed"}
      /\ (local'[w].pc = "undoPreviewed" => base[local'[w].run] = local'[w].run)
  <2>1. CASE LoadPlan(w)
    BY <2>1 DEF LoadPlan, Rest, TypeOK, Idle, Others
  <2>2. ASSUME NEW e \in Runs, PreviewUndo(w, e)
        PROVE  Others(w) /\ local'[w].pc = "undoPreviewed" /\ local'[w].run = e /\ base[e] = e
    BY <2>2, PreviewIs DEF Rest
  <2> QED
    BY <2>1, <2>2
<1> QED
  BY <1>1, <1>2, <1>3, WorkKeeps DEF Bound

(* The first transaction of an action touches no status. *)
LEMMA ClaimRows ==
    ASSUME Rest, NEW w \in Workers, Claim(w) \/ EnterTerminal(w)
    PROVE  Stable /\ TableInv' /\ WorkInv'
<1>1. UNCHANGED <<base, run, status, journal, starts, lock>> /\ lock # w /\ local[w].pc \in {"claim", "enter"}
  BY NotHolder DEF Claim, EnterTerminal, database, disk, history
<1>2. Stable /\ TableInv'
  BY <1>1, QuietRows
<1>3. /\ Others(w) /\ local'[w].pc \in {"enter", "finish"} /\ local'[w].run = local[w].run
      /\ local'[w].at = local[w].at /\ local'[w].stop = local[w].stop
  BY DEF Claim, EnterTerminal, Rest, TypeOK, Locals, Others
<1>4. AtRow(local[w])
  BY <1>1, RowOf DEF Bound
<1>5. AtRow(local[w])'
  BY <1>1, <1>3, <1>4 DEF AtRow, IsUndo
<1> QED
  BY <1>1, <1>2, <1>3, <1>5, WorkKeeps

(* Going on behind a settled row. *)
LEMMA EnterSettledRows ==
    ASSUME Rest, NEW w \in Workers, EnterSettled(w)
    PROVE  Stable /\ TableInv' /\ WorkInv'
<1> DEFINE r == local[w].run
           a == local[w].at
           stop == local[w].stop \/ status[r][a] # "COMPLETED"
<1>1. UNCHANGED <<base, run, status, journal, starts, lock>> /\ lock # w /\ local[w].pc \in Bound
      /\ local[w].pc = "enter" /\ Advance(w, stop)
  BY NotHolder DEF EnterSettled, database, disk, history, Bound
<1>2. Stable /\ TableInv'
  BY <1>1, QuietRows
<1>3. AtRow(local[w]) /\ stop \in BOOLEAN
  BY <1>1, RowOf
<1>4. ~stop => \A b \in Actions : status[r][b] # "ABSENT" /\ (b = a \/ Before(IsUndo(r), b, a)) => status'[r][b] = "COMPLETED"
  BY <1>1, <1>3 DEF AtRow
<1> HIDE DEF stop
<1>5. local'[w].pc \in {"finish", "claim"} /\ Others(w) /\ AtRow(local[w])'
  BY <1>1, <1>3, <1>4, AdvanceKeeps
<1> QED
  BY <1>1, <1>2, <1>5, WorkKeeps

(* A row nobody began fails with no journal. *)
LEMMA EnterPreparedRows ==
    ASSUME Rest, NEW w \in Workers, EnterPrepared(w)
    PROVE  Stable /\ TableInv' /\ WorkInv'
<1> DEFINE r == local[w].run
           a == local[w].at
<1>1. /\ UNCHANGED <<base, run, journal, starts, lock>> /\ lock = None /\ local[w].pc \in Bound
      /\ status' = [status EXCEPT ![r][a] = "FAILED"] /\ Advance(w, TRUE) /\ run[r] = "RUNNING"
      /\ status[r][a] = "PENDING" /\ mark[r][a] = "PREPARED"
  BY DEF EnterPrepared, database, disk, history, Bound
<1>2. r \in Runs /\ a \in Actions /\ base[r] # None
  BY <1>1, RowOf
<1>3. starts[r][a] = 0 /\ journal[r][a] = "NONE"
  BY <1>1, <1>2 DEF Rest, OwnerInv, PreparedUnbegun, TableInv
<1>4. /\ status'[r][a] = "FAILED"
      /\ \A q \in Runs, b \in Actions : (q # r \/ b # a) => status'[q][b] = status[q][b]
  BY <1>1, <1>2 DEF Rest, TypeOK
<1> HIDE DEF r, a
<1>5. Stable
  BY <1>1, <1>2, <1>4 DEF Stable
<1>6. TableInv'
  BY <1>1, <1>2, <1>3, <1>4 DEF Rest, TableInv
<1>7. \A b \in Actions : status'[r][b] # "ABSENT" <=> status[r][b] # "ABSENT"
  BY <1>1, <1>2, <1>4
<1>8. local'[w].pc \in {"finish", "claim"} /\ Others(w) /\ AtRow(local[w])'
  BY <1>1, <1>7, AdvanceKeeps DEF r
<1> QED
  BY <1>1, <1>5, <1>6, <1>8, RunAssumption, WorkKeeps

(* The root row is taken for a pending row. *)
LEMMA EnterStartedRows ==
    ASSUME Rest, NEW w \in Workers, EnterStarted(w)
    PROVE  Stable /\ TableInv' /\ WorkInv'
<1> DEFINE r == local[w].run
           a == local[w].at
<1>1. UNCHANGED <<base, run, status, journal, starts>> /\ lock = None /\ lock' = w
      /\ local[w].pc \in Bound /\ local[w].pc = "enter" /\ status[r][a] = "PENDING"
  BY DEF EnterStarted, database, disk, history, Bound
<1>2. Stable /\ TableInv'
  BY <1>1, QuietRows
<1>3. AtRow(local[w]) /\ r \in Runs /\ a \in Actions
  BY <1>1, RowOf
<1>4. /\ local'[w].pc = (IF Allowed(w) THEN "attempt" ELSE "settle") /\ local'[w].allowed = Allowed(w)
      /\ local'[w].run = r /\ local'[w].at = a /\ local'[w].stop = local[w].stop /\ Others(w)
  BY DEF EnterStarted, Rest, TypeOK, Locals, Others
<1>5. Allowed(w) => ~local[w].stop
  BY DEF Allowed
<1>6. AtRow(local[w])'
  BY <1>1, <1>3, <1>4, <1>5 DEF AtRow, IsUndo
<1> QED
  BY <1>1, <1>2, <1>4, <1>6, WorkKeeps

(* The filesystem call begins a row that was not begun. *)
LEMMA AttemptRows ==
    ASSUME Rest, NEW w \in Workers, Attempt(w)
    PROVE  Stable /\ TableInv' /\ WorkInv'
<1> DEFINE r == local[w].run
           a == local[w].at
<1>1. UNCHANGED <<base, run, status, mark, lock>> /\ local[w].pc \in Bound /\ local[w].pc = "attempt"
  BY DEF Attempt, database, disk, Bound
<1>2. AtRow(local[w]) /\ r \in Runs /\ a \in Actions /\ status[r][a] = "PENDING"
  BY <1>1, RowOf DEF AtRow
<1>3. starts[r][a] = 0
  BY <1>1 DEF Rest, OwnerInv, AttemptsOwned
<1>4. /\ starts'[r][a] = 1
      /\ \A q \in Runs, b \in Actions : (q # r \/ b # a) =>
            starts'[q][b] = starts[q][b] /\ journal'[q][b] = journal[q][b]
  BY <1>2, <1>3 DEF Attempt, Rest, TypeOK
<1>5. /\ local'[w].pc = "settle" /\ local'[w].run = r /\ local'[w].at = a
      /\ local'[w].stop = local[w].stop /\ Others(w)
  BY DEF Attempt, Rest, TypeOK, Locals, Others
<1>6. Stable
  BY <1>1, <1>2, <1>3, <1>4 DEF Stable
<1>7. TableInv'
  BY <1>1, <1>2, <1>4 DEF Rest, TableInv
<1>8. AtRow(local[w])'
  BY <1>1, <1>2, <1>4, <1>5 DEF AtRow, IsUndo
<1>9. lock = w => status'[r][a] = "PENDING"
  BY <1>1, <1>2
<1> QED
  BY <1>1, <1>5, <1>6, <1>7, <1>8, <1>9, WorkKeeps

(* What the recovery of a row proves, by what its journal was. *)
LEMMA RecoveredIs ==
    ASSUME NEW r \in Runs, NEW a \in Actions, journal[r][a] \in JournalStates, NEW found \in Recovered(r, a)
    PROVE  /\ journal[r][a] = "NONE" <=> found = "absent"
           /\ found = "done" => journal[r][a] \in {"COMPLETED", "EXISTING", "LINKED", "CAPTURED"}
           /\ journal[r][a] \in {"COMPLETED", "EXISTING"} => found = "done"
           /\ found = "done" /\ journal[r][a] \in {"LINKED", "CAPTURED"} => place[a] = To(r)
BY DEF Recovered, JournalStates

(* The answer says of the row what its journal says. *)
LEMMA SettleRows ==
    ASSUME Rest, NEW w \in Workers, Settle(w)
    PROVE  Stable /\ TableInv' /\ WorkInv'
<1> DEFINE r == local[w].run
           a == local[w].at
<1>1. UNCHANGED <<base, run, status, mark, lock, starts>> /\ local[w].pc \in Bound /\ local[w].pc = "settle"
  BY DEF Settle, database, history, Bound
<1>2. AtRow(local[w]) /\ r \in Runs /\ a \in Actions /\ local[w] \in Locals
  BY <1>1, RowOf
<1>3. PICK found \in Recovered(r, a) :
         /\ journal' = IF found = "done" /\ journal[r][a] # "EXISTING"
                       THEN [journal EXCEPT ![r][a] = "COMPLETED"] ELSE journal
         /\ local' = [local EXCEPT ![w].pc = "publish", ![w].result = Settles(local[w].allowed, found)]
  BY DEF Settle
<1>4. journal[r][a] \in JournalStates
  BY <1>2 DEF Rest, TypeOK
<1>5. /\ journal[r][a] = "NONE" <=> found = "absent"
      /\ found = "done" => journal[r][a] \in {"COMPLETED", "EXISTING", "LINKED", "CAPTURED"}
      /\ journal[r][a] \in {"COMPLETED", "EXISTING"} => found = "done"
  BY <1>2, <1>4, RecoveredIs
<1>6. /\ \A q \in Runs, b \in Actions : (q # r \/ b # a) => journal'[q][b] = journal[q][b]
      /\ journal'[r][a] = IF found = "done" /\ journal[r][a] # "EXISTING" THEN "COMPLETED" ELSE journal[r][a]
  BY <1>2, <1>3 DEF Rest, TypeOK
<1>7. /\ local'[w].pc = "publish" /\ local'[w].run = r /\ local'[w].at = a /\ local'[w].stop = local[w].stop
      /\ local'[w].allowed = local[w].allowed /\ local'[w].result = Settles(local[w].allowed, found) /\ Others(w)
  BY <1>3 DEF Rest, TypeOK, Locals, Others
<1>8. journal[r][a] \in {"NONE", "COMPLETED", "EXISTING"} => journal'[r][a] = journal[r][a]
  BY <1>5, <1>6
<1> HIDE DEF r, a
<1>9. Stable
  BY <1>1, <1>2, <1>6, <1>8 DEF Stable
<1>10. TableInv'
  BY <1>1, <1>2, <1>5, <1>6, <1>8 DEF Rest, TableInv
<1>11. AtRow(local[w])'
  <2>1. Settles(local[w].allowed, found) # "ABSENT"
        /\ (Settles(local[w].allowed, found) = "COMPLETED" => journal'[r][a] \in {"COMPLETED", "EXISTING"})
    BY <1>5, <1>6 DEF Settles
  <2>2. Settles(local[w].allowed, found) = "FAILED" => journal'[r][a] = "NONE" /\ local[w].allowed
    BY <1>5, <1>8 DEF Settles
  <2>3. local[w].allowed => starts[r][a] = 1
    BY <1>1, <1>2 DEF AtRow, r, a
  <2> QED
    BY <1>1, <1>2, <1>7, <2>1, <2>2, <2>3 DEF AtRow, IsUndo, r, a
<1>12. lock = w => status'[r][a] = "PENDING"
  BY <1>1 DEF Rest, WorkInv, r, a
<1> QED
  BY <1>1, <1>7, <1>9, <1>10, <1>11, <1>12, WorkKeeps

(* A lost answer leaves the row pending. *)
LEMMA SettleUnansweredRows ==
    ASSUME Rest, NEW w \in Workers, SettleUnanswered(w)
    PROVE  Stable /\ TableInv' /\ WorkInv'
<1>1. UNCHANGED <<base, run, status, journal, starts, lock>> /\ local[w].pc \in Bound /\ local[w].pc = "settle"
  BY DEF SettleUnanswered, database, disk, history, Bound
<1>2. Stable /\ TableInv'
  BY <1>1, QuietRows
<1>3. /\ local'[w].pc = "publish" /\ local'[w].run = local[w].run /\ local'[w].at = local[w].at
      /\ local'[w].stop = local[w].stop /\ local'[w].allowed = local[w].allowed
      /\ local'[w].result = "PENDING" /\ Others(w)
  BY DEF SettleUnanswered, Rest, TypeOK, Locals, Others
<1>4. AtRow(local[w])
  BY <1>1, RowOf
<1>5. AtRow(local[w])'
  BY <1>1, <1>3, <1>4 DEF AtRow, IsUndo
<1>6. lock = w => status'[local[w].run][local[w].at] = "PENDING"
  BY <1>1 DEF Rest, WorkInv
<1> QED
  BY <1>1, <1>2, <1>3, <1>5, <1>6, WorkKeeps

(* The holder of the root row settles a row that was still pending. *)
LEMMA PublishIs ==
    ASSUME Rest, NEW w \in Workers, Publish(w), NEW r, r = local[w].run, NEW a, a = local[w].at
    PROVE  /\ r \in Runs /\ a \in Actions /\ base[r] # None /\ base[r] \in Runs /\ run[r] = "RUNNING"
           /\ status[r][a] = "PENDING" /\ status'[r][a] = local[w].result
           /\ \A q \in Runs, b \in Actions : (q # r \/ b # a) => status'[q][b] = status[q][b]
           /\ local[w].result \in {"PENDING", "COMPLETED", "FAILED"}
           /\ local[w].result = "COMPLETED" => journal[r][a] \in {"COMPLETED", "EXISTING"}
           /\ local[w].result = "FAILED" => journal[r][a] = "NONE"
           /\ local[w].result # "PENDING" => starts[r][a] = 1
<1>1. local[w].pc = "publish" /\ lock = w /\ PublishRow(w)
  BY DEF Publish
<1>2. r \in Runs /\ a \in Actions /\ base[r] # None /\ base[r] \in Runs /\ AtRow(local[w]) /\ local[w] \in Locals
  BY <1>1, RowOf DEF Bound
<1>3. status[r][a] = "PENDING"
  BY <1>1 DEF Rest, WorkInv
<1>4. run[r] = "RUNNING"
  BY <1>2, <1>3 DEF Rest, TableInv
<1>5. /\ status'[r][a] = local[w].result
      /\ \A q \in Runs, b \in Actions : (q # r \/ b # a) => status'[q][b] = status[q][b]
  BY <1>1, <1>2 DEF PublishRow, Rest, TypeOK
<1>6. /\ local[w].result \in {"PENDING", "COMPLETED", "FAILED"}
      /\ local[w].result = "COMPLETED" => journal[r][a] \in {"COMPLETED", "EXISTING"}
      /\ local[w].result = "FAILED" => journal[r][a] = "NONE" /\ starts[r][a] = 1
  BY <1>1, <1>2 DEF AtRow, Locals, RowStatuses
<1>7. starts[r][a] \in 0..2 /\ starts[r][a] <= 1 /\ (starts[r][a] = 0 => journal[r][a] = "NONE")
  BY <1>2 DEF Rest, TypeOK, OwnerInv, BegunOnce, TableInv
<1>8. local[w].result # "PENDING" => starts[r][a] = 1
  BY <1>6, <1>7
<1> QED
  BY <1>2, <1>3, <1>4, <1>5, <1>6, <1>8

(* The published status is the one the journal supports. *)
LEMMA PublishRows ==
    ASSUME Rest, NEW w \in Workers, Publish(w)
    PROVE  Stable /\ TableInv' /\ WorkInv'
<1> DEFINE r == local[w].run
           a == local[w].at
           result == local[w].result
           stop == local[w].stop \/ result # "COMPLETED"
<1>1. /\ UNCHANGED <<base, run, journal, starts>> /\ lock = w /\ lock' = None /\ local[w].pc \in Bound
      /\ local[w].pc = "publish"
      /\ (result = "PENDING" /\ local' = [local EXCEPT ![w].pc = "finish"]) \/ Advance(w, stop)
  BY DEF Publish, disk, history, Bound
<1>2. /\ r \in Runs /\ a \in Actions /\ base[r] # None /\ run[r] = "RUNNING"
      /\ status[r][a] = "PENDING" /\ status'[r][a] = result
      /\ \A q \in Runs, b \in Actions : (q # r \/ b # a) => status'[q][b] = status[q][b]
      /\ result \in {"PENDING", "COMPLETED", "FAILED"}
      /\ result = "COMPLETED" => journal[r][a] \in {"COMPLETED", "EXISTING"}
      /\ result = "FAILED" => journal[r][a] = "NONE"
      /\ result # "PENDING" => starts[r][a] = 1
  BY PublishIs
<1>3. AtRow(local[w]) /\ local[w] \in Locals /\ local \in [Workers -> Locals]
  BY <1>1, RowOf
<1>4. stop \in BOOLEAN /\ (~stop => ~local[w].stop /\ result = "COMPLETED")
  OBVIOUS
<1>5. ~local[w].stop => \A b \in Actions : status[r][b] # "ABSENT" /\ Before(IsUndo(r), b, a) => status[r][b] = "COMPLETED"
  BY <1>1, <1>3 DEF AtRow
<1> HIDE DEF r, a, result, stop
<1>6. Stable
  BY <1>1, <1>2 DEF Stable
<1>7. TableInv'
  BY <1>1, <1>2 DEF Rest, TableInv
<1>8. \A b \in Actions : /\ status'[r][b] # "ABSENT" <=> status[r][b] # "ABSENT"
                         /\ status[r][b] = "COMPLETED" => status'[r][b] = "COMPLETED"
  BY <1>2
<1>9. CASE Advance(w, stop)
  <2>1. ~stop => \A b \in Actions : status[r][b] # "ABSENT" /\ (b = a \/ Before(IsUndo(r), b, a)) => status'[r][b] = "COMPLETED"
    BY <1>2, <1>4, <1>5, <1>8
  <2>2. local'[w].pc \in {"finish", "claim"} /\ Others(w) /\ AtRow(local[w])'
    BY <1>1, <1>4, <1>8, <1>9, <2>1, AdvanceKeeps DEF r, a
  <2> QED
    BY <1>1, <1>6, <1>7, <2>2, RunAssumption, WorkKeeps
<1>10. CASE local' = [local EXCEPT ![w].pc = "finish"]
  <2>1. local'[w].pc = "finish" /\ local'[w].run = r /\ local'[w].at = a /\ Others(w)
    BY <1>3, <1>10 DEF Locals, Others, r, a
  <2>2. AtRow(local[w])'
    BY <1>2, <2>1 DEF AtRow
  <2> QED
    BY <1>1, <1>6, <1>7, <2>1, <2>2, RunAssumption, WorkKeeps
<1> QED
  BY <1>1, <1>9, <1>10

(* Requests that end, and what happens around them. *)
LEMMA EndRows ==
    ASSUME Rest, NEW w \in Workers, PublishExpired(w) \/ Crash(w)
    PROVE  Stable /\ TableInv' /\ WorkInv'
<1>1. UNCHANGED <<base, run, status, journal, starts>> /\ local' = [local EXCEPT ![w] = Idle]
      /\ lock' = IF lock = w THEN None ELSE lock
  BY DEF PublishExpired, Crash, database, disk, history
<1> QED
  BY <1>1, QuietRows, IdleRows

(* An expired transaction, a changed grant and a removed file touch no row. *)
LEMMA AroundRows ==
    ASSUME Rest, (\E w \in Workers : Timeout(w)) \/ ChangeAuthority \/ (\E a \in Actions : RemoveFile(a)) \/ UNCHANGED vars
    PROVE  Stable /\ TableInv' /\ WorkInv'
<1>1. UNCHANGED <<base, run, status, journal, starts, local>> /\ lock' \in {lock, None}
  <2>1. ASSUME NEW w \in Workers, Timeout(w)
        PROVE  UNCHANGED <<base, run, status, journal, starts, local>> /\ lock' \in {lock, None}
    BY <2>1 DEF Timeout, database, disk, history
  <2>2. CASE ChangeAuthority
    <3>1. UNCHANGED <<base, run, status, disk, lock, local, history>>
      BY <2>2, ZenonT(30) DEF ChangeAuthority
    <3> QED
      BY <3>1 DEF disk, history
  <2>3. ASSUME NEW a \in Actions, RemoveFile(a)
        PROVE  UNCHANGED <<base, run, status, journal, starts, local>> /\ lock' \in {lock, None}
    BY <2>3 DEF RemoveFile, database, history
  <2>4. CASE UNCHANGED vars
    BY <2>4 DEF vars
  <2> QED
    BY <2>1, <2>2, <2>3, <2>4
<1>2. Stable /\ TableInv'
  BY <1>1, QuietRows
<1>3. \A w \in Workers : lock' = w => lock = w
  BY <1>1, RunAssumption
<1> QED
  BY <1>1, <1>2, <1>3 DEF Rest, WorkInv, AtRow, IsUndo

(* The parent status follows from the rows, once none is pending. *)
LEMMA FinishRows ==
    ASSUME Rest, NEW w \in Workers, Finish(w)
    PROVE  Stable /\ TableInv' /\ WorkInv'
<1> DEFINE r == local[w].run
<1>1. /\ UNCHANGED <<base, status, journal, starts, lock>> /\ local' = [local EXCEPT ![w] = Idle] /\ lock = None
      /\ local[w].pc \in Bound
      /\ run' = run \/ run' = [run EXCEPT ![r] = SettledStatus(r)]
  BY DEF Finish, disk, history, Bound
<1>2. r \in Runs /\ base[r] # None
  BY <1>1, RowOf
<1>3. Stable
  BY <1>1 DEF Stable
<1>4. WorkInv'
  BY <1>1, <1>3, RunAssumption, IdleRows
<1>5. CASE run' = run
  BY <1>1, <1>3, <1>4, <1>5, QuietRows
<1>6. CASE run' = [run EXCEPT ![r] = SettledStatus(r)]
  <2>1. run'[r] = SettledStatus(r) /\ \A q \in Runs : q # r => run'[q] = run[q]
    BY <1>2, <1>6 DEF Rest, TypeOK
  <2>2. /\ SettledStatus(r) # "NONE"
        /\ SettledStatus(r) # "RUNNING" => \A a \in Actions : status[r][a] # "PENDING"
        /\ SettledStatus(r) = "FAILED" => \A a \in Actions : status[r][a] # "COMPLETED"
    BY DEF SettledStatus, Rows, Completed
  <2> HIDE DEF r
  <2>3. TableInv'
    BY <1>1, <1>2, <2>1, <2>2 DEF Rest, TableInv
  <2> QED
    BY <1>3, <1>4, <2>3
<1> QED
  BY <1>1, <1>5, <1>6

(* A new run: pending rows that nothing began, under an execution. *)
LEMMA CreateIs ==
    ASSUME Rest, NEW w \in Workers, NEW r \in Runs, NEW e \in Runs, NEW rows \in SUBSET Actions,
           NEW undo \in BOOLEAN, Fresh(r), CreateRun(w, r, e, rows, undo)
    PROVE  /\ base[r] = None /\ base'[r] = e /\ run[r] = "NONE" /\ run'[r] = "RUNNING"
           /\ \A q \in Runs : q # r => base'[q] = base[q] /\ run'[q] = run[q] /\ status'[q] = status[q]
           /\ \A a \in Actions : /\ status[r][a] = "ABSENT" /\ starts[r][a] = 0 /\ journal[r][a] = "NONE"
                                 /\ status'[r][a] = IF a \in rows THEN "PENDING" ELSE "ABSENT"
<1>1. base[r] = None
  BY DEF Fresh
<1>2. /\ run[r] = "NONE"
      /\ \A a \in Actions : status[r][a] = "ABSENT" /\ starts[r][a] = 0 /\ journal[r][a] = "NONE"
  BY <1>1 DEF Rest, TableInv
<1>3. /\ base'[r] = e /\ run'[r] = "RUNNING"
      /\ \A q \in Runs : q # r => base'[q] = base[q] /\ run'[q] = run[q] /\ status'[q] = status[q]
  BY DEF CreateRun, Rest, TypeOK
<1>4. \A a \in Actions : status'[r][a] = IF a \in rows THEN "PENDING" ELSE "ABSENT"
  BY DEF CreateRun, Rest, TypeOK
<1> QED
  BY <1>1, <1>2, <1>3, <1>4

(* A new run has pending rows only. *)
LEMMA CreateRows ==
    ASSUME Rest, NEW w \in Workers, NEW r \in Runs, NEW e \in Runs, NEW rows \in SUBSET Actions,
           NEW undo \in BOOLEAN, Fresh(r), CreateRun(w, r, e, rows, undo), UNCHANGED <<lock, journal, starts>>,
           lock = None, e = r \/ base[e] = e, undo <=> e # r
    PROVE  Stable /\ TableInv' /\ WorkInv'
<1>1. /\ base[r] = None /\ base'[r] = e /\ run[r] = "NONE" /\ run'[r] = "RUNNING"
      /\ \A q \in Runs : q # r => base'[q] = base[q] /\ run'[q] = run[q] /\ status'[q] = status[q]
      /\ \A a \in Actions : /\ status[r][a] = "ABSENT" /\ starts[r][a] = 0 /\ journal[r][a] = "NONE"
                            /\ status'[r][a] = IF a \in rows THEN "PENDING" ELSE "ABSENT"
  BY CreateIs
<1>2. None \notin Runs
  BY RunAssumption DEF Runs
<1>3. Stable
  BY <1>1 DEF Stable
<1>4. TableInv'
  <2>1. \A q \in Runs : base'[q] = None => run'[q] = "NONE" /\ \A a \in Actions : status'[q][a] = "ABSENT"
    BY <1>1, <1>2 DEF Rest, TableInv
  <2>2. base'[e] = e
    BY <1>1, <1>2
  <2>3. ASSUME NEW q \in Runs, base'[q] # None PROVE run'[q] # "NONE" /\ base'[base'[q]] = base'[q]
    <3>1. CASE q = r
      BY <1>1, <2>2, <3>1
    <3>2. CASE q # r
      <4>1. base'[q] = base[q] /\ run'[q] = run[q] /\ base[q] # None /\ base[base[q]] = base[q] /\ run[q] # "NONE"
        BY <1>1, <2>3, <3>2 DEF Rest, TableInv
      <4>2. base[q] \in Runs /\ base[q] # r
        BY <1>1, <4>1 DEF Rest, TypeOK
      <4> QED
        BY <1>1, <4>1, <4>2
    <3> QED
      BY <3>1, <3>2
  <2>4. \A q \in Runs, a \in Actions : /\ run'[q] # "RUNNING" => status'[q][a] # "PENDING"
                                       /\ run'[q] = "FAILED" => status'[q][a] # "COMPLETED"
    BY <1>1 DEF Rest, TableInv
  <2>5. \A q \in Runs, a \in Actions :
          /\ starts[q][a] = 0 => journal[q][a] = "NONE"
          /\ status'[q][a] = "ABSENT" => starts[q][a] = 0
          /\ status'[q][a] = "COMPLETED" => journal[q][a] \in {"COMPLETED", "EXISTING"}
          /\ status'[q][a] = "FAILED" => journal[q][a] = "NONE"
    BY <1>1 DEF Rest, TableInv
  <2> QED
    BY <2>1, <2>3, <2>4, <2>5 DEF TableInv
<1>5. PICK a \in FirstOf(undo, rows) : local' = [local EXCEPT ![w] = Begin(r, a)]
  BY DEF CreateRun
<1>6. (undo <=> IsUndo(r)') /\ \A b \in Actions : b \in rows <=> status'[r][b] # "ABSENT"
  BY <1>1, <1>2 DEF IsUndo
<1>7. Others(w) /\ local'[w].pc = "claim" /\ AtRow(local[w])'
  BY <1>5, <1>6, BeginAt
<1> QED
  BY <1>3, <1>4, <1>7, RunAssumption, WorkKeeps

(* Admission creates a run or leaves everything as it is. *)
LEMMA StartRows ==
    ASSUME Rest, NEW w \in Workers, StartExecution(w) \/ StartUndo(w)
    PROVE  Stable /\ TableInv' /\ WorkInv'
<1>1. UNCHANGED <<lock, journal, starts>> /\ lock = None
  BY DEF StartExecution, StartUndo, disk, history
<1>2. ASSUME local' = [local EXCEPT ![w] = Idle], UNCHANGED <<base, run, status>> PROVE Stable /\ TableInv' /\ WorkInv'
  BY <1>1, <1>2, QuietRows, IdleRows
<1>3. ASSUME NEW r \in Runs, Fresh(r), CreateRun(w, r, r, Actions, FALSE) PROVE Stable /\ TableInv' /\ WorkInv'
  BY <1>1, <1>3, CreateRows
<1>4. ASSUME local[w].pc = "undoPreviewed", NEW r \in Runs, Fresh(r),
             CreateRun(w, r, local[w].run, local[w].chosen, TRUE)
      PROVE  Stable /\ TableInv' /\ WorkInv'
  <2>1. local[w].run \in Runs /\ base[local[w].run] = local[w].run /\ local[w].chosen \in SUBSET Actions
    BY <1>4 DEF Rest, OwnerInv, RequestsBound, WorkInv, TypeOK, Locals
  <2>2. local[w].run # r
    BY <1>4, <2>1, RunAssumption DEF Fresh, Runs
  <2> QED
    BY <1>1, <1>4, <2>1, <2>2, CreateRows
<1> QED
  BY <1>2, <1>3, <1>4 DEF StartExecution, StartUndo

(* Every step is stable and keeps the tables and the requests consistent. *)
LEMMA RowsStep == ASSUME Rest, [Next]_vars PROVE Stable /\ TableInv' /\ WorkInv'
BY StartRows, FinishRows, AroundRows, EndRows, PublishRows, SettleUnansweredRows, SettleRows,
   AttemptRows,
   EnterStartedRows, EnterPreparedRows, EnterSettledRows, ClaimRows, PreviewRows, RecoverRows DEF Next, Work

(* They are consistent before the first request. *)
LEMMA RowsInit == ASSUME Init PROVE TableInv /\ WorkInv
<1>1. \A w \in Workers : local[w].pc = "idle" /\ lock # w
  BY RunAssumption DEF Init, Idle
<1>2. WorkInv
  BY <1>1 DEF WorkInv, Bound
<1>3. TableInv
  <2>1. CASE NewPlan
    BY <2>1 DEF Init, NewPlan, TableInv
  <2>2. CASE LegacyRun
    <3>1. 1 \in Runs /\ None # 1
      BY RunAssumption DEF Runs
    <3> QED
      BY <2>2, <3>1 DEF Init, LegacyRun, TableInv
  <2> QED
    BY <2>1, <2>2 DEF Init
<1> QED
  BY <1>2, <1>3

(***************************************************************************)
(* What a step can change of the outcomes.                                 *)
(***************************************************************************)

Calm ==
    /\ UNCHANGED <<base, run, status, journal, place, recon, starts>>
    /\ root'.generation = root.generation

(* The admission of an execution, and of an Undo. *)
OpensExecution(w, r) ==
    /\ Fresh(r) /\ CreateRun(w, r, r, Actions, FALSE) /\ ClaimPlanExecution(local[w].seen)
    /\ UNCHANGED <<journal, place, recon, root, starts, lock>>
OpensUndo(w, r) ==
    /\ Fresh(r) /\ CreateRun(w, r, local[w].run, local[w].chosen, TRUE)
    /\ local[w].pc = "undoPreviewed" /\ AdmitsUndo(local[w].run, local[w].chosen)
    /\ UNCHANGED <<journal, place, recon, root, starts, lock>>

Outcome ==
    \/ Calm
    \/ \E w \in Workers : EnterPrepared(w) \/ Attempt(w) \/ Settle(w) \/ Publish(w) \/ Finish(w)
    \/ \E w \in Workers, r \in Runs : OpensExecution(w, r) \/ OpensUndo(w, r)
    \/ \E a \in Actions : RemoveFile(a)

(* An admission transaction is refused or opens a run. *)
LEMMA StartKinds ==
    ASSUME NEW w \in Workers, StartExecution(w) \/ StartUndo(w)
    PROVE  Calm \/ \E r \in Runs : OpensExecution(w, r) \/ OpensUndo(w, r)
<1>1. CASE StartExecution(w)
  <2>1. UNCHANGED <<journal, place, recon, root, starts, lock>>
    BY <1>1 DEF StartExecution, disk, history
  <2>2. CASE UNCHANGED <<base, run, status>>
    BY <2>1, <2>2 DEF Calm
  <2>3. CASE ClaimPlanExecution(local[w].seen) /\ \E r \in Runs : Fresh(r) /\ CreateRun(w, r, r, Actions, FALSE)
    BY <2>1, <2>3 DEF OpensExecution
  <2> QED
    BY <1>1, <2>2, <2>3 DEF StartExecution
<1>2. CASE StartUndo(w)
  <2>1. UNCHANGED <<journal, place, recon, root, starts, lock>> /\ local[w].pc = "undoPreviewed"
    BY <1>2 DEF StartUndo, disk, history
  <2>2. CASE UNCHANGED <<base, run, status>>
    BY <2>1, <2>2 DEF Calm
  <2>3. CASE /\ AdmitsUndo(local[w].run, local[w].chosen)
             /\ \E r \in Runs : Fresh(r) /\ CreateRun(w, r, local[w].run, local[w].chosen, TRUE)
    BY <2>1, <2>3 DEF OpensUndo
  <2> QED
    BY <1>2, <2>2, <2>3 DEF StartUndo
<1> QED
  BY <1>1, <1>2

(* The steps that leave every outcome alone. *)
LEMMA QuietKinds ==
    ASSUME NEW w \in Workers,
           LoadPlan(w) \/ Claim(w) \/ EnterTerminal(w) \/ EnterSettled(w) \/ EnterStarted(w)
             \/ SettleUnanswered(w) \/ PublishExpired(w) \/ Crash(w) \/ Timeout(w)
    PROVE  Calm
<1>1. CASE LoadPlan(w) \/ EnterTerminal(w) \/ EnterSettled(w) \/ EnterStarted(w)
  BY <1>1 DEF LoadPlan, EnterTerminal, EnterSettled, EnterStarted, database, disk, history, Calm
<1>2. CASE SettleUnanswered(w) \/ PublishExpired(w) \/ Crash(w) \/ Timeout(w)
  BY <1>2 DEF SettleUnanswered, PublishExpired, Crash, Timeout, database, disk, history, Calm
<1>3. CASE Claim(w)
  BY <1>3 DEF Claim, disk, history, Calm
<1> QED
  BY <1>1, <1>2, <1>3

(* A change of the grant leaves every outcome alone. *)
LEMMA AuthorityKind == ASSUME TypeOK, ChangeAuthority PROVE Calm
<1>1. UNCHANGED <<base, run, status, recon, disk, history>>
  BY ZenonT(30) DEF ChangeAuthority
<1>2. PICK permitted \in BOOLEAN, rev \in {root.rev, root.rev + 1} :
         root' = [root EXCEPT !.permitted = permitted, !.rev = rev]
  BY ZenonT(30) DEF ChangeAuthority
<1>3. root'.generation = root.generation
  BY <1>2 DEF TypeOK
<1> QED
  BY <1>1, <1>3 DEF Calm, disk, history

(* Every step is of one of these kinds. *)
LEMMA Kinds == ASSUME Rest, [Next]_vars PROVE Outcome
<1>1. CASE UNCHANGED vars
  BY <1>1 DEF vars, Calm, Outcome
<1>2. CASE ChangeAuthority
  BY <1>2, AuthorityKind DEF Rest, Outcome
<1>3. ASSUME NEW a \in Actions, RemoveFile(a) PROVE Outcome
  BY <1>3 DEF Outcome
<1>4. ASSUME NEW w \in Workers, NEW e \in Runs, PreviewUndo(w, e) PROVE Outcome
  BY <1>4, PreviewIs DEF Rest, Outcome, Calm, database, disk, history
<1>5. ASSUME NEW w \in Workers, NEW r \in Runs, RecoverRun(w, r) PROVE Outcome
  <2>1. UNCHANGED <<database, disk, history>>
    BY <1>5 DEF RecoverRun
  <2> QED
    BY <2>1 DEF Calm, Outcome, database, disk, history
<1>6. ASSUME NEW w \in Workers, Work(w) \/ LoadPlan(w) \/ Crash(w) \/ Timeout(w) PROVE Outcome
  <2>1. CASE StartExecution(w) \/ StartUndo(w)
    BY <2>1, StartKinds DEF Outcome
  <2>2. CASE EnterPrepared(w) \/ Attempt(w) \/ Settle(w) \/ Publish(w) \/ Finish(w)
    BY <2>2 DEF Outcome
  <2> QED
    BY <1>6, <2>1, <2>2, QuietKinds DEF Outcome, Work
<1> QED
  BY <1>1, <1>2, <1>3, <1>4, <1>5, <1>6 DEF Next

(* What each of those steps leaves alone. *)
LEMMA PreparedLeaves ==
    ASSUME Rest, NEW w \in Workers, EnterPrepared(w), NEW r, r = local[w].run, NEW a, a = local[w].at
    PROVE  /\ UNCHANGED <<base, run, journal, place, recon, starts, root>>
           /\ r \in Runs /\ a \in Actions /\ status[r][a] = "PENDING" /\ status'[r][a] = "FAILED"
           /\ \A q \in Runs, b \in Actions : (q # r \/ b # a) => status'[q][b] = status[q][b]
<1>1. /\ UNCHANGED <<base, run, journal, place, recon, starts, root>> /\ local[w].pc \in Bound
      /\ status' = [status EXCEPT ![r][a] = "FAILED"] /\ status[r][a] = "PENDING"
  BY DEF EnterPrepared, disk, history, Bound
<1>2. r \in Runs /\ a \in Actions
  BY <1>1, RowOf
<1> QED
  BY <1>1, <1>2 DEF Rest, TypeOK

(* An attempt changes one journal and one file, as Effects says. *)
LEMMA AttemptLeaves ==
    ASSUME Rest, NEW w \in Workers, Attempt(w), NEW r, r = local[w].run, NEW a, a = local[w].at
    PROVE  /\ UNCHANGED <<base, run, status, recon, root>>
           /\ r \in Runs /\ a \in Actions /\ status[r][a] = "PENDING" /\ run[r] = "RUNNING" /\ base[r] # None
           /\ journal[r][a] = "NONE"
           /\ \A q \in Runs, b \in Actions : (q # r \/ b # a) => journal'[q][b] = journal[q][b]
           /\ \A b \in Actions : b # a => place'[b] = place[b]
           /\ <<journal'[r][a], place'[a]>> \in Effects(r, a)
<1>1. UNCHANGED <<base, run, status, recon, root>> /\ local[w].pc \in Bound /\ local[w].pc = "attempt"
  BY DEF Attempt, database, Bound
<1>2. AtRow(local[w]) /\ r \in Runs /\ a \in Actions /\ status[r][a] = "PENDING" /\ base[r] # None
  BY <1>1, RowOf DEF AtRow
<1>3. starts[r][a] = 0 /\ journal[r][a] = "NONE" /\ run[r] = "RUNNING"
  BY <1>1, <1>2 DEF Rest, OwnerInv, AttemptsOwned, TableInv
<1>4. PICK fx \in Effects(r, a) : journal' = [journal EXCEPT ![r][a] = fx[1]] /\ place' = [place EXCEPT ![a] = fx[2]]
  BY DEF Attempt
<1>5. fx = <<fx[1], fx[2]>>
  BY <1>4 DEF Effects
<1>6. journal'[r][a] = fx[1] /\ place'[a] = fx[2]
  BY <1>2, <1>4 DEF Rest, TypeOK
<1>7. /\ \A q \in Runs, b \in Actions : (q # r \/ b # a) => journal'[q][b] = journal[q][b]
      /\ \A b \in Actions : b # a => place'[b] = place[b]
  BY <1>2, <1>4 DEF Rest, TypeOK
<1> QED
  BY <1>1, <1>2, <1>3, <1>4, <1>5, <1>6, <1>7

(* An answer changes the journal of its row at most, and completes it only
   with the file in place. *)
LEMMA SettleLeaves ==
    ASSUME Rest, NEW w \in Workers, Settle(w), NEW r, r = local[w].run, NEW a, a = local[w].at
    PROVE  /\ UNCHANGED <<base, run, status, recon, root, place, starts>>
           /\ r \in Runs /\ a \in Actions /\ base[r] # None
           /\ \A q \in Runs, b \in Actions : (q # r \/ b # a) => journal'[q][b] = journal[q][b]
           /\ \/ journal'[r][a] = journal[r][a]
              \/ /\ journal'[r][a] = "COMPLETED" /\ journal[r][a] \in {"LINKED", "CAPTURED"}
                 /\ place[a] = To(r)
<1>1. UNCHANGED <<base, run, status, recon, root, place, starts>> /\ local[w].pc \in Bound
  BY DEF Settle, database, history, Bound
<1>2. r \in Runs /\ a \in Actions /\ base[r] # None
  BY <1>1, RowOf
<1>3. PICK found \in Recovered(r, a) :
         journal' = IF found = "done" /\ journal[r][a] # "EXISTING"
                    THEN [journal EXCEPT ![r][a] = "COMPLETED"] ELSE journal
  BY DEF Settle
<1>4. journal[r][a] \in JournalStates
  BY <1>2 DEF Rest, TypeOK
<1>5. /\ found = "done" => journal[r][a] \in {"COMPLETED", "EXISTING", "LINKED", "CAPTURED"}
      /\ found = "done" /\ journal[r][a] \in {"LINKED", "CAPTURED"} => place[a] = To(r)
  BY <1>2, <1>4, RecoveredIs
<1>6. /\ \A q \in Runs, b \in Actions : (q # r \/ b # a) => journal'[q][b] = journal[q][b]
      /\ journal'[r][a] = IF found = "done" /\ journal[r][a] # "EXISTING" THEN "COMPLETED" ELSE journal[r][a]
  BY <1>2, <1>3 DEF Rest, TypeOK
<1> QED
  BY <1>1, <1>2, <1>5, <1>6

(* Settlement changes the status of one run, and drops the obligation of an
   execution without success. *)
LEMMA FinishLeaves ==
    ASSUME Rest, NEW w \in Workers, Finish(w), NEW r, r = local[w].run
    PROVE  /\ UNCHANGED <<base, status, journal, place, starts, root>> /\ r \in Runs /\ base[r] # None
           /\ \A q \in Runs : q # r => run'[q] = run[q]
           /\ \/ UNCHANGED <<run, recon>>
              \/ /\ run[r] = "RUNNING" /\ run'[r] = SettledStatus(r)
                 /\ \/ recon' = recon
                    \/ recon' = [recon EXCEPT ![r] = "NOT_STARTED"] /\ ~IsUndo(r) /\ Completed(r) = {}
<1>1. /\ UNCHANGED <<base, status, journal, place, starts, root>> /\ local[w].pc \in Bound
      /\ \/ UNCHANGED <<run, recon>>
         \/ /\ run[r] = "RUNNING" /\ run' = [run EXCEPT ![r] = SettledStatus(r)]
            /\ recon' = IF ~IsUndo(r) /\ Completed(r) = {} THEN [recon EXCEPT ![r] = "NOT_STARTED"] ELSE recon
  BY DEF Finish, disk, history, Bound
<1>2. r \in Runs /\ base[r] # None
  BY <1>1, RowOf
<1> DEFINE s == SettledStatus(r)
<1> HIDE DEF s
<1>3. run' = run \/ run' = [run EXCEPT ![r] = s]
  BY <1>1 DEF s
<1>4. \A q \in Runs : q # r => run'[q] = run[q]
  BY <1>2, <1>3 DEF Rest, TypeOK
<1>5. run' = [run EXCEPT ![r] = s] => run'[r] = s
  BY <1>2 DEF Rest, TypeOK
<1> QED
  BY <1>1, <1>2, <1>4, <1>5 DEF s

(* A removal takes a file, or one of its two names. *)
LEMMA RemoveLeaves ==
    ASSUME TypeOK, NEW a \in Actions, RemoveFile(a)
    PROVE  /\ UNCHANGED <<base, run, status, journal, recon, root, starts>>
           /\ \A b \in Actions : place'[b] # place[b] => place[b] = "both" \/ place'[b] = "lost"
<1>1. UNCHANGED <<base, run, status, journal, recon, root, starts>>
  BY DEF RemoveFile, database, history
<1>2. PICK left \in IF place[a] = "both" THEN {"source", "destination"} ELSE {"lost"} : place' = [place EXCEPT ![a] = left]
  BY DEF RemoveFile
<1> QED
  BY <1>1, <1>2 DEF TypeOK

(***************************************************************************)
(* In sequence.                                                            *)
(***************************************************************************)

(* Only an attempt begins a row. *)
LEMMA BeginsStep ==
    ASSUME Rest, [Next]_vars, NEW r \in Runs, NEW b \in Actions, starts'[r][b] # starts[r][b]
    PROVE  \E w \in Workers : Attempt(w) /\ r = local[w].run /\ b = local[w].at
<1>1. starts' # starts
  OBVIOUS
<1>2. PICK w \in Workers : Attempt(w)
  <2>1. Outcome
    BY Kinds
  <2>2. ASSUME NEW v \in Workers, EnterPrepared(v) \/ Settle(v) \/ Publish(v) \/ Finish(v) PROVE starts' = starts
    BY <2>2 DEF EnterPrepared, Settle, Publish, Finish, history
  <2>3. ASSUME NEW v \in Workers, NEW q \in Runs, OpensExecution(v, q) \/ OpensUndo(v, q) PROVE starts' = starts
    BY <2>3 DEF OpensExecution, OpensUndo
  <2>4. ASSUME NEW a \in Actions, RemoveFile(a) PROVE starts' = starts
    BY <2>4 DEF RemoveFile, history
  <2> QED
    BY <1>1, <2>1, <2>2, <2>3, <2>4 DEF Outcome, Calm
<1> DEFINE q == local[w].run
           a == local[w].at
<1>3. starts' = [starts EXCEPT ![q][a] = IF @ = 2 THEN 2 ELSE @ + 1]
  BY <1>2 DEF Attempt
<1> HIDE DEF q, a
<1>4. r = q /\ b = a
  BY <1>3 DEF Rest, TypeOK
<1> QED
  BY <1>2, <1>4 DEF q, a

(* Every step begins rows in sequence. *)
LEMMA SequenceStep == ASSUME Rest, InSequence, [Next]_vars PROVE InSequence'
<1> SUFFICES ASSUME NEW r \in Runs, NEW a \in Actions, NEW b \in Actions,
                    starts'[r][b] > 0, status'[r][a] # "ABSENT", Before(IsUndo(r)', a, b)
             PROVE  status'[r][a] = "COMPLETED"
  BY DEF InSequence, Rows
<1>1. Stable
  BY RowsStep
<1>2. CASE starts'[r][b] # starts[r][b]
  <2>1. PICK w \in Workers : Attempt(w) /\ r = local[w].run /\ b = local[w].at
    BY <1>2, BeginsStep
  <2>2. local[w].pc = "attempt" /\ UNCHANGED <<base, status>>
    BY <2>1 DEF Attempt, database
  <2>3. AtRow(local[w])
    BY <2>2, RowOf DEF Bound
  <2> QED
    BY <2>1, <2>2, <2>3 DEF AtRow, IsUndo
<1>3. CASE starts'[r][b] = starts[r][b]
  <2>1. base[r] # None
    BY <1>3 DEF Rest, OwnerInv, PreparedUnbegun
  <2>2. base'[r] = base[r] /\ status[r][a] # "ABSENT"
    BY <1>1, <2>1 DEF Stable
  <2>3. Before(IsUndo(r), a, b)
    BY <2>2 DEF Before, IsUndo
  <2>4. status[r][a] = "COMPLETED"
    BY <1>3, <2>2, <2>3 DEF InSequence, Rows
  <2> QED
    BY <1>1, <2>1, <2>4 DEF Stable
<1> QED
  BY <1>2, <1>3

(***************************************************************************)
(* Executions and their Undo runs.                                         *)
(***************************************************************************)

Kin == Rest /\ FamilyInv

(* A settled run stays as it is. *)
LEMMA SettledRunStays ==
    ASSUME Rest, [Next]_vars, NEW r \in Runs, run[r] \notin {"NONE", "RUNNING"}
    PROVE  run'[r] = run[r]
<1>1. Outcome
  BY Kinds
<1>2. ASSUME NEW w \in Workers, EnterPrepared(w) \/ Attempt(w) \/ Settle(w) \/ Publish(w) PROVE run' = run
  BY <1>2 DEF EnterPrepared, Attempt, Settle, Publish, database
<1>3. ASSUME NEW w \in Workers, Finish(w) PROVE run'[r] = run[r]
  BY <1>3, FinishLeaves
<1>4. ASSUME NEW w \in Workers, NEW q \in Runs, OpensExecution(w, q) \/ OpensUndo(w, q) PROVE run'[r] = run[r]
  <2>1. run[q] = "NONE"
    BY <1>4 DEF OpensExecution, OpensUndo, Fresh, Rest, TableInv
  <2>2. run' = [run EXCEPT ![q] = "RUNNING"]
    BY <1>4 DEF OpensExecution, OpensUndo, CreateRun
  <2> QED
    BY <2>1, <2>2 DEF Rest, TypeOK
<1>5. ASSUME NEW a \in Actions, RemoveFile(a) PROVE run' = run
  BY <1>5, RemoveLeaves DEF Rest
<1> QED
  BY <1>1, <1>2, <1>3, <1>4, <1>5 DEF Outcome, Calm

(* What a request previewed for an Undo. *)
LEMMA PreviewedStep ==
    ASSUME Rest, [Next]_vars, NEW w \in Workers, local'[w].pc = "undoPreviewed"
    PROVE  local'[w] = local[w] \/ \E e \in Runs : PreviewUndo(w, e)
<1> SUFFICES ASSUME local'[w] # local[w] PROVE \E e \in Runs : PreviewUndo(w, e)
  OBVIOUS
<1>1. ASSUME NEW v \in Workers, local' = [local EXCEPT ![v] = Idle] PROVE FALSE
  BY <1>1 DEF Idle, Rest, TypeOK
<1>2. ASSUME NEW v \in Workers, local'[v].pc # "undoPreviewed", Others(v) PROVE FALSE
  BY <1>2 DEF Others
<1>3. ASSUME NEW v \in Workers, StartExecution(v) \/ StartUndo(v) PROVE FALSE
  <2>1. ASSUME NEW r \in Runs, NEW a, local' = [local EXCEPT ![v] = Begin(r, a)] PROVE FALSE
    BY <2>1 DEF Begin, Idle, Rest, TypeOK
  <2> QED
    BY <1>1, <1>3, <2>1 DEF StartExecution, StartUndo, CreateRun
<1>4. ASSUME NEW v \in Workers, NEW r \in Runs, RecoverRun(v, r) PROVE FALSE
  <2>1. ASSUME NEW a, local' = [local EXCEPT ![v] = Begin(r, a)] PROVE FALSE
    BY <2>1 DEF Begin, Idle, Rest, TypeOK
  <2> QED
    BY <1>4, <2>1 DEF RecoverRun
<1>5. ASSUME NEW v \in Workers, LoadPlan(v) PROVE FALSE
  BY <1>2, <1>5 DEF LoadPlan, Idle, Rest, TypeOK, Others
<1>6. ASSUME NEW v \in Workers, NEW stop, Advance(v, stop) PROVE FALSE
  <2>1. local'[v].pc \in {"finish", "claim"} /\ Others(v)
    BY <1>6 DEF Advance, Rest, TypeOK, Locals, Others
  <2> QED
    BY <1>2, <2>1
<1>7. ASSUME NEW v \in Workers, EnterSettled(v) \/ EnterPrepared(v) \/ Publish(v) PROVE FALSE
  <2>1. ASSUME local' = [local EXCEPT ![v].pc = "finish"] PROVE FALSE
    BY <1>2, <2>1 DEF Rest, TypeOK, Locals, Others
  <2> QED
    BY <1>6, <1>7, <2>1 DEF EnterSettled, EnterPrepared, Publish
<1>8. ASSUME NEW v \in Workers, Claim(v) \/ EnterTerminal(v) \/ EnterStarted(v) \/ Attempt(v)
      PROVE  FALSE
  <2>1. local'[v].pc # "undoPreviewed" /\ Others(v)
    BY <1>8 DEF Claim, EnterTerminal, EnterStarted, Attempt, Rest, TypeOK, Locals, Others
  <2> QED
    BY <1>2, <2>1
<1>9. ASSUME NEW v \in Workers, Settle(v) \/ SettleUnanswered(v) PROVE FALSE
  <2>1. local'[v].pc # "undoPreviewed" /\ Others(v)
    BY <1>9 DEF Settle, SettleUnanswered, Rest, TypeOK, Locals, Others
  <2> QED
    BY <1>2, <2>1
<1>10. ASSUME NEW v \in Workers, PublishExpired(v) \/ Finish(v) \/ Crash(v) PROVE FALSE
  BY <1>1, <1>10 DEF PublishExpired, Finish, Crash
<1>11. ASSUME UNCHANGED local PROVE FALSE
  BY <1>11
<1>12. ASSUME NEW v \in Workers, NEW e \in Runs, PreviewUndo(v, e) PROVE \E f \in Runs : PreviewUndo(w, f)
  <2>1. Others(v)
    BY <1>12, PreviewIs DEF Rest
  <2>2. v = w
    BY <2>1 DEF Others
  <2> QED
    BY <1>12, <2>2
<1>13. ASSUME (\E v \in Workers : Timeout(v)) \/ (\E a \in Actions : RemoveFile(a)) \/ UNCHANGED vars PROVE UNCHANGED local
  BY <1>13 DEF Timeout, RemoveFile, vars
<1>14. ASSUME ChangeAuthority PROVE UNCHANGED local
  BY <1>14, ZenonT(30) DEF ChangeAuthority
<1> QED
  BY <1>3, <1>4, <1>5, <1>7, <1>8, <1>9, <1>10, <1>11, <1>12, <1>13, <1>14 DEF Next, Work

(* The admission of a run, seen from the rows of all runs. *)
LEMMA OpensIs ==
    ASSUME Rest, NEW w \in Workers, NEW r \in Runs, OpensExecution(w, r) \/ OpensUndo(w, r)
    PROVE  /\ UNCHANGED <<journal, place, recon, root, starts>>
           /\ base[r] = None /\ run[r] = "NONE" /\ run'[r] = "RUNNING"
           /\ \A q \in Runs : q # r => base'[q] = base[q] /\ run'[q] = run[q] /\ status'[q] = status[q]
           /\ \A a \in Actions : /\ status[r][a] = "ABSENT" /\ journal[r][a] = "NONE"
                                 /\ status'[r][a] \in {"PENDING", "ABSENT"}
           /\ OpensExecution(w, r) => base'[r] = r
           /\ OpensUndo(w, r) =>
                /\ base'[r] = local[w].run /\ local[w].run \in Runs /\ local[w].run # r
                /\ \A a \in Actions : status'[r][a] # "ABSENT" => a \in local[w].chosen
<1>1. CASE OpensExecution(w, r)
  <2>1. Fresh(r) /\ CreateRun(w, r, r, Actions, FALSE) /\ UNCHANGED <<journal, place, recon, root, starts>>
    BY <1>1 DEF OpensExecution
  <2>2. /\ base[r] = None /\ base'[r] = r /\ run[r] = "NONE" /\ run'[r] = "RUNNING"
        /\ \A q \in Runs : q # r => base'[q] = base[q] /\ run'[q] = run[q] /\ status'[q] = status[q]
        /\ \A a \in Actions : /\ status[r][a] = "ABSENT" /\ starts[r][a] = 0 /\ journal[r][a] = "NONE"
                              /\ status'[r][a] = IF a \in Actions THEN "PENDING" ELSE "ABSENT"
    BY <2>1, CreateIs, ZenonT(40)
  <2>3. ~OpensUndo(w, r) \/ (local[w].run \in Runs /\ base[local[w].run] = local[w].run)
    BY DEF OpensUndo, Rest, OwnerInv, RequestsBound, WorkInv
  <2>4. ~OpensUndo(w, r)
    <3>1. OpensUndo(w, r) => base' = [base EXCEPT ![r] = local[w].run]
      BY DEF OpensUndo, CreateRun
    <3>2. OpensUndo(w, r) => base'[r] = local[w].run
      BY <3>1 DEF Rest, TypeOK
    <3> QED
      BY <2>2, <2>3, <3>2, RunAssumption DEF Runs
  <2> QED
    BY <2>1, <2>2, <2>4
<1>2. CASE OpensUndo(w, r)
  <2> DEFINE e == local[w].run
             chosen == local[w].chosen
  <2>1. Fresh(r) /\ CreateRun(w, r, e, chosen, TRUE) /\ UNCHANGED <<journal, place, recon, root, starts>>
    BY <1>2 DEF OpensUndo
  <2>2. e \in Runs /\ base[e] = e /\ chosen \in SUBSET Actions
    BY <1>2 DEF OpensUndo, Rest, OwnerInv, RequestsBound, WorkInv, TypeOK, Locals
  <2> HIDE DEF e, chosen
  <2>3. /\ base[r] = None /\ base'[r] = e /\ run[r] = "NONE" /\ run'[r] = "RUNNING"
        /\ \A q \in Runs : q # r => base'[q] = base[q] /\ run'[q] = run[q] /\ status'[q] = status[q]
        /\ \A a \in Actions : /\ status[r][a] = "ABSENT" /\ starts[r][a] = 0 /\ journal[r][a] = "NONE"
                              /\ status'[r][a] = IF a \in chosen THEN "PENDING" ELSE "ABSENT"
    <3> DEFINE undo == TRUE
    <3>1. undo \in BOOLEAN /\ CreateRun(w, r, e, chosen, undo)
      BY <2>1
    <3> HIDE DEF undo
    <3> QED
      BY <2>1, <2>2, <3>1, CreateIs
  <2>4. e # r
    BY <2>2, <2>3, RunAssumption DEF Runs
  <2>5. ~OpensExecution(w, r)
    <3>1. OpensExecution(w, r) => base' = [base EXCEPT ![r] = r]
      BY DEF OpensExecution, CreateRun
    <3>2. OpensExecution(w, r) => base'[r] = r
      BY <3>1 DEF Rest, TypeOK
    <3> QED
      BY <2>3, <2>4, <3>2
  <2> QED
    BY <2>1, <2>2, <2>3, <2>4, <2>5 DEF e, chosen
<1> QED
  BY <1>1, <1>2

(* At most one execution is not FAILED. *)
LEMMA ExecutionsStep ==
    ASSUME Kin, [Next]_vars, NEW e \in Runs, NEW f \in Runs, base'[e] = e, base'[f] = f, e # f
    PROVE  run'[e] = "FAILED" \/ run'[f] = "FAILED"
<1>1. CASE base[e] # None /\ base[f] # None
  <2>1. base[e] = e /\ base[f] = f
    BY <1>1, RowsStep DEF Kin, Stable
  <2>2. run[e] = "FAILED" \/ run[f] = "FAILED"
    BY <2>1 DEF Kin, FamilyInv
  <2> QED
    BY <2>2, SettledRunStays DEF Kin
<1>2. ASSUME NEW w \in Workers, NEW r \in Runs, OpensExecution(w, r) PROVE run'[e] = "FAILED" \/ run'[f] = "FAILED"
  <2>1. /\ base[r] = None /\ \A q \in Runs : q # r => base'[q] = base[q] /\ run'[q] = run[q]
    BY <1>2, OpensIs DEF Kin
  <2>2. \A q \in Runs : base[q] = q => run[q] \notin {"RUNNING", "COMPLETED", "PARTIALLY_COMPLETED"}
    BY <1>2 DEF OpensExecution, ClaimPlanExecution
  <2>3. \A q \in Runs : base[q] = q => run[q] = "FAILED"
    BY <2>2, RunAssumption DEF Kin, Rest, TypeOK, RunStatuses, TableInv, Runs
  <2> QED
    BY <2>1, <2>3
<1>3. ASSUME NEW w \in Workers, NEW r \in Runs, OpensUndo(w, r) PROVE base[e] # None /\ base[f] # None
  <2>1. /\ base'[r] = local[w].run /\ local[w].run # r /\ \A q \in Runs : q # r => base'[q] = base[q]
    BY <1>3, OpensIs DEF Kin
  <2> QED
    BY <2>1, RunAssumption DEF Runs
<1>4. ASSUME base' = base PROVE base[e] # None /\ base[f] # None
  BY <1>4, RunAssumption DEF Runs
<1>5. Outcome
  BY Kinds DEF Kin
<1>6. ASSUME NEW w \in Workers, EnterPrepared(w) \/ Attempt(w) \/ Settle(w) \/ Publish(w) \/ Finish(w) PROVE base' = base
  BY <1>6 DEF EnterPrepared, Attempt, Settle, Publish, Finish, database
<1>7. ASSUME NEW a \in Actions, RemoveFile(a) PROVE base' = base
  BY <1>7, RemoveLeaves DEF Kin, Rest
<1> QED
  BY <1>1, <1>2, <1>3, <1>4, <1>5, <1>6, <1>7 DEF Outcome, Calm

(* The base of an Undo that was there before the step. *)
LEMMA OldUndo ==
    ASSUME Kin, [Next]_vars, NEW u \in Runs, base[u] # None, IsUndo(u)'
    PROVE  /\ base'[u] = base[u] /\ IsUndo(u) /\ base[u] \in Runs /\ base[u] # u
           /\ run[base[u]] \in {"COMPLETED", "PARTIALLY_COMPLETED"} /\ run'[base[u]] = run[base[u]]
           /\ base[base[u]] = base[u] /\ base[base[u]] # None
<1>1. base'[u] = base[u]
  BY RowsStep DEF Kin, Stable
<1>2. IsUndo(u) /\ base[u] \in Runs /\ base[u] # u
  BY <1>1 DEF IsUndo, Kin, Rest, TypeOK
<1>3. run[base[u]] \in {"COMPLETED", "PARTIALLY_COMPLETED"} /\ base[base[u]] = base[u]
  BY <1>2 DEF Kin, FamilyInv, Rest, TableInv
<1>4. run'[base[u]] = run[base[u]]
  BY <1>2, <1>3, SettledRunStays DEF Kin
<1> QED
  BY <1>1, <1>2, <1>3, <1>4

(* An Undo run that did not exist is the one an admission creates. *)
LEMMA NewUndo ==
    ASSUME Kin, [Next]_vars, NEW u \in Runs, base[u] = None, IsUndo(u)'
    PROVE  \E w \in Workers : OpensUndo(w, u)
<1>1. base'[u] # base[u] /\ base'[u] # u
  BY DEF IsUndo
<1>2. Outcome
  BY Kinds DEF Kin
<1>3. ASSUME NEW w \in Workers, EnterPrepared(w) \/ Attempt(w) \/ Settle(w) \/ Publish(w) \/ Finish(w) PROVE base' = base
  BY <1>3 DEF EnterPrepared, Attempt, Settle, Publish, Finish, database
<1>4. ASSUME NEW a \in Actions, RemoveFile(a) PROVE base' = base
  BY <1>4, RemoveLeaves DEF Kin, Rest
<1>5. PICK w \in Workers, r \in Runs : OpensExecution(w, r) \/ OpensUndo(w, r)
  BY <1>1, <1>2, <1>3, <1>4 DEF Outcome, Calm
<1>6. /\ \A q \in Runs : q # r => base'[q] = base[q]
      /\ OpensExecution(w, r) => base'[r] = r
  BY <1>5, OpensIs DEF Kin
<1>7. u = r /\ OpensUndo(w, r)
  BY <1>1, <1>5, <1>6
<1> QED
  BY <1>7

(* The journal of an Undo never becomes EXISTING. *)
LEMMA UndoJournalStep ==
    ASSUME Kin, [Next]_vars, NEW u \in Runs, IsUndo(u), NEW a \in Actions
    PROVE  journal'[u][a] # "EXISTING"
<1>1. journal[u][a] # "EXISTING"
  BY DEF Kin, FamilyInv
<1>2. Outcome
  BY Kinds DEF Kin
<1>3. ASSUME NEW w \in Workers, EnterPrepared(w) \/ Publish(w) \/ Finish(w) PROVE journal' = journal
  BY <1>3 DEF EnterPrepared, Publish, Finish, disk
<1>4. ASSUME NEW w \in Workers, Attempt(w) PROVE journal'[u][a] # "EXISTING"
  <2> DEFINE r == local[w].run
             b == local[w].at
  <2>1. /\ \A q \in Runs, c \in Actions : (q # r \/ c # b) => journal'[q][c] = journal[q][c]
        /\ <<journal'[r][b], place'[b]>> \in Effects(r, b)
    BY <1>4, AttemptLeaves DEF Kin
  <2> HIDE DEF r, b
  <2>2. CASE u = r /\ a = b
    BY <2>1, <2>2 DEF Effects
  <2> QED
    BY <1>1, <2>1, <2>2
<1>5. ASSUME NEW w \in Workers, Settle(w) PROVE journal'[u][a] # "EXISTING"
  <2> DEFINE r == local[w].run
             b == local[w].at
  <2>1. /\ \A q \in Runs, c \in Actions : (q # r \/ c # b) => journal'[q][c] = journal[q][c]
        /\ journal'[r][b] = journal[r][b] \/ journal'[r][b] = "COMPLETED"
    BY <1>5, SettleLeaves DEF Kin
  <2> HIDE DEF r, b
  <2> QED
    BY <1>1, <2>1
<1>6. ASSUME NEW w \in Workers, NEW r \in Runs, OpensExecution(w, r) \/ OpensUndo(w, r) PROVE journal' = journal
  BY <1>6 DEF OpensExecution, OpensUndo
<1>7. ASSUME NEW b \in Actions, RemoveFile(b) PROVE journal' = journal
  BY <1>7 DEF RemoveFile
<1> QED
  BY <1>1, <1>2, <1>3, <1>4, <1>5, <1>6, <1>7 DEF Outcome, Calm

(* What an Undo that is admitted is of. *)
LEMMA AdmittedIs ==
    ASSUME Kin, [Next]_vars, NEW w \in Workers, NEW u \in Runs, OpensUndo(w, u), NEW e, e = local[w].run
    PROVE  /\ e \in Runs /\ e # u /\ base[e] = e /\ base'[u] = e /\ base'[e] = e /\ base[u] = None
           /\ run[e] \in {"COMPLETED", "PARTIALLY_COMPLETED"} /\ run'[e] = run[e] /\ run'[u] = "RUNNING"
           /\ \A a \in Actions : status'[u][a] # "ABSENT" =>
                 /\ status'[u][a] = "PENDING" /\ status[e][a] = "COMPLETED" /\ status'[e][a] = "COMPLETED"
                 /\ \A v \in UndosOf(e) : status[v][a] # "COMPLETED"
           /\ \A v \in UndosOf(e) : run[v] \notin {"RUNNING", "COMPLETED"}
           /\ \A q \in Runs : q # u => base'[q] = base[q] /\ run'[q] = run[q] /\ status'[q] = status[q]
           /\ \A a \in Actions : journal'[u][a] = "NONE"
<1>1. /\ UNCHANGED journal /\ base[u] = None /\ run'[u] = "RUNNING"
      /\ \A q \in Runs : q # u => base'[q] = base[q] /\ run'[q] = run[q] /\ status'[q] = status[q]
      /\ \A a \in Actions : /\ journal[u][a] = "NONE" /\ status'[u][a] \in {"PENDING", "ABSENT"}
      /\ base'[u] = e /\ e \in Runs /\ e # u
      /\ \A a \in Actions : status'[u][a] # "ABSENT" => a \in local[w].chosen
  BY OpensIs DEF Kin
<1>2. local[w].pc = "undoPreviewed" /\ AdmitsUndo(e, local[w].chosen)
  BY DEF OpensUndo
<1>3. /\ base[e] = e /\ run[e] \in {"COMPLETED", "PARTIALLY_COMPLETED"}
      /\ \A a \in local[w].chosen : status[e][a] = "COMPLETED"
  BY <1>2 DEF Kin, Rest, WorkInv, FamilyInv
<1>4. \A a \in local[w].chosen, v \in UndosOf(e) : a \in Actions => status[v][a] # "COMPLETED"
  BY <1>2 DEF AdmitsUndo, Undone, Completed
<1>5. \A v \in UndosOf(e) : run[v] \notin {"RUNNING", "COMPLETED"}
  BY <1>2 DEF AdmitsUndo
<1> QED
  BY <1>1, <1>3, <1>4, <1>5

(* An Undo stays one of what its execution completed. *)
LEMMA UndoStep ==
    ASSUME Kin, [Next]_vars, NEW u \in Runs, IsUndo(u)'
    PROVE  /\ run'[base'[u]] \in {"COMPLETED", "PARTIALLY_COMPLETED"}
           /\ \A a \in Actions : status'[u][a] # "ABSENT" => status'[base'[u]][a] = "COMPLETED"
           /\ \A a \in Actions : journal'[u][a] # "EXISTING"
<1>1. CASE base[u] # None
  <2> DEFINE e == base[u]
  <2>1. /\ base'[u] = e /\ IsUndo(u) /\ e \in Runs /\ base[e] # None
        /\ run'[e] \in {"COMPLETED", "PARTIALLY_COMPLETED"}
    BY <1>1, OldUndo
  <2>2. Stable
    BY RowsStep DEF Kin
  <2>3. \A a \in Actions : status[u][a] # "ABSENT" => status[e][a] = "COMPLETED"
    BY <2>1 DEF Kin, FamilyInv
  <2>4. \A a \in Actions : status'[u][a] # "ABSENT" => status[u][a] # "ABSENT"
    BY <1>1, <2>2 DEF Stable
  <2>5. \A a \in Actions : status[e][a] = "COMPLETED" => status'[e][a] = "COMPLETED"
    BY <2>1, <2>2 DEF Stable
  <2>6. \A a \in Actions : journal'[u][a] # "EXISTING"
    BY <2>1, UndoJournalStep
  <2> QED
    BY <2>1, <2>3, <2>4, <2>5, <2>6
<1>2. CASE base[u] = None
  <2>1. PICK w \in Workers : OpensUndo(w, u)
    BY <1>2, NewUndo
  <2> DEFINE e == local[w].run
  <2>2. /\ base'[u] = e /\ run'[e] \in {"COMPLETED", "PARTIALLY_COMPLETED"}
        /\ \A a \in Actions : status'[u][a] # "ABSENT" => status'[e][a] = "COMPLETED"
        /\ \A a \in Actions : journal'[u][a] = "NONE"
    BY <2>1, AdmittedIs
  <2> HIDE DEF e
  <2> QED
    BY <2>2
<1> QED
  BY <1>1, <1>2

(* A run is RUNNING only if it was, or is new; a row becomes COMPLETED only in
   a publication, from PENDING. *)
LEMMA OldRunning ==
    ASSUME Rest, [Next]_vars, NEW r \in Runs, base[r] # None, run'[r] = "RUNNING"
    PROVE  run[r] = "RUNNING"
<1>1. run[r] # "NONE"
  BY DEF Rest, TableInv
<1> QED
  BY <1>1, SettledRunStays

(* A row becomes COMPLETED only from PENDING. *)
LEMMA OldCompleted ==
    ASSUME Rest, [Next]_vars, NEW r \in Runs, NEW a \in Actions, base[r] # None, status'[r][a] = "COMPLETED"
    PROVE  status[r][a] \in {"COMPLETED", "PENDING"}
BY RowsStep DEF Stable

(* Two Undo runs of an execution are never open together and restore nothing
   twice. *)
LEMMA UndoPairStep ==
    ASSUME Kin, [Next]_vars, NEW u \in Runs, NEW v \in Runs, IsUndo(u)', IsUndo(v)', base'[u] = base'[v], u # v
    PROVE  /\ run'[u] # "RUNNING" \/ run'[v] # "RUNNING"
           /\ \A a \in Actions : status'[u][a] = "COMPLETED" =>
                status'[v][a] # "COMPLETED" /\ (run'[v] = "RUNNING" => status'[v][a] = "ABSENT")
<1>0. Stable
  BY RowsStep DEF Kin
<1>1. CASE base[u] # None /\ base[v] # None
  <2>1. IsUndo(u) /\ IsUndo(v) /\ base[u] = base[v]
    BY <1>1, OldUndo
  <2>2. /\ run[u] # "RUNNING" \/ run[v] # "RUNNING"
        /\ \A a \in Actions : /\ status[u][a] = "COMPLETED" =>
                                   status[v][a] # "COMPLETED" /\ (run[v] = "RUNNING" => status[v][a] = "ABSENT")
                              /\ status[v][a] = "COMPLETED" =>
                                   status[u][a] # "COMPLETED" /\ (run[u] = "RUNNING" => status[u][a] = "ABSENT")
    BY <2>1 DEF Kin, FamilyInv
  <2>3. /\ run'[u] = "RUNNING" => run[u] = "RUNNING"
        /\ run'[v] = "RUNNING" => run[v] = "RUNNING"
    BY <1>1, OldRunning DEF Kin
  <2>4. ASSUME NEW a \in Actions, status'[u][a] = "COMPLETED"
        PROVE  status'[v][a] # "COMPLETED" /\ (run'[v] = "RUNNING" => status'[v][a] = "ABSENT")
    <3>1. /\ status[u][a] = "PENDING" => run[u] = "RUNNING"
          /\ status[v][a] = "PENDING" => run[v] = "RUNNING"
      BY DEF Kin, Rest, TableInv
    <3>2. status[u][a] \in {"COMPLETED", "PENDING"} /\ (status'[v][a] = "COMPLETED" => status[v][a] \in {"COMPLETED", "PENDING"})
      BY <1>1, <2>4, OldCompleted DEF Kin
    <3>3. status[v][a] = "ABSENT" => status'[v][a] = "ABSENT"
      BY <1>0, <1>1 DEF Stable
    <3> QED
      BY <2>2, <2>3, <3>1, <3>2, <3>3
  <2> QED
    BY <2>2, <2>3, <2>4
<1>2. ASSUME NEW x \in Runs, NEW y \in Runs, x # y, base[x] = None, IsUndo(x)', IsUndo(y)', base'[x] = base'[y]
      PROVE  /\ run'[y] # "RUNNING" /\ \A a \in Actions : status'[x][a] # "COMPLETED"
             /\ \A a \in Actions : status'[y][a] = "COMPLETED" => status'[x][a] = "ABSENT"
  <2>1. PICK w \in Workers : OpensUndo(w, x)
    BY <1>2, NewUndo
  <2> DEFINE e == local[w].run
  <2>2. /\ base'[x] = e /\ e \in Runs
        /\ \A a \in Actions : status'[x][a] # "ABSENT" =>
                 /\ status'[x][a] = "PENDING" /\ \A z \in UndosOf(e) : status[z][a] # "COMPLETED"
        /\ \A z \in UndosOf(e) : run[z] \notin {"RUNNING", "COMPLETED"}
        /\ \A q \in Runs : q # x => base'[q] = base[q] /\ run'[q] = run[q] /\ status'[q] = status[q]
    BY <2>1, AdmittedIs
  <2> HIDE DEF e
  <2>3. y \in UndosOf(e) /\ run'[y] = run[y] /\ status'[y] = status[y]
    BY <1>2, <2>2 DEF IsUndo, UndosOf
  <2> QED
    BY <2>2, <2>3
<1>3. CASE base[u] = None
  BY <1>2, <1>3
<1>4. CASE base[v] = None
  BY <1>2, <1>4
<1> QED
  BY <1>1, <1>3, <1>4

(* Every step keeps the family of runs. *)
LEMMA FamilyStep == ASSUME Kin, [Next]_vars PROVE FamilyInv'
<1>1. \A e, f \in Runs : base'[e] = e /\ base'[f] = f /\ e # f => run'[e] = "FAILED" \/ run'[f] = "FAILED"
  BY ExecutionsStep
<1>2. \A u \in Runs : IsUndo(u)' =>
          /\ run'[base'[u]] \in {"COMPLETED", "PARTIALLY_COMPLETED"}
          /\ \A a \in Actions : status'[u][a] # "ABSENT" => status'[base'[u]][a] = "COMPLETED"
          /\ \A a \in Actions : journal'[u][a] # "EXISTING"
  BY UndoStep
<1>3. \A u, v \in Runs : IsUndo(u)' /\ base'[v] = base'[u] /\ IsUndo(v)' /\ u # v =>
          /\ run'[u] # "RUNNING" \/ run'[v] # "RUNNING"
          /\ \A a \in Actions : status'[u][a] = "COMPLETED" =>
                status'[v][a] # "COMPLETED" /\ (run'[v] = "RUNNING" => status'[v][a] = "ABSENT")
  BY UndoPairStep
<1>4. ASSUME NEW w \in Workers, local'[w].pc = "undoPreviewed"
      PROVE  /\ run'[local'[w].run] \in {"COMPLETED", "PARTIALLY_COMPLETED"}
             /\ \A a \in local'[w].chosen : status'[local'[w].run][a] = "COMPLETED"
  <2>1. /\ local'[w].run \in Runs /\ base[local'[w].run] # None
        /\ run[local'[w].run] \in {"COMPLETED", "PARTIALLY_COMPLETED"}
        /\ \A a \in local'[w].chosen : a \in Actions /\ status[local'[w].run][a] = "COMPLETED"
    <3>1. CASE local'[w] = local[w]
      <4>1. local[w].run \in Runs /\ base[local[w].run] = local[w].run
        BY <1>4, <3>1 DEF Kin, Rest, OwnerInv, RequestsBound, WorkInv
      <4>2. /\ run[local[w].run] \in {"COMPLETED", "PARTIALLY_COMPLETED"}
            /\ \A a \in local[w].chosen : status[local[w].run][a] = "COMPLETED"
        BY <1>4, <3>1 DEF Kin, FamilyInv
      <4>3. local[w].chosen \subseteq Actions
        BY DEF Kin, Rest, TypeOK, Locals
      <4> QED
        BY <3>1, <4>1, <4>2, <4>3, RunAssumption DEF Runs
    <3>2. CASE local'[w] # local[w]
      <4>1. PICK e \in Runs : PreviewUndo(w, e)
        BY <1>4, <3>2, PreviewedStep DEF Kin
      <4>2. /\ base[e] = e /\ run[e] \in {"COMPLETED", "PARTIALLY_COMPLETED"}
            /\ local'[w].run = e /\ local'[w].chosen = Completed(e) \ Undone(e)
        BY <4>1, PreviewIs DEF Kin, Rest
      <4> QED
        BY <4>2, RunAssumption DEF Runs, Completed
    <3> QED
      BY <3>1, <3>2
  <2> DEFINE e == local'[w].run
             chosen == local'[w].chosen
  <2> HIDE DEF e, chosen
  <2>2. run'[e] = run[e]
    BY <2>1, SettledRunStays DEF Kin, e
  <2>3. Stable
    BY RowsStep DEF Kin
  <2>4. \A a \in chosen : status'[e][a] = "COMPLETED"
    BY <2>1, <2>3 DEF Stable, e, chosen
  <2> QED
    BY <2>1, <2>2, <2>4 DEF e, chosen
<1> QED
  BY <1>1, <1>2, <1>3, <1>4 DEF FamilyInv, IsUndo

(***************************************************************************)
(* The disk.                                                               *)
(***************************************************************************)

(* The journal of a FAILED execution tells of no change. *)
LEMMA FailedUntouched ==
    ASSUME Rest, NEW f \in Runs, NEW a \in Actions, run[f] = "FAILED"
    PROVE  journal[f][a] = "NONE"
BY DEF Rest, TableInv, TypeOK, RowStatuses

(* A run that has an Undo is settled, and no Undo began what it had not completed. *)
LEMMA UndoneIsCompleted ==
    ASSUME Kin, NEW e \in Runs, NEW u \in UndosOf(e), NEW a \in Actions, journal[u][a] # "NONE"
    PROVE  status[e][a] = "COMPLETED" /\ journal[e][a] \in {"COMPLETED", "EXISTING"}
<1>1. u \in Runs /\ base[u] = e /\ IsUndo(u)
  BY RunAssumption DEF UndosOf, IsUndo, Runs
<1>2. status[u][a] # "ABSENT"
  BY <1>1 DEF Kin, Rest, TableInv
<1>3. status[e][a] = "COMPLETED"
  BY <1>1, <1>2 DEF Kin, FamilyInv
<1> QED
  BY <1>3 DEF Kin, Rest, TableInv

(* Steps that leave the runs, the journals and the files alone. *)
LEMMA QuietDisk == ASSUME DiskInv, UNCHANGED <<base, journal, place>> PROVE DiskInv'
BY DEF DiskInv, UndosOf

(* A filesystem call keeps the disk as the journals tell. *)
LEMMA AttemptDisk ==
    ASSUME Kin, DiskInv, NEW w \in Workers, Attempt(w)
    PROVE  DiskInv'
<1> DEFINE r == local[w].run
           b == local[w].at
<1>1. /\ UNCHANGED <<base, run, status>>
      /\ r \in Runs /\ b \in Actions /\ status[r][b] = "PENDING" /\ run[r] = "RUNNING" /\ base[r] # None
      /\ journal[r][b] = "NONE"
      /\ \A q \in Runs, c \in Actions : (q # r \/ c # b) => journal'[q][c] = journal[q][c]
      /\ \A c \in Actions : c # b => place'[c] = place[c]
      /\ <<journal'[r][b], place'[b]>> \in Effects(r, b)
  BY AttemptLeaves DEF Kin
<1> HIDE DEF r, b
<1> SUFFICES ASSUME NEW e \in Runs, NEW a \in Actions, base[e] = e
             PROVE  /\ journal'[e][a] = "CAPTURED" => place'[a] \in {"destination", "lost"}
                    /\ journal'[e][a] = "COMPLETED" =>
                         /\ (\A u \in UndosOf(e) : journal'[u][a] \in {"NONE", "INTENT"}) => place'[a] \in {"destination", "lost"}
                         /\ \A u \in UndosOf(e) : journal'[u][a] \in {"CAPTURED", "COMPLETED"} => place'[a] \in {"source", "lost"}
  BY <1>1 DEF DiskInv, UndosOf
<1>2. CASE a # b
  <2>1. place'[a] = place[a] /\ journal'[e][a] = journal[e][a] /\ \A u \in UndosOf(e) : journal'[u][a] = journal[u][a]
    BY <1>1, <1>2 DEF UndosOf
  <2> QED
    BY <2>1 DEF DiskInv
<1>3. CASE a = b /\ e = r
  <2>1. ~IsUndo(r)
    BY <1>3 DEF IsUndo
  <2>2. UndosOf(r) = {}
    <3>1. ASSUME NEW u \in UndosOf(r) PROVE FALSE
      <4>1. u \in Runs /\ base[u] = r /\ IsUndo(u)
        BY <1>1, <3>1, RunAssumption DEF UndosOf, IsUndo, Runs
      <4> QED
        BY <1>1, <4>1 DEF Kin, FamilyInv
    <3> QED
      BY <3>1
  <2>3. journal'[r][b] \in {"CAPTURED", "COMPLETED"} => place'[b] = "destination"
    BY <1>1, <2>1 DEF Effects, To, From
  <2> QED
    BY <1>3, <2>2, <2>3
<1>4. CASE a = b /\ e # r /\ e # base[r]
  <2>1. run[e] = "FAILED"
    <3>1. CASE base[r] = r
      BY <1>1, <1>4, <3>1 DEF Kin, FamilyInv
    <3>2. CASE base[r] # r
      <4>1. base[r] \in Runs /\ base[base[r]] = base[r] /\ run[base[r]] \in {"COMPLETED", "PARTIALLY_COMPLETED"}
        BY <1>1, <3>2 DEF Kin, Rest, TypeOK, TableInv, FamilyInv, IsUndo
      <4> QED
        BY <1>4, <4>1 DEF Kin, FamilyInv
    <3> QED
      BY <3>1, <3>2
  <2>2. journal'[e][a] = "NONE"
    BY <1>1, <1>4, <2>1, FailedUntouched DEF Kin
  <2> QED
    BY <2>2
<1>5. CASE a = b /\ e # r /\ e = base[r]
  <2>1. IsUndo(r) /\ r \in UndosOf(e)
    BY <1>1, <1>5 DEF IsUndo, UndosOf
  <2>2. status[e][a] = "COMPLETED" /\ journal'[e][a] = journal[e][a]
    BY <1>1, <1>5, <2>1 DEF Kin, FamilyInv
  <2>3. journal[e][a] \in {"COMPLETED", "EXISTING"}
    BY <2>2 DEF Kin, Rest, TableInv
  <2>4. /\ journal'[r][b] \in {"NONE", "INTENT"} => place'[b] = place[b]
        /\ journal'[r][b] \in {"CAPTURED", "COMPLETED"} => place'[b] = "source"
        /\ place[b] # "destination" => place'[b] = place[b]
    BY <1>1, <2>1 DEF Effects, To, From
  <2>5. \A u \in UndosOf(e) : u # r => journal'[u][a] = journal[u][a]
    BY <1>1 DEF UndosOf
  <2>6. ASSUME journal[e][a] = "COMPLETED", \A u \in UndosOf(e) : journal'[u][a] \in {"NONE", "INTENT"}
        PROVE  place'[a] \in {"destination", "lost"}
    <3>1. \A u \in UndosOf(e) : journal[u][a] \in {"NONE", "INTENT"}
      BY <1>1, <1>5, <2>5, <2>6
    <3>2. place'[b] = place[b]
      BY <1>5, <2>1, <2>4, <2>6
    <3> QED
      BY <1>5, <2>6, <3>1, <3>2 DEF DiskInv
  <2>7. ASSUME journal[e][a] = "COMPLETED", NEW u \in UndosOf(e), journal'[u][a] \in {"CAPTURED", "COMPLETED"}
        PROVE  place'[a] \in {"source", "lost"}
    <3>1. CASE u = r
      BY <1>5, <2>4, <2>7, <3>1
    <3>2. CASE u # r
      <4>1. place[a] \in {"source", "lost"}
        BY <2>5, <2>7, <3>2 DEF DiskInv
      <4> QED
        BY <1>5, <2>4, <4>1
    <3> QED
      BY <3>1, <3>2
  <2> QED
    BY <2>2, <2>3, <2>6, <2>7
<1> QED
  BY <1>2, <1>3, <1>4, <1>5

(* So does the completion of a journal. *)
LEMMA SettleDisk ==
    ASSUME Kin, DiskInv, NEW w \in Workers, Settle(w)
    PROVE  DiskInv'
<1> DEFINE r == local[w].run
           b == local[w].at
<1>1. /\ UNCHANGED <<base, run, status, place>> /\ r \in Runs /\ b \in Actions /\ base[r] # None
      /\ \A q \in Runs, c \in Actions : (q # r \/ c # b) => journal'[q][c] = journal[q][c]
      /\ \/ journal'[r][b] = journal[r][b]
         \/ journal'[r][b] = "COMPLETED" /\ journal[r][b] \in {"LINKED", "CAPTURED"} /\ place[b] = To(r)
  BY SettleLeaves DEF Kin
<1> HIDE DEF r, b
<1>2. CASE journal'[r][b] = journal[r][b]
  <2>1. \A q \in Runs, c \in Actions : journal'[q][c] = journal[q][c]
    BY <1>1, <1>2
  <2>2. UNCHANGED <<base, place>>
    BY <1>1
  <2> QED
    BY <2>1, <2>2 DEF DiskInv, UndosOf
<1>3. CASE journal'[r][b] = "COMPLETED" /\ journal[r][b] \in {"LINKED", "CAPTURED"} /\ place[b] = To(r)
  <2> SUFFICES ASSUME NEW e \in Runs, NEW a \in Actions, base[e] = e
               PROVE  /\ journal'[e][a] = "CAPTURED" => place[a] \in {"destination", "lost"}
                      /\ journal'[e][a] = "COMPLETED" =>
                           /\ (\A u \in UndosOf(e) : journal'[u][a] \in {"NONE", "INTENT"}) => place[a] \in {"destination", "lost"}
                           /\ \A u \in UndosOf(e) : journal'[u][a] \in {"CAPTURED", "COMPLETED"} => place[a] \in {"source", "lost"}
    BY <1>1 DEF DiskInv, UndosOf
  <2>1. CASE a = b /\ e = r
    <3>1. place[b] = "destination"
      BY <1>3, <2>1 DEF To, IsUndo
    <3>2. ASSUME NEW u \in UndosOf(e) PROVE journal'[u][a] = "NONE"
      <4>1. u \in Runs /\ u # e
        BY DEF UndosOf
      <4>2. journal[u][a] = "NONE"
        BY <1>3, <2>1, UndoneIsCompleted
      <4> QED
        BY <1>1, <2>1, <4>1, <4>2
    <3> QED
      BY <1>3, <2>1, <3>1, <3>2
  <2>2. CASE ~(a = b /\ e = r)
    <3>1. journal'[e][a] = journal[e][a]
      BY <1>1, <2>2
    <3>2. ASSUME NEW u \in UndosOf(e), u = r, a = b PROVE place[a] = "source"
      <4>1. IsUndo(r)
        BY <3>2, RunAssumption DEF UndosOf, IsUndo, Runs
      <4> QED
        BY <1>3, <3>2, <4>1 DEF To
    <3>3. \A u \in UndosOf(e) : (u # r \/ a # b) => journal'[u][a] = journal[u][a]
      BY <1>1 DEF UndosOf
    <3>4. (\A u \in UndosOf(e) : journal'[u][a] \in {"NONE", "INTENT"}) => \A u \in UndosOf(e) : journal[u][a] \in {"NONE", "INTENT"}
      BY <1>3, <3>3
    <3> QED
      BY <3>1, <3>2, <3>3, <3>4 DEF DiskInv
  <2> QED
    BY <2>1, <2>2
<1> QED
  BY <1>1, <1>2, <1>3

(* So does every step. *)
LEMMA DiskStep == ASSUME Kin, DiskInv, [Next]_vars PROVE DiskInv'
<1>1. Outcome
  BY Kinds DEF Kin
<1>2. ASSUME NEW w \in Workers, EnterPrepared(w) \/ Publish(w) \/ Finish(w) PROVE UNCHANGED <<base, journal, place>>
  BY <1>2 DEF EnterPrepared, Publish, Finish, disk
<1>3. ASSUME NEW a \in Actions, RemoveFile(a) PROVE DiskInv'
  <2>1. /\ UNCHANGED <<base, journal>>
        /\ \A b \in Actions : place'[b] # place[b] => place[b] = "both" \/ place'[b] = "lost"
    BY <1>3, RemoveLeaves DEF Kin, Rest
  <2>2. \A b \in Actions : /\ place[b] \in {"destination", "lost"} => place'[b] \in {"destination", "lost"}
                           /\ place[b] \in {"source", "lost"} => place'[b] \in {"source", "lost"}
    BY <2>1
  <2> QED
    BY <2>1, <2>2 DEF DiskInv, UndosOf
<1>4. ASSUME NEW w \in Workers, NEW r \in Runs, OpensExecution(w, r) \/ OpensUndo(w, r) PROVE DiskInv'
  <2>1. /\ UNCHANGED <<journal, place>> /\ base[r] = None
        /\ \A q \in Runs : q # r => base'[q] = base[q]
        /\ \A a \in Actions : journal[r][a] = "NONE"
    BY <1>4, OpensIs DEF Kin
  <2> SUFFICES ASSUME NEW e \in Runs, NEW a \in Actions, base'[e] = e, e # r
               PROVE  /\ journal[e][a] = "CAPTURED" => place[a] \in {"destination", "lost"}
                      /\ journal[e][a] = "COMPLETED" =>
                           /\ (\A u \in UndosOf(e)' : journal[u][a] \in {"NONE", "INTENT"}) => place[a] \in {"destination", "lost"}
                           /\ \A u \in UndosOf(e)' : journal[u][a] \in {"CAPTURED", "COMPLETED"} => place[a] \in {"source", "lost"}
    BY <2>1 DEF DiskInv, UndosOf
  <2>2. base[e] = e
    BY <2>1
  <2>3. \A u \in UndosOf(e) : u \in UndosOf(e)'
    BY <2>1, RunAssumption DEF UndosOf, Runs
  <2>4. \A u \in UndosOf(e)' : u = r \/ u \in UndosOf(e)
    BY <2>1 DEF UndosOf
  <2> QED
    BY <2>1, <2>2, <2>3, <2>4 DEF DiskInv
<1> QED
  BY <1>1, <1>2, <1>3, <1>4, QuietDisk, AttemptDisk, SettleDisk DEF Outcome, Calm

(***************************************************************************)
(* The grant.                                                              *)
(***************************************************************************)

Held == {"attempt", "settle", "publish"}

(* While the root row is held, the grant and the revision of the run stay. *)
LEMMA GrantStays ==
    ASSUME Rest, [Next]_vars, lock' # None, NEW r \in Runs
    PROVE  Granted(r)' <=> Granted(r)
<1>1. ASSUME UNCHANGED <<runRev, root>> PROVE Granted(r)' <=> Granted(r)
  BY <1>1 DEF Granted
<1>2. ASSUME NEW w \in Workers, StartExecution(w) \/ StartUndo(w) \/ Publish(w) \/ Finish(w) PROVE lock' = None
  BY <1>2 DEF StartExecution, StartUndo, Publish, Finish
<1>3. ASSUME NEW w \in Workers, LoadPlan(w) \/ EnterTerminal(w) \/ EnterSettled(w) \/ EnterStarted(w) \/ Attempt(w)
                               \/ SettleUnanswered(w) \/ PublishExpired(w) \/ Crash(w) \/ Timeout(w)
      PROVE  UNCHANGED <<runRev, root>>
  <2>1. CASE LoadPlan(w) \/ EnterTerminal(w) \/ EnterSettled(w) \/ EnterStarted(w) \/ Attempt(w)
    BY <2>1 DEF LoadPlan, EnterTerminal, EnterSettled, EnterStarted, Attempt, database
  <2> QED
    BY <1>3, <2>1 DEF SettleUnanswered, PublishExpired, Crash, Timeout, database
<1>4. ASSUME NEW w \in Workers, Claim(w) \/ EnterPrepared(w) \/ Settle(w) PROVE UNCHANGED <<runRev, root>>
  BY <1>4 DEF Claim, EnterPrepared, Settle, database
<1>5. ASSUME NEW w \in Workers, NEW q \in Runs, PreviewUndo(w, q) PROVE UNCHANGED <<runRev, root>>
  BY <1>5, PreviewIs DEF Rest, database
<1>6. ASSUME NEW w \in Workers, NEW q \in Runs, RecoverRun(w, q) PROVE UNCHANGED <<runRev, root>>
  BY <1>6 DEF RecoverRun, database
<1>7. ASSUME NEW a \in Actions, RemoveFile(a) PROVE UNCHANGED <<runRev, root>>
  BY <1>7 DEF RemoveFile, database
<1>8. ASSUME ChangeAuthority PROVE lock' = None
  BY <1>8, ZenonT(30) DEF ChangeAuthority
<1>9. ASSUME UNCHANGED vars PROVE UNCHANGED <<runRev, root>>
  BY <1>9 DEF vars
<1> QED
  BY <1>1, <1>2, <1>3, <1>4, <1>5, <1>6, <1>7, <1>8, <1>9 DEF Next, Work

(* Who holds the root row after a step: the request that has just entered its
   transaction, or who held it, with the same row. *)
LEMMA HolderStep ==
    ASSUME Rest, [Next]_vars, NEW w \in Workers
    PROVE  /\ lock' = w => EnterStarted(w) \/ (lock = w /\ (local'[w].pc = "attempt" => local'[w] = local[w]))
           /\ local'[w].pc \in Held => EnterStarted(w) \/ (local[w].pc \in Held /\ (lock' # lock => (\E v \in Workers : Timeout(v)) \/ lock # w))
<1> DEFINE Goal == /\ lock' = w => EnterStarted(w) \/ (lock = w /\ (local'[w].pc = "attempt" => local'[w] = local[w]))
                   /\ local'[w].pc \in Held => EnterStarted(w) \/ (local[w].pc \in Held /\ (lock' # lock => (\E v \in Workers : Timeout(v)) \/ lock # w))
<1> SUFFICES Goal
  OBVIOUS
<1>1. ASSUME NEW v \in Workers, Others(v), lock' \in {lock, None}, lock' # lock => lock = v, local'[v].pc \notin Held PROVE Goal
  <2>1. CASE v = w
    <3>1. local'[w].pc \notin Held /\ lock' \in {lock, None}
      BY <1>1, <2>1
    <3>2. lock' = w => lock = w
      BY <3>1, RunAssumption
    <3> QED
      BY <3>1, <3>2 DEF Held
  <2>2. CASE v # w
    <3>1. local'[w] = local[w] /\ lock' \in {lock, None} /\ (lock' # lock => lock # w)
      BY <1>1, <2>2 DEF Others
    <3>2. lock' = w => lock = w
      BY <3>1, RunAssumption
    <3> QED
      BY <3>1, <3>2
  <2> QED
    BY <2>1, <2>2
<1>2. ASSUME NEW v \in Workers, local' = [local EXCEPT ![v] = Idle], lock' \in {lock, None}, lock' # lock => lock = v PROVE Goal
  <2>1. Others(v) /\ local'[v].pc = "idle"
    BY <1>2 DEF Idle, Others, Rest, TypeOK
  <2> QED
    BY <1>1, <1>2, <2>1 DEF Held
<1>3. ASSUME NEW v \in Workers, StartExecution(v) \/ StartUndo(v) PROVE Goal
  <2>0. lock' = lock
    BY <1>3 DEF StartExecution, StartUndo
  <2>1. ASSUME NEW r \in Runs, NEW a, local' = [local EXCEPT ![v] = Begin(r, a)] PROVE Goal
    <3>1. Others(v) /\ local'[v].pc = "claim"
      BY <2>1 DEF Begin, Idle, Others, Rest, TypeOK
    <3> QED
      BY <1>1, <2>0, <3>1 DEF Held
  <2> QED
    BY <1>2, <1>3, <2>0, <2>1 DEF StartExecution, StartUndo, CreateRun
<1>4. ASSUME NEW v \in Workers, NEW r \in Runs, RecoverRun(v, r) PROVE Goal
  <2>1. ASSUME NEW a, local' = [local EXCEPT ![v] = Begin(r, a)] PROVE Others(v) /\ local'[v].pc = "claim"
    BY <2>1 DEF Begin, Idle, Others, Rest, TypeOK
  <2> QED
    BY <1>1, <1>4, <2>1 DEF RecoverRun, Held
<1>5. ASSUME NEW v \in Workers, LoadPlan(v) PROVE Goal
  <2>1. Others(v) /\ local'[v].pc = "planLoaded" /\ lock' = lock
    BY <1>5 DEF LoadPlan, Idle, Others, Rest, TypeOK
  <2> QED
    BY <1>1, <2>1 DEF Held
<1>6. ASSUME NEW v \in Workers, NEW stop, Advance(v, stop), lock' \in {lock, None}, lock' # lock => lock = v PROVE Goal
  <2>1. local'[v].pc \in {"finish", "claim"} /\ Others(v)
    BY <1>6 DEF Advance, Rest, TypeOK, Locals, Others
  <2> QED
    BY <1>1, <1>6, <2>1 DEF Held
<1>7. ASSUME NEW v \in Workers, EnterSettled(v) \/ EnterPrepared(v) PROVE Goal
  BY <1>6, <1>7 DEF EnterSettled, EnterPrepared
<1>8. ASSUME NEW v \in Workers, Publish(v) PROVE Goal
  <2>1. lock = v /\ lock' = None
    BY <1>8 DEF Publish
  <2>2. ASSUME local' = [local EXCEPT ![v].pc = "finish"] PROVE Goal
    <3>1. Others(v) /\ local'[v].pc = "finish"
      BY <2>2 DEF Rest, TypeOK, Locals, Others
    <3> QED
      BY <1>1, <2>1, <3>1 DEF Held
  <2> QED
    BY <1>6, <1>8, <2>1, <2>2 DEF Publish
<1>9. ASSUME NEW v \in Workers, Claim(v) \/ EnterTerminal(v) PROVE Goal
  <2>1. local'[v].pc \in {"enter", "finish"} /\ Others(v) /\ lock' = lock
    BY <1>9 DEF Claim, EnterTerminal, Rest, TypeOK, Locals, Others
  <2> QED
    BY <1>1, <2>1 DEF Held
<1>10. ASSUME NEW v \in Workers, EnterStarted(v) PROVE Goal
  <2>1. lock = None /\ lock' = v /\ Others(v)
    BY <1>10 DEF EnterStarted, Rest, TypeOK, Others
  <2> QED
    BY <1>10, <2>1, RunAssumption DEF Others
<1>11. ASSUME NEW v \in Workers, Attempt(v) \/ Settle(v) \/ SettleUnanswered(v) PROVE Goal
  <2>1. local[v].pc \in Held /\ local'[v].pc # "attempt" /\ Others(v) /\ lock' = lock
    <3>1. CASE Attempt(v)
      BY <3>1 DEF Attempt, Rest, TypeOK, Locals, Others, Held
    <3>2. CASE Settle(v)
      BY <3>2 DEF Settle, Rest, TypeOK, Locals, Others, Held
    <3>3. CASE SettleUnanswered(v)
      BY <3>3 DEF SettleUnanswered, Rest, TypeOK, Locals, Others, Held
    <3> QED
      BY <1>11, <3>1, <3>2, <3>3
  <2> QED
    BY <2>1 DEF Others
<1>12. ASSUME NEW v \in Workers, PublishExpired(v) \/ Finish(v) PROVE Goal
  BY <1>2, <1>12 DEF PublishExpired, Finish
<1>13. ASSUME NEW v \in Workers, Crash(v) PROVE Goal
  <2>1. local' = [local EXCEPT ![v] = Idle] /\ lock' = IF lock = v THEN None ELSE lock
    BY <1>13 DEF Crash
  <2> QED
    BY <1>2, <2>1
<1>14. ASSUME NEW v \in Workers, NEW e \in Runs, PreviewUndo(v, e) PROVE Goal
  <2>1. Others(v) /\ lock' = lock /\ local'[v].pc = "undoPreviewed"
    BY <1>14, PreviewIs DEF Rest
  <2> QED
    BY <1>1, <2>1 DEF Held
<1>15. ASSUME NEW v \in Workers, Timeout(v) PROVE Goal
  <2>1. lock' = None /\ local' = local
    BY <1>15 DEF Timeout
  <2> QED
    BY <1>15, <2>1, RunAssumption
<1>16. ASSUME UNCHANGED <<lock, local>> PROVE Goal
  BY <1>16
<1>17. ASSUME NEW a \in Actions, RemoveFile(a) PROVE Goal
  BY <1>16, <1>17 DEF RemoveFile
<1>18. ASSUME ChangeAuthority PROVE Goal
  <2>1. UNCHANGED <<lock, local>>
    BY <1>18, ZenonT(30) DEF ChangeAuthority
  <2> QED
    BY <1>16, <2>1
<1>19. ASSUME UNCHANGED vars PROVE Goal
  BY <1>16, <1>19 DEF vars
<1> HIDE DEF Goal
<1> QED
  BY <1>3, <1>4, <1>5, <1>7, <1>8, <1>9, <1>10, <1>11, <1>12, <1>13, <1>14, <1>15, <1>17, <1>18,
     <1>19 DEF Next, Work

(* Transactions that expired are not forgotten. *)
LEMMA TimeoutsStep ==
    ASSUME TypeOK, [Next]_vars, counts'.timeouts = 0
    PROVE  counts.timeouts = 0 /\ ~\E w \in Workers : Timeout(w)
<1>0. counts \in [crashes : 0..MaxCrashes, changes : 0..MaxChanges, timeouts : 0..MaxTimeouts, removals : 0..MaxRemovals]
      /\ counts.timeouts \in Nat
  BY RunAssumption DEF TypeOK
<1>1. ASSUME NEW w \in Workers, Timeout(w) PROVE FALSE
  BY <1>0, <1>1 DEF Timeout
<1>2. ASSUME NEW w \in Workers, Crash(w) PROVE counts'.timeouts = counts.timeouts
  BY <1>0, <1>2 DEF Crash
<1>3. ASSUME NEW a \in Actions, RemoveFile(a) PROVE counts'.timeouts = counts.timeouts
  <2>1. counts' = [counts EXCEPT !.removals = @ + 1]
    BY <1>3 DEF RemoveFile
  <2> QED
    BY <1>0, <2>1
<1>4. ASSUME ChangeAuthority PROVE counts'.timeouts = counts.timeouts
  <2>1. counts' = [counts EXCEPT !.changes = @ + 1]
    BY <1>4, ZenonT(30) DEF ChangeAuthority
  <2> QED
    BY <1>0, <2>1
<1>5. ASSUME NEW w \in Workers, NEW r \in Runs, PreviewUndo(w, r) PROVE counts' = counts
  BY <1>5, PreviewIs
<1>6. ASSUME NEW w \in Workers, NEW r \in Runs, RecoverRun(w, r) PROVE counts' = counts
  BY <1>6 DEF RecoverRun
<1>7. ASSUME NEW w \in Workers, Work(w) \/ LoadPlan(w) PROVE counts' = counts
  <2>1. CASE StartExecution(w) \/ StartUndo(w) \/ Claim(w) \/ LoadPlan(w)
    BY <2>1 DEF StartExecution, StartUndo, Claim, LoadPlan
  <2>2. CASE EnterTerminal(w) \/ EnterSettled(w) \/ EnterPrepared(w) \/ EnterStarted(w)
    BY <2>2 DEF EnterTerminal, EnterSettled, EnterPrepared, EnterStarted
  <2>3. CASE Attempt(w) \/ Settle(w) \/ SettleUnanswered(w)
    BY <2>3 DEF Attempt, Settle, SettleUnanswered
  <2>4. CASE Publish(w) \/ PublishExpired(w) \/ Finish(w)
    BY <2>4 DEF Publish, PublishExpired, Finish
  <2> QED
    BY <1>7, <2>1, <2>2, <2>3, <2>4 DEF Work
<1>8. ASSUME UNCHANGED vars PROVE counts' = counts
  BY <1>8 DEF vars
<1>9. ~\E w \in Workers : Timeout(w)
  BY <1>1
<1> QED
  BY <1>2, <1>3, <1>4, <1>5, <1>6, <1>7, <1>8, <1>9 DEF Next

(* Only an attempt can change the disk without a grant. *)
LEMMA UngrantedStep ==
    ASSUME TypeOK, [Next]_vars, ~ungranted, \A w \in Workers : local[w].pc = "attempt" => Granted(local[w].run)
    PROVE  ~ungranted'
<1>1. ASSUME NEW w \in Workers, Attempt(w) PROVE ~ungranted'
  <2>1. local[w].pc = "attempt" /\ \E fx : ungranted' = (ungranted \/ (fx[2] # place[local[w].at] /\ ~Granted(local[w].run)))
    BY <1>1 DEF Attempt
  <2> QED
    BY <2>1
<1>2. ASSUME NEW w \in Workers, NEW r \in Runs, PreviewUndo(w, r) PROVE ungranted' = ungranted
  BY <1>2, PreviewIs DEF history
<1>3. ASSUME NEW w \in Workers, NEW r \in Runs, RecoverRun(w, r) PROVE ungranted' = ungranted
  BY <1>3 DEF RecoverRun, history
<1>4. ASSUME NEW w \in Workers, StartExecution(w) \/ StartUndo(w) \/ Claim(w) \/ LoadPlan(w) PROVE ungranted' = ungranted
  BY <1>4 DEF StartExecution, StartUndo, Claim, LoadPlan, history
<1>5. ASSUME NEW w \in Workers, EnterTerminal(w) \/ EnterSettled(w) \/ EnterPrepared(w) \/ EnterStarted(w)
      PROVE  ungranted' = ungranted
  BY <1>5 DEF EnterTerminal, EnterSettled, EnterPrepared, EnterStarted, history
<1>6. ASSUME NEW w \in Workers, Settle(w) \/ SettleUnanswered(w) \/ Publish(w) \/ PublishExpired(w) PROVE ungranted' = ungranted
  BY <1>6 DEF Settle, SettleUnanswered, Publish, PublishExpired, history
<1>7. ASSUME NEW w \in Workers, Finish(w) \/ Crash(w) \/ Timeout(w) PROVE ungranted' = ungranted
  BY <1>7 DEF Finish, Crash, Timeout, history
<1>8. ASSUME NEW a \in Actions, RemoveFile(a) PROVE ungranted' = ungranted
  BY <1>8 DEF RemoveFile, history
<1>9. ASSUME ChangeAuthority PROVE ungranted' = ungranted
  <2>1. UNCHANGED history
    BY <1>9, ZenonT(30) DEF ChangeAuthority
  <2> QED
    BY <2>1 DEF history
<1>10. ASSUME UNCHANGED vars PROVE ungranted' = ungranted
  BY <1>10 DEF vars
<1> QED
  BY <1>1, <1>2, <1>3, <1>4, <1>5, <1>6, <1>7, <1>8, <1>9, <1>10 DEF Next, Work

(* Every step keeps the grant behind a filesystem call. *)
LEMMA GrantStep == ASSUME Rest, GrantInv, [Next]_vars PROVE GrantInv'
<1>1. ASSUME NEW w \in Workers, lock' = w, local'[w].pc = "attempt" PROVE Granted(local[w].run)'
  <2>0. lock' # None
    BY <1>1, RunAssumption
  <2>1. local'[w].run = local[w].run /\ local[w].run \in Runs /\ Granted(local[w].run)
    <3>1. CASE EnterStarted(w)
      <4>1. local[w].pc \in Bound /\ Allowed(w) /\ local'[w].run = local[w].run
        BY <1>1, <3>1 DEF EnterStarted, Rest, TypeOK, Locals, Bound
      <4> QED
        BY <4>1, RowOf DEF Allowed
    <3>2. CASE lock = w /\ local'[w] = local[w]
      <4>1. Granted(local[w].run) /\ local[w].pc \in Bound
        BY <1>1, <3>2 DEF GrantInv, Bound
      <4> QED
        BY <3>2, <4>1, RowOf
    <3> QED
      BY <1>1, <3>1, <3>2, HolderStep
  <2>2. PICK r \in Runs : r = local[w].run
    BY <2>1
  <2>3. Granted(r)'
    BY <2>0, <2>1, <2>2, GrantStays
  <2> QED
    BY <2>1, <2>2, <2>3 DEF Granted
<1>2. ASSUME counts'.timeouts = 0 PROVE ~ungranted' /\ \A w \in Workers : local'[w].pc \in {"attempt", "settle", "publish"} => lock' = w
  <2>1. counts.timeouts = 0 /\ ~\E w \in Workers : Timeout(w)
    BY <1>2, TimeoutsStep DEF Rest
  <2>2. ~ungranted /\ \A w \in Workers : local[w].pc \in Held => lock = w
    BY <2>1 DEF GrantInv, Held
  <2>3. \A w \in Workers : local[w].pc = "attempt" => Granted(local[w].run)
    BY <2>2 DEF GrantInv, Held
  <2>4. ~ungranted'
    BY <2>2, <2>3, UngrantedStep DEF Rest
  <2>5. ASSUME NEW w \in Workers, local'[w].pc \in Held PROVE lock' = w
    <3>1. EnterStarted(w) => lock' = w
      BY DEF EnterStarted
    <3>2. EnterStarted(w) \/ (local[w].pc \in Held /\ (lock' # lock => (\E v \in Workers : Timeout(v)) \/ lock # w))
      BY <2>5, HolderStep
    <3> QED
      BY <2>1, <2>2, <3>1, <3>2
  <2> QED
    BY <2>4, <2>5 DEF Held
<1> QED
  BY <1>1, <1>2 DEF GrantInv

(***************************************************************************)
(* The obligations and the generation.                                     *)
(***************************************************************************)

ChangedRow(r, a) == Changed(r, a, status[r][a])

(* A published change stays one. *)
LEMMA ChangedStays ==
    ASSUME Rest, Stable, NEW r \in Runs, NEW a \in Actions, status[r][a] = "COMPLETED"
    PROVE  status'[r][a] = "COMPLETED" /\ (ChangedRow(r, a)' <=> ChangedRow(r, a))
<1>1. base[r] # None
  BY DEF Rest, TableInv
<1>2. status'[r][a] = "COMPLETED" /\ journal[r][a] \in {"COMPLETED", "EXISTING"}
  BY <1>1 DEF Rest, TableInv, Stable
<1>3. starts[r][a] \in 0..2 /\ starts[r][a] <= 1 /\ starts[r][a] # 0
  BY <1>2 DEF Rest, TableInv, OwnerInv, BegunOnce, TypeOK
<1>4. starts[r][a] = 1
  BY <1>3
<1>5. journal'[r][a] = journal[r][a]
  BY <1>2, <1>4 DEF Stable
<1> QED
  BY <1>2, <1>5 DEF ChangedRow, Changed

(* Only a publication makes a row COMPLETED. *)
LEMMA CompletedStep ==
    ASSUME Rest, [Next]_vars, NEW r \in Runs, NEW a \in Actions, status'[r][a] = "COMPLETED", status[r][a] # "COMPLETED"
    PROVE  \E w \in Workers : Publish(w) /\ r = local[w].run /\ a = local[w].at
<1>1. Outcome
  BY Kinds
<1>2. ASSUME NEW w \in Workers, EnterPrepared(w) PROVE FALSE
  <2> DEFINE q == local[w].run
             b == local[w].at
  <2>1. /\ status'[q][b] = "FAILED"
        /\ \A p \in Runs, c \in Actions : (p # q \/ c # b) => status'[p][c] = status[p][c]
    BY <1>2, PreparedLeaves
  <2> HIDE DEF q, b
  <2> QED
    BY <2>1
<1>3. ASSUME NEW w \in Workers, Attempt(w) \/ Settle(w) \/ Finish(w) PROVE status' = status
  BY <1>3 DEF Attempt, Settle, Finish, database
<1>4. ASSUME NEW w \in Workers, NEW q \in Runs, OpensExecution(w, q) \/ OpensUndo(w, q) PROVE FALSE
  <2>1. /\ \A p \in Runs : p # q => status'[p] = status[p]
        /\ \A b \in Actions : status'[q][b] \in {"PENDING", "ABSENT"}
    BY <1>4, OpensIs
  <2> QED
    BY <2>1
<1>5. ASSUME NEW b \in Actions, RemoveFile(b) PROVE status' = status
  BY <1>5, RemoveLeaves DEF Rest
<1>6. PICK w \in Workers : Publish(w)
  BY <1>1, <1>2, <1>3, <1>4, <1>5 DEF Outcome, Calm
<1> DEFINE q == local[w].run
           b == local[w].at
<1>7. \A p \in Runs, c \in Actions : (p # q \/ c # b) => status'[p][c] = status[p][c]
  BY <1>6, PublishIs
<1> HIDE DEF q, b
<1>8. r = q /\ a = b
  BY <1>7
<1> QED
  BY <1>6, <1>8 DEF q, b

(* What a publication does to the obligation and the generation. *)
LEMMA PublishOutcome ==
    ASSUME Rest, NEW w \in Workers, Publish(w), NEW r, r = local[w].run, NEW a, a = local[w].at
    PROVE  /\ ~ChangedRow(r, a)
           /\ \A q \in Runs, b \in Actions : (q # r \/ b # a) => (ChangedRow(q, b)' <=> ChangedRow(q, b))
           /\ root'.generation = root.generation + (IF ChangedRow(r, a)' THEN 1 ELSE 0)
           /\ base' = base /\ base[r] \in Runs
           /\ recon'[base[r]] = IF ChangedRow(r, a)' THEN "REQUIRED" ELSE recon[base[r]]
           /\ \A q \in Runs : q # base[r] => recon'[q] = recon[q]
<1> DEFINE result == local[w].result
<1>1. /\ r \in Runs /\ a \in Actions /\ base[r] \in Runs
      /\ status[r][a] = "PENDING" /\ status'[r][a] = result
      /\ \A q \in Runs, b \in Actions : (q # r \/ b # a) => status'[q][b] = status[q][b]
  BY PublishIs
<1>2. UNCHANGED <<base, journal>>
  BY DEF Publish, disk
<1>3. /\ ~ChangedRow(r, a) /\ (ChangedRow(r, a)' <=> Changed(r, a, result))
      /\ \A q \in Runs, b \in Actions : (q # r \/ b # a) => (ChangedRow(q, b)' <=> ChangedRow(q, b))
  BY <1>1, <1>2 DEF ChangedRow, Changed
<1> DEFINE c == Changed(r, a, result)
           d == IF c THEN 1 ELSE 0
<1>4. root' = [root EXCEPT !.generation = root.generation + d]
  BY DEF Publish, PublishRow
<1>5. recon' = [recon EXCEPT ![base[r]] = IF c THEN "REQUIRED" ELSE recon[base[r]]]
  BY DEF Publish, PublishRow
<1> HIDE DEF c, d, result
<1>6. root'.generation = root.generation + d
  BY <1>4 DEF Rest, TypeOK
<1>7. /\ recon'[base[r]] = IF c THEN "REQUIRED" ELSE recon[base[r]]
      /\ \A q \in Runs : q # base[r] => recon'[q] = recon[q]
  BY <1>1, <1>5 DEF Rest, TypeOK
<1> QED
  BY <1>1, <1>2, <1>3, <1>6, <1>7 DEF c, d

(* No step takes a reconciliation back from a published change. *)
LEMMA ObligationStep == ASSUME Kin, ObligationKept, [Next]_vars PROVE ObligationKept'
<1> SUFFICES ASSUME NEW r \in Runs, NEW a \in Actions, ChangedRow(r, a)' PROVE recon'[base'[r]] = "REQUIRED"
  BY DEF ObligationKept, ChangedRow
<1>0. Stable /\ status'[r][a] = "COMPLETED"
  BY RowsStep DEF Kin, ChangedRow, Changed
<1>1. ASSUME NEW w \in Workers, Publish(w) PROVE recon'[base'[r]] = "REQUIRED"
  <2>0. PICK q \in Runs, b \in Actions : q = local[w].run /\ b = local[w].at
    BY <1>1, PublishIs DEF Kin
  <2>1. /\ \A p \in Runs, c \in Actions : (p # q \/ c # b) => (ChangedRow(p, c)' <=> ChangedRow(p, c))
        /\ base' = base /\ base[q] \in Runs
        /\ recon'[base[q]] = IF ChangedRow(q, b)' THEN "REQUIRED" ELSE recon[base[q]]
        /\ \A p \in Runs : p # base[q] => recon'[p] = recon[p]
    BY <1>1, <2>0, PublishOutcome DEF Kin
  <2>2. CASE r = q /\ a = b
    BY <2>1, <2>2
  <2>3. CASE ~(r = q /\ a = b)
    <3>1. ChangedRow(r, a)
      BY <2>1, <2>3
    <3>2. recon[base[r]] = "REQUIRED"
      BY <3>1 DEF ObligationKept, ChangedRow
    <3>3. base[r] \in Runs
      BY <3>1, RunAssumption DEF ChangedRow, Changed, Kin, Rest, TypeOK, TableInv
    <3> QED
      BY <2>1, <3>2, <3>3
  <2> QED
    BY <2>2, <2>3
<1>2. ASSUME ~\E w \in Workers : Publish(w) PROVE recon'[base'[r]] = "REQUIRED"
  <2>1. status[r][a] = "COMPLETED"
    BY <1>0, <1>2, CompletedStep DEF Kin
  <2>2. ChangedRow(r, a) /\ base[r] # None /\ base'[r] = base[r]
    BY <1>0, <2>1, ChangedStays DEF Kin, Rest, TableInv, Stable
  <2>3. recon[base[r]] = "REQUIRED" /\ base[r] \in Runs
    BY <2>2 DEF ObligationKept, ChangedRow, Kin, Rest, TypeOK
  <2>4. recon' = recon \/ \E w \in Workers : Finish(w)
    <3>1. ASSUME NEW w \in Workers, EnterPrepared(w) \/ Attempt(w) \/ Settle(w) PROVE recon' = recon
      BY <3>1 DEF EnterPrepared, Attempt, Settle, database
    <3>2. ASSUME NEW w \in Workers, NEW q \in Runs, OpensExecution(w, q) \/ OpensUndo(w, q) PROVE recon' = recon
      BY <3>2 DEF OpensExecution, OpensUndo
    <3>3. ASSUME NEW b \in Actions, RemoveFile(b) PROVE recon' = recon
      BY <3>3, RemoveLeaves DEF Kin, Rest
    <3>4. Outcome
      BY Kinds DEF Kin
    <3> QED
      BY <1>2, <3>1, <3>2, <3>3, <3>4 DEF Outcome, Calm
  <2>5. ASSUME NEW w \in Workers, Finish(w) PROVE recon'[base[r]] = "REQUIRED"
    <3> DEFINE q == local[w].run
    <3>1. /\ q \in Runs /\ base[q] # None
          /\ \/ recon' = recon
             \/ recon' = [recon EXCEPT ![q] = "NOT_STARTED"] /\ ~IsUndo(q) /\ Completed(q) = {}
      BY <2>5, FinishLeaves DEF Kin
    <3> HIDE DEF q
    <3>2. CASE recon' = recon
      BY <2>3, <3>2
    <3>3. CASE recon' = [recon EXCEPT ![q] = "NOT_STARTED"] /\ ~IsUndo(q) /\ Completed(q) = {}
      <4>1. base[r] # q
        <5>1. CASE r = q
          BY <2>1, <3>3, <5>1 DEF Completed
        <5>2. ASSUME r # q, base[r] = q PROVE FALSE
          <6>1. IsUndo(r)
            BY <2>2, <5>2 DEF IsUndo
          <6>2. status[q][a] = "COMPLETED"
            BY <2>1, <5>2, <6>1 DEF Kin, FamilyInv
          <6> QED
            BY <3>3, <6>2 DEF Completed
        <5> QED
          BY <5>1, <5>2
      <4> QED
        BY <2>3, <3>1, <3>3, <4>1 DEF Kin, Rest, TypeOK
    <3> QED
      BY <3>1, <3>2, <3>3
  <2> QED
    BY <2>2, <2>3, <2>4, <2>5
<1> QED
  BY <1>1, <1>2

ChangedRows == {p \in Runs \X Actions : Changed(p[1], p[2], status[p[1]][p[2]])}

(* The published changes are finitely many. *)
LEMMA ChangedRowsFinite == IsFiniteSet(ChangedRows)
<1>1. IsFiniteSet(Runs) /\ IsFiniteSet(Actions)
  BY FS_Interval, RunAssumption DEF Runs, Actions
<1>2. IsFiniteSet(Runs \X Actions)
  BY <1>1, FS_Product
<1> QED
  BY <1>2, FS_Subset DEF ChangedRows

(* Every step counts the changes it publishes. *)
LEMMA GenerationStep == ASSUME Rest, GenerationExact, [Next]_vars PROVE GenerationExact'
<1>0. Stable
  BY RowsStep
<1>1. root.generation = Cardinality(ChangedRows)
  BY DEF GenerationExact, ChangedRows
<1>2. ASSUME NEW w \in Workers, Publish(w) PROVE GenerationExact'
  <2>1. PICK r \in Runs, a \in Actions : r = local[w].run /\ a = local[w].at
    BY <1>2, PublishIs
  <2>2. /\ ~ChangedRow(r, a)
        /\ \A q \in Runs, b \in Actions : (q # r \/ b # a) => (ChangedRow(q, b)' <=> ChangedRow(q, b))
        /\ root'.generation = root.generation + (IF ChangedRow(r, a)' THEN 1 ELSE 0)
    BY <1>2, <2>1, PublishOutcome
  <2>3. CASE ChangedRow(r, a)'
    <3>1. ChangedRows' = ChangedRows \cup {<<r, a>>}
      BY <2>2, <2>3 DEF ChangedRows, ChangedRow
    <3>2. <<r, a>> \notin ChangedRows
      BY <2>2 DEF ChangedRows, ChangedRow
    <3>3. Cardinality(ChangedRows \cup {<<r, a>>}) = Cardinality(ChangedRows) + 1
      BY <3>2, ChangedRowsFinite, FS_AddElement
    <3> QED
      BY <1>1, <2>2, <2>3, <3>1, <3>3 DEF GenerationExact, ChangedRows
  <2>4. CASE ~ChangedRow(r, a)'
    <3>1. ChangedRows' = ChangedRows
      BY <2>2, <2>4 DEF ChangedRows, ChangedRow
    <3>2. root'.generation = root.generation
      BY <2>2, <2>4 DEF Rest, TypeOK
    <3> QED
      BY <1>1, <3>1, <3>2 DEF GenerationExact, ChangedRows
  <2> QED
    BY <2>3, <2>4
<1>3. ASSUME ~\E w \in Workers : Publish(w) PROVE GenerationExact'
  <2>1. \A r \in Runs, a \in Actions : status'[r][a] = "COMPLETED" => status[r][a] = "COMPLETED"
    BY <1>3, CompletedStep
  <2>2. \A r \in Runs, a \in Actions : ChangedRow(r, a)' <=> ChangedRow(r, a)
    BY <1>0, <2>1, ChangedStays DEF ChangedRow, Changed
  <2>3. ChangedRows' = ChangedRows
    BY <2>2 DEF ChangedRows, ChangedRow
  <2>4. root'.generation = root.generation
    <3>1. ASSUME NEW w \in Workers, EnterPrepared(w) \/ Attempt(w) \/ Settle(w) \/ Finish(w) PROVE root' = root
      BY <3>1 DEF EnterPrepared, Attempt, Settle, Finish, database
    <3>2. ASSUME NEW w \in Workers, NEW q \in Runs, OpensExecution(w, q) \/ OpensUndo(w, q) PROVE root' = root
      BY <3>2 DEF OpensExecution, OpensUndo
    <3>3. ASSUME NEW b \in Actions, RemoveFile(b) PROVE root' = root
      BY <3>3, RemoveLeaves DEF Rest
    <3>4. Outcome
      BY Kinds
    <3> QED
      BY <1>3, <3>1, <3>2, <3>3, <3>4 DEF Outcome, Calm
  <2> QED
    BY <1>1, <2>3, <2>4 DEF GenerationExact, ChangedRows
<1> QED
  BY <1>2, <1>3

(***************************************************************************)
(* The theorems.                                                           *)
(***************************************************************************)

OutcomeInv ==
    /\ TypeOK /\ OwnerInv /\ TableInv /\ WorkInv /\ FamilyInv /\ DiskInv /\ GrantInv
    /\ InSequence /\ ObligationKept /\ GenerationExact

(* All of this holds before the first request. *)
LEMMA OutcomeInit == Init => OutcomeInv
<1> SUFFICES ASSUME Init PROVE OutcomeInv
  OBVIOUS
<1>0. TypeOK /\ OwnerInv /\ TableInv /\ WorkInv
  BY TypeInit, OwnerInit, RowsInit
<1>1. /\ \A w \in Workers : local[w].pc = "idle" /\ lock # w
      /\ \A r \in Runs, a \in Actions : journal[r][a] = "NONE" /\ starts[r][a] = 0
      /\ root.generation = 0 /\ ungranted = FALSE
  BY RunAssumption DEF Init, Idle
<1>2. \A r \in Runs, a \in Actions : status[r][a] # "COMPLETED"
  BY DEF Init, NewPlan, LegacyRun
<1>3. \A r \in Runs : base[r] \in {None, 1}
  BY DEF Init, NewPlan, LegacyRun
<1>4. \A r \in Runs : ~IsUndo(r) /\ (base[r] = r => r = 1)
  <2>1. CASE NewPlan
    BY <2>1, RunAssumption DEF NewPlan, IsUndo, Runs
  <2>2. CASE LegacyRun
    BY <2>2, RunAssumption DEF LegacyRun, IsUndo, Runs
  <2> QED
    BY <2>1, <2>2 DEF Init
<1>5. FamilyInv
  BY <1>1, <1>4 DEF FamilyInv
<1>6. DiskInv
  BY <1>1 DEF DiskInv
<1>7. GrantInv
  BY <1>1 DEF GrantInv
<1>8. InSequence
  BY <1>1 DEF InSequence
<1>9. ObligationKept
  BY <1>2 DEF ObligationKept, Changed
<1>10. GenerationExact
  <2>1. ChangedRows = {}
    BY <1>2 DEF ChangedRows, Changed
  <2> QED
    BY <1>1, <2>1, FS_EmptySet DEF GenerationExact, ChangedRows
<1> QED
  BY <1>0, <1>5, <1>6, <1>7, <1>8, <1>9, <1>10 DEF OutcomeInv

(* Every step keeps all of it. *)
LEMMA OutcomeStep == OutcomeInv /\ [Next]_vars => OutcomeInv'
<1> SUFFICES ASSUME OutcomeInv, [Next]_vars PROVE OutcomeInv'
  OBVIOUS
<1>1. Rest /\ Kin
  BY DEF OutcomeInv, Rest, Kin
<1>2. TypeOK' /\ OwnerInv' /\ TableInv' /\ WorkInv'
  BY <1>1, TypeStep, OwnerStep, RowsStep DEF OutcomeInv
<1>3. FamilyInv' /\ DiskInv' /\ GrantInv'
  BY <1>1, FamilyStep, DiskStep, GrantStep DEF OutcomeInv
<1>4. InSequence' /\ ObligationKept' /\ GenerationExact'
  BY <1>1, SequenceStep, ObligationStep, GenerationStep DEF OutcomeInv
<1> QED
  BY <1>2, <1>3, <1>4 DEF OutcomeInv

(* The inductive invariant behind the three theorems below. *)
THEOREM OutcomeInvariance == Spec => []OutcomeInv
BY OutcomeInit, OutcomeStep, PTL DEF Spec

(* The tables and the disk make the rows and the history true. *)
LEMMA TruthFollows == OutcomeInv => RunTruthful
<1> SUFFICES ASSUME OutcomeInv PROVE RunTruthful
  OBVIOUS
<1>1. Rest /\ Kin /\ DiskInv
  BY DEF OutcomeInv, Rest, Kin
<1>2. RowsTruthful
  BY <1>1 DEF RowsTruthful, Moved, Rest, TableInv
<1>3. ASSUME NEW e \in Runs, NEW a \in Actions, base[e] = e, Changed(e, a, status[e][a]), \A r \in Runs : run[r] # "RUNNING"
      PROVE  place[a] \in {IF a \in Undone(e) THEN "source" ELSE "destination", "lost"}
  <2>1. journal[e][a] = "COMPLETED"
    BY <1>1, <1>3 DEF Changed, Rest, TableInv
  <2>2. CASE a \in Undone(e)
    <3>1. PICK u \in UndosOf(e) : status[u][a] = "COMPLETED"
      BY <2>2 DEF Undone, Completed
    <3>2. u \in Runs /\ base[u] = e /\ IsUndo(u)
      BY RunAssumption DEF UndosOf, IsUndo, Runs
    <3>3. journal[u][a] = "COMPLETED"
      BY <1>1, <3>1, <3>2 DEF Rest, TableInv, Kin, FamilyInv
    <3> QED
      BY <1>1, <1>3, <2>1, <2>2, <3>3 DEF DiskInv
  <2>3. CASE a \notin Undone(e)
    <3>1. ASSUME NEW u \in UndosOf(e) PROVE journal[u][a] = "NONE"
      <4>1. u \in Runs
        BY DEF UndosOf
      <4>2. status[u][a] # "COMPLETED"
        BY <2>3, <4>1 DEF Undone, Completed
      <4>3. status[u][a] # "PENDING" /\ status[u][a] \in RowStatuses
        BY <1>1, <1>3, <4>1 DEF Rest, TableInv, TypeOK
      <4> QED
        BY <1>1, <4>1, <4>2, <4>3 DEF Rest, TableInv, RowStatuses
    <3> QED
      BY <1>1, <1>3, <2>1, <2>3, <3>1 DEF DiskInv
  <2> QED
    BY <2>2, <2>3
<1> QED
  BY <1>2, <1>3 DEF RunTruthful, HistoryMatchesDisk

(* The rows of a run, and the history made of them, tell what is on disk, for
   every plan and every interleaving of executions, Undo runs and recoveries. *)
THEOREM RunIsTruthful == Spec => []RunTruthful
BY OutcomeInvariance, TruthFollows, PTL

(* Every change of the disk that is published counts once in the inventory
   generation and leaves its execution a reconciliation. *)
THEOREM OutcomeIsPublished == Spec => []OutcomePublished
<1>1. OutcomeInv => OutcomePublished
  BY DEF OutcomeInv, OutcomePublished
<1> QED
  BY <1>1, OutcomeInvariance, PTL

(* The family, the sequence and the grant make the run disciplined. *)
LEMMA DisciplineFollows == OutcomeInv => RunDisciplined
<1> SUFFICES ASSUME OutcomeInv PROVE RunDisciplined
  OBVIOUS
<1>1. Kin /\ InSequence /\ GrantInv
  BY DEF OutcomeInv, Kin, Rest
<1>2. ChangedUnderGrant
  BY <1>1 DEF GrantInv, ChangedUnderGrant
<1>3. ASSUME NEW e \in Runs, base[e] = e, NEW u \in UndosOf(e)
      PROVE  u \in Runs /\ base[u] = e /\ IsUndo(u) /\ u # e /\ run[e] # "RUNNING"
  <2>1. u \in Runs /\ base[u] = e /\ IsUndo(u) /\ u # e
    BY <1>3, RunAssumption DEF UndosOf, IsUndo, Runs
  <2> QED
    BY <1>1, <2>1 DEF Kin, FamilyInv
<1>4. ASSUME NEW e \in Runs, base[e] = e, NEW u \in UndosOf(e), NEW v \in UndosOf(e), u # v
      PROVE  (run[u] # "RUNNING" \/ run[v] # "RUNNING") /\ Completed(u) \cap Completed(v) = {}
  BY <1>1, <1>3, <1>4 DEF Kin, FamilyInv, Completed
<1>5. ASSUME NEW e \in Runs, base[e] = e PROVE Cardinality({r \in UndosOf(e) \cup {e} : run[r] = "RUNNING"}) <= 1
  <2> DEFINE S == {r \in UndosOf(e) \cup {e} : run[r] = "RUNNING"}
  <2>1. \A x, y \in S : x = y
    BY <1>3, <1>4, <1>5
  <2> HIDE DEF S
  <2>2. CASE S = {}
    BY <2>2, FS_EmptySet DEF S
  <2>3. ASSUME NEW x \in S PROVE Cardinality(S) = 1
    <3>1. S = {x}
      BY <2>1, <2>3
    <3> QED
      BY <3>1, FS_Singleton
  <2> QED
    BY <2>2, <2>3 DEF S
<1>6. RestoredOnce
  BY <1>4, <1>5 DEF RestoredOnce
<1> QED
  BY <1>1, <1>2, <1>6 DEF RunDisciplined

(* A run acts in order and restores an action once, and while no transaction
   expires it changes the disk only under the grant it holds. *)
THEOREM RunIsDisciplined == Spec => []RunDisciplined
BY OutcomeInvariance, DisciplineFollows, PTL
=============================================================================
