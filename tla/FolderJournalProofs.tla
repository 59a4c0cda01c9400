------------------------- MODULE FolderJournalProofs -------------------------
(***************************************************************************)
(* Proofs about FolderJournal, for any number of directories, items,       *)
(* containers, crashes, attempts and interfering programs: what the two    *)
(* journals and the reports say is what happened on disk, and no step of   *)
(* the Bridge takes the last name of a directory that holds something.     *)
(***************************************************************************)
EXTENDS FolderJournal, TLAPS

(* The steps of a creation, and of a removal. *)
Creating == {"cLoad", "cIntent", "cMkdir", "cStat", "cDone"}
Unjournaled == {"rLoad", "rCheck", "rMkdtemp", "rIntent"}
Exposing == {"xStat", "xMkdir", "xReserve", "xCheck", "xCopy"}
Finishing == {"rRename", "fStat", "fLinked", "fRmdir", "fDone"} \cup Exposing
Removing == Unjournaled \cup Finishing \cup {"clean"}

(* The creation journal is written before the folder it must account for, and
   is not opened again once it is COMPLETED. *)
CreateInv ==
    /\ pc \in Creating => creport = "none"
    /\ pc = "cIntent" => cj.state # "COMPLETED"
    /\ pc \in {"cMkdir", "cStat", "cDone"} => cj.state = "INTENT"
    /\ pc = "cDone" => own \in Inodes
    /\ cj.state = "ABSENT" => createdBy = {}
    /\ cj.state = "COMPLETED" => cj.ino \in Inodes
    /\ creport = "COMPLETED" => cj.state = "COMPLETED"
    /\ creport = "NO_EFFECT" => cj.state = "ABSENT"

(* Which state of the removal journal each step finds. *)
RemoveInv ==
    /\ pc \in Removing => cj.state = "COMPLETED" /\ rreport = "none"
    /\ pc \in {"rCheck", "rMkdtemp", "rIntent"} => rj.state = "ABSENT"
    /\ pc \in Finishing => rj.state \in {"INTENT", "LINKED"}
    /\ pc \in {"fRmdir", "fDone"} => rj.state = "LINKED"
    /\ pc = "clean" => rj.state = "COMPLETED"
    /\ rj.state # "ABSENT" => cj.state = "COMPLETED" /\ rj.capture \in Dirs /\ rj.ino \in Inodes
    /\ rreport = "COMPLETED" => rj.state = "COMPLETED"
    /\ rreport = "NO_EFFECT" => rj.state = "ABSENT"

(* A container is recorded before a directory is captured into it, and LINKED
   before the captured directory is removed. *)
CaptureInv ==
    /\ pc = "rIntent" => cap \in Dirs /\ box[cap] = Empty
    /\ pc = "rRename" => cap = rj.capture /\ box[cap] = Empty
    /\ pc \in {"fLinked", "fRmdir"} => box[rj.capture] = rj.ino
    /\ pc \in Exposing => box[rj.capture] \in Inodes
    /\ pc = "fDone" => rj.ino \in removedBy
    /\ rj.state = "ABSENT" => removedBy = {}
    /\ rj.state = "LINKED" => box[rj.capture] = rj.ino \/ rj.ino \in removedBy
    /\ rj.state = "COMPLETED" => rj.ino \in removedBy
    /\ \A d \in Dirs : box[d] \in Inodes => rj.state # "ABSENT" /\ rj.capture = d

Inv == TypeOK /\ CreateInv /\ RemoveInv /\ CaptureInv
-----------------------------------------------------------------------------
(* Every step preserves the invariant. *)

(* A new attempt of the creation only sets the report and the step. *)
LEMMA ExecuteCreateKeeps == ASSUME Inv, ExecuteCreate PROVE Inv'
<1>1. TypeOK'
  BY ConstantsAssumption DEF ExecuteCreate, disk, journals, locals, history, Inv, TypeOK, Results,
     Labels
<1>2. CreateInv'
  BY DEF ExecuteCreate, journals, history, Inv, TypeOK, CreateInv
<1>3. RemoveInv'
  BY DEF ExecuteCreate, journals, Inv, TypeOK, RemoveInv, Removing, Finishing, Exposing,
     Unjournaled
<1>4. CaptureInv'
  BY DEF ExecuteCreate, disk, journals, history, Inv, TypeOK, CaptureInv, Exposing
<1> QED
  BY <1>1, <1>2, <1>3, <1>4 DEF Inv

(* Undo starts from a creation reported as completed. *)
LEMMA ExecuteRemoveKeeps == ASSUME Inv, ExecuteRemove PROVE Inv'
<1>1. TypeOK'
  BY ConstantsAssumption DEF ExecuteRemove, disk, journals, locals, history, Inv, TypeOK, Results,
     Labels
<1>2. CreateInv'
  BY DEF ExecuteRemove, journals, Inv, TypeOK, CreateInv, Creating
<1>3. RemoveInv'
  BY DEF ExecuteRemove, journals, Inv, TypeOK, CreateInv, RemoveInv, Finishing, Exposing
<1>4. CaptureInv'
  BY DEF ExecuteRemove, disk, journals, history, Inv, TypeOK, CaptureInv, Exposing
<1> QED
  BY <1>1, <1>2, <1>3, <1>4 DEF Inv

(* The recovery of a creation only reads its journal. *)
LEMMA RecoverCreateKeeps == ASSUME Inv, RecoverCreate PROVE Inv'
<1>1. TypeOK'
  BY DEF RecoverCreate, disk, journals, locals, counters, history, Inv, TypeOK, Results
<1>2. CreateInv'
  BY DEF RecoverCreate, journals, history, Inv, TypeOK, CreateInv, Creating
<1>3. RemoveInv'
  BY DEF RecoverCreate, journals, Inv, TypeOK, RemoveInv
<1>4. CaptureInv'
  BY DEF RecoverCreate, disk, journals, history, Inv, TypeOK, CaptureInv
<1> QED
  BY <1>1, <1>2, <1>3, <1>4 DEF Inv

(* The recovery of a removal enters finishDirectoryRemoval or the cleanup. *)
LEMMA RecoverRemoveKeeps == ASSUME Inv, RecoverRemove PROVE Inv'
<1>1. TypeOK'
  BY DEF RecoverRemove, disk, journals, locals, counters, history, Inv, TypeOK, Results, Labels
<1>2. CreateInv'
  BY DEF RecoverRemove, journals, history, Inv, TypeOK, CreateInv, Creating
<1>3. RemoveInv'
  BY DEF RecoverRemove, journals, Inv, TypeOK, RemoveInv, Removing, Finishing, Exposing,
     Unjournaled
<1>4. CaptureInv'
  BY DEF RecoverRemove, disk, journals, history, Inv, TypeOK, CaptureInv, Exposing
<1> QED
  BY <1>1, <1>2, <1>3, <1>4 DEF Inv

(* A COMPLETED journal answers for the creation. *)
LEMMA LoadCreateKeeps == ASSUME Inv, LoadCreate PROVE Inv'
<1>1. TypeOK'
  BY DEF LoadCreate, ReturnCreate, Goto, FailCreate, disk, journals, locals, reports, counters,
     history, Inv, TypeOK, Results, Labels
<1>2. CreateInv'
  BY DEF LoadCreate, ReturnCreate, Goto, FailCreate, journals, reports, history, Inv, TypeOK,
     CreateInv, Creating
<1>3. RemoveInv'
  BY DEF LoadCreate, ReturnCreate, Goto, FailCreate, journals, reports, Inv, TypeOK, RemoveInv,
     Removing, Finishing, Exposing, Unjournaled
<1>4. CaptureInv'
  BY DEF LoadCreate, ReturnCreate, Goto, FailCreate, disk, journals, history, Inv, TypeOK,
     CaptureInv, Exposing
<1> QED
  BY <1>1, <1>2, <1>3, <1>4 DEF Inv

(* The intent is durable before mkdir. *)
LEMMA WriteCreateIntentKeeps == ASSUME Inv, WriteCreateIntent PROVE Inv'
<1>1. TypeOK'
  BY DEF WriteCreateIntent, Goto, disk, locals, reports, counters, history, Inv, TypeOK, Labels
<1>2. CreateInv'
  BY DEF WriteCreateIntent, Goto, reports, Inv, TypeOK, CreateInv, Creating
<1>3. RemoveInv'
  BY DEF WriteCreateIntent, Goto, reports, Inv, TypeOK, CreateInv, RemoveInv, Removing, Finishing,
     Exposing, Unjournaled
<1>4. CaptureInv'
  BY DEF WriteCreateIntent, Goto, disk, history, Inv, TypeOK, CaptureInv, Exposing
<1> QED
  BY <1>1, <1>2, <1>3, <1>4 DEF Inv

(* mkdir accounts for the directory it made. *)
LEMMA MkdirKeeps == ASSUME Inv, Mkdir PROVE Inv'
<1>1. TypeOK'
  <2>1. made' \in BOOLEAN
    BY DEF Mkdir
  <2>2. pub' \in Inodes \cup {None} /\ items' \in [Inodes -> SUBSET Items] /\ createdBy' \subseteq Inodes
    BY DEF Mkdir, Inv, TypeOK
  <2>3. pc' = "cStat" /\ UNCHANGED <<box, cj, rj, mode, cap, own, listing, reports, counters, removedBy>>
    BY DEF Mkdir, journals
  <2> QED
    BY <2>1, <2>2, <2>3 DEF Inv, TypeOK, Labels, reports, counters
<1>2. CreateInv'
  BY DEF Mkdir, journals, reports, Inv, TypeOK, CreateInv, Creating
<1>3. RemoveInv'
  BY DEF Mkdir, journals, reports, Inv, TypeOK, RemoveInv, Removing, Finishing, Exposing,
     Unjournaled
<1>4. CaptureInv'
  BY DEF Mkdir, journals, Inv, TypeOK, CaptureInv, Exposing
<1> QED
  BY <1>1, <1>2, <1>3, <1>4 DEF Inv

(* The identity that will be journaled. *)
LEMMA StatCreatedKeeps == ASSUME Inv, StatCreated PROVE Inv'
<1>1. TypeOK'
  BY DEF StatCreated, FailCreate, ReturnCreate, disk, journals, locals, reports, counters,
     history, Inv, TypeOK, Results, Labels
<1>2. CreateInv'
  BY DEF StatCreated, FailCreate, ReturnCreate, journals, reports, Inv, TypeOK, CreateInv,
     Creating
<1>3. RemoveInv'
  BY DEF StatCreated, FailCreate, ReturnCreate, journals, reports, Inv, TypeOK, RemoveInv,
     Removing, Finishing, Exposing, Unjournaled
<1>4. CaptureInv'
  BY DEF StatCreated, FailCreate, ReturnCreate, disk, journals, history, Inv, TypeOK, CaptureInv,
     Exposing
<1> QED
  BY <1>1, <1>2, <1>3, <1>4 DEF Inv

(* The completed journal names a directory. *)
LEMMA WriteCreatedKeeps == ASSUME Inv, WriteCreated PROVE Inv'
<1>1. TypeOK'
  BY DEF WriteCreated, ReturnCreate, disk, locals, counters, history, Inv, TypeOK, Results, Labels
<1>2. CreateInv'
  BY DEF WriteCreated, ReturnCreate, Inv, TypeOK, CreateInv, Creating
<1>3. RemoveInv'
  BY DEF WriteCreated, ReturnCreate, Inv, TypeOK, RemoveInv, Removing, Finishing, Exposing,
     Unjournaled
<1>4. CaptureInv'
  BY DEF WriteCreated, ReturnCreate, disk, history, Inv, TypeOK, CaptureInv, Exposing
<1> QED
  BY <1>1, <1>2, <1>3, <1>4 DEF Inv

(* The journal decides where the removal goes on. *)
LEMMA LoadRemoveKeeps == ASSUME Inv, LoadRemove PROVE Inv'
<1>1. TypeOK'
  BY DEF LoadRemove, Goto, disk, journals, locals, reports, counters, history, Inv, TypeOK, Labels
<1>2. CreateInv'
  BY DEF LoadRemove, Goto, journals, reports, Inv, TypeOK, CreateInv, RemoveInv, Creating,
     Removing, Unjournaled
<1>3. RemoveInv'
  BY DEF LoadRemove, Goto, journals, reports, Inv, TypeOK, RemoveInv, Removing, Finishing,
     Exposing, Unjournaled
<1>4. CaptureInv'
  BY DEF LoadRemove, Goto, disk, journals, history, Inv, TypeOK, CaptureInv, Exposing
<1> QED
  BY <1>1, <1>2, <1>3, <1>4 DEF Inv

(* Refused without a journal, nothing happened. *)
LEMMA CheckOwnedKeeps == ASSUME Inv, CheckOwned PROVE Inv'
<1>1. TypeOK'
  BY DEF CheckOwned, Goto, RemovalOwned, FailRemove, ReturnRemove, disk, journals, locals,
     reports, counters, history, Inv, TypeOK, Results, Labels
<1>2. CreateInv'
  BY DEF CheckOwned, Goto, RemovalOwned, FailRemove, ReturnRemove, journals, reports, Inv, TypeOK,
     CreateInv, RemoveInv, Creating, Removing, Unjournaled
<1>3. RemoveInv'
  BY DEF CheckOwned, Goto, RemovalOwned, FailRemove, ReturnRemove, journals, reports, Inv, TypeOK,
     RemoveInv, Removing, Finishing, Exposing, Unjournaled
<1>4. CaptureInv'
  BY DEF CheckOwned, Goto, RemovalOwned, FailRemove, ReturnRemove, disk, journals, history, Inv,
     TypeOK, CaptureInv, Exposing
<1> QED
  BY <1>1, <1>2, <1>3, <1>4 DEF Inv

(* A new container is empty. *)
LEMMA MakeContainerKeeps == ASSUME Inv, MakeContainer PROVE Inv'
<1>1. TypeOK'
  BY DEF MakeContainer, journals, reports, counters, history, Inv, TypeOK, Labels
<1>2. CreateInv'
  BY DEF MakeContainer, journals, reports, Inv, TypeOK, CreateInv, RemoveInv, Creating, Removing,
     Unjournaled
<1>3. RemoveInv'
  BY DEF MakeContainer, journals, reports, Inv, TypeOK, RemoveInv, Removing, Finishing, Exposing,
     Unjournaled
<1>4. CaptureInv'
  BY ConstantsAssumption DEF MakeContainer, journals, history, Inv, TypeOK, RemoveInv, CaptureInv,
     Exposing
<1> QED
  BY <1>1, <1>2, <1>3, <1>4 DEF Inv

(* The container is recorded while it is empty. *)
LEMMA WriteRemoveIntentKeeps == ASSUME Inv, WriteRemoveIntent PROVE Inv'
<1>1. TypeOK'
  BY DEF WriteRemoveIntent, Goto, disk, locals, reports, counters, history, Inv, TypeOK, Labels
<1>2. CreateInv'
  BY DEF WriteRemoveIntent, Goto, reports, Inv, TypeOK, CreateInv, RemoveInv, Creating, Removing,
     Unjournaled
<1>3. RemoveInv'
  BY DEF WriteRemoveIntent, Goto, reports, Inv, TypeOK, CreateInv, RemoveInv, CaptureInv,
     Removing, Unjournaled
<1>4. CaptureInv'
  BY DEF WriteRemoveIntent, Goto, disk, locals, Inv, TypeOK, RemoveInv, CaptureInv, Exposing
<1> QED
  BY <1>1, <1>2, <1>3, <1>4 DEF Inv

(* Whatever the public name is goes into the recorded container. *)
LEMMA RenameIntoContainerKeeps == ASSUME Inv, RenameIntoContainer PROVE Inv'
<1>1. TypeOK'
  BY DEF RenameIntoContainer, Goto, FailRemove, ReturnRemove, journals, locals, reports, counters,
     history, Inv, TypeOK, Results, Labels
<1>2. CreateInv'
  BY DEF RenameIntoContainer, Goto, FailRemove, ReturnRemove, journals, reports, Inv, TypeOK,
     CreateInv, RemoveInv, Creating, Finishing
<1>3. RemoveInv'
  BY DEF RenameIntoContainer, Goto, FailRemove, ReturnRemove, journals, reports, Inv, TypeOK,
     RemoveInv, Removing, Finishing, Exposing, Unjournaled
<1>4. CaptureInv'
  BY ConstantsAssumption DEF RenameIntoContainer, Goto, FailRemove, ReturnRemove, journals,
     history, Inv, TypeOK, RemoveInv, CaptureInv, Finishing, Exposing
<1> QED
  BY <1>1, <1>2, <1>3, <1>4 DEF Inv

(* Only the journaled directory is proven, only LINKED proves a removal. *)
LEMMA StatCapturedKeeps == ASSUME Inv, StatCaptured PROVE Inv'
<1>1. TypeOK'
  BY DEF StatCaptured, Captured, Goto, FailRemove, ReturnRemove, disk, journals, locals, reports,
     counters, history, Inv, TypeOK, Results, Labels
<1>2. CreateInv'
  BY DEF StatCaptured, Captured, Goto, FailRemove, ReturnRemove, journals, reports, Inv, TypeOK,
     CreateInv, RemoveInv, Creating, Finishing
<1>3. RemoveInv'
  BY DEF StatCaptured, Captured, Goto, FailRemove, ReturnRemove, journals, reports, Inv, TypeOK,
     RemoveInv, Removing, Finishing, Exposing, Unjournaled
<1>4. CaptureInv'
  BY ConstantsAssumption DEF StatCaptured, Captured, Goto, FailRemove, ReturnRemove, disk,
     journals, history, Inv, TypeOK, RemoveInv, CaptureInv, Exposing
<1> QED
  BY <1>1, <1>2, <1>3, <1>4 DEF Inv

(* LINKED is durable before rmdir. *)
LEMMA WriteRemoveLinkedKeeps == ASSUME Inv, WriteRemoveLinked PROVE Inv'
<1>1. TypeOK'
  BY DEF WriteRemoveLinked, Goto, disk, locals, reports, counters, history, Inv, TypeOK, Labels
<1>2. CreateInv'
  BY DEF WriteRemoveLinked, Goto, reports, Inv, TypeOK, CreateInv, RemoveInv, Creating, Finishing
<1>3. RemoveInv'
  BY DEF WriteRemoveLinked, Goto, reports, Inv, TypeOK, RemoveInv, Removing, Finishing
<1>4. CaptureInv'
  BY DEF WriteRemoveLinked, Goto, disk, Inv, TypeOK, RemoveInv, CaptureInv, Finishing
<1> QED
  BY <1>1, <1>2, <1>3, <1>4 DEF Inv

(* What is removed is the journaled directory. *)
LEMMA RemoveCapturedKeeps == ASSUME Inv, RemoveCaptured PROVE Inv'
<1>1. TypeOK'
  BY DEF RemoveCaptured, Captured, Goto, FailRemove, ReturnRemove, journals, locals, reports,
     counters, Inv, TypeOK, Results, Labels, RemoveInv, CaptureInv
<1>2. CreateInv'
  BY DEF RemoveCaptured, Captured, Goto, FailRemove, ReturnRemove, journals, reports, Inv, TypeOK,
     CreateInv, Creating
<1>3. RemoveInv'
  BY DEF RemoveCaptured, Captured, Goto, FailRemove, ReturnRemove, journals, reports, Inv, TypeOK,
     RemoveInv, Removing, Finishing, Exposing, Unjournaled
<1>4. CaptureInv'
  BY DEF RemoveCaptured, Captured, Goto, FailRemove, ReturnRemove, journals, Inv, TypeOK,
     RemoveInv, CaptureInv, Exposing
<1> QED
  BY <1>1, <1>2, <1>3, <1>4 DEF Inv

(* COMPLETED follows the removal. *)
LEMMA WriteRemovedKeeps == ASSUME Inv, WriteRemoved PROVE Inv'
<1>1. TypeOK'
  BY DEF WriteRemoved, Goto, disk, locals, reports, counters, history, Inv, TypeOK, Labels
<1>2. CreateInv'
  BY DEF WriteRemoved, Goto, reports, Inv, TypeOK, CreateInv, RemoveInv, Creating
<1>3. RemoveInv'
  BY DEF WriteRemoved, Goto, reports, Inv, TypeOK, RemoveInv, Removing, Finishing, Exposing
<1>4. CaptureInv'
  BY DEF WriteRemoved, Goto, disk, history, Inv, TypeOK, CaptureInv, Exposing
<1> QED
  BY <1>1, <1>2, <1>3, <1>4 DEF Inv

(* An emptied container goes, nothing else. *)
LEMMA CleanupKeeps == ASSUME Inv, Cleanup PROVE Inv'
<1>1. TypeOK'
  BY DEF Cleanup, Captured, FailRemove, ReturnRemove, journals, locals, reports, counters,
     history, Inv, TypeOK, Results, Labels
<1>2. CreateInv'
  BY DEF Cleanup, Captured, FailRemove, ReturnRemove, journals, reports, Inv, TypeOK, CreateInv,
     RemoveInv, Creating
<1>3. RemoveInv'
  BY DEF Cleanup, Captured, FailRemove, ReturnRemove, journals, reports, Inv, TypeOK, RemoveInv,
     Removing, Finishing, Exposing, Unjournaled
<1>4. CaptureInv'
  BY DEF Cleanup, Captured, FailRemove, ReturnRemove, journals, history, Inv, TypeOK, RemoveInv,
     CaptureInv, Exposing
<1> QED
  BY <1>1, <1>2, <1>3, <1>4 DEF Inv

(* Looking at the captured folder keeps the invariant. *)
LEMMA ExposeStatKeeps == ASSUME Inv, ExposeStat PROVE Inv'
<1>1. TypeOK'
  BY DEF ExposeStat, Goto, FailRemove, ReturnRemove, disk, journals, locals, reports, counters,
     history, Inv, TypeOK, Results, Labels
<1>2. CreateInv'
  BY DEF ExposeStat, Goto, FailRemove, ReturnRemove, journals, reports, Inv, TypeOK, CreateInv,
     RemoveInv, Creating, Finishing, Exposing
<1>3. RemoveInv'
  BY DEF ExposeStat, Goto, FailRemove, ReturnRemove, journals, reports, Inv, TypeOK, RemoveInv,
     Removing, Finishing, Exposing, Unjournaled
<1>4. CaptureInv'
  BY DEF ExposeStat, Goto, FailRemove, ReturnRemove, disk, journals, history, Inv, TypeOK,
     CaptureInv, Exposing
<1> QED
  BY <1>1, <1>2, <1>3, <1>4 DEF Inv

(* The copy of a foreign directory is made under a completed creation. *)
LEMMA ExposeMkdirKeeps == ASSUME Inv, ExposeMkdir PROVE Inv'
<1>1. TypeOK'
  BY DEF ExposeMkdir, Goto, FailRemove, ReturnRemove, journals, locals, reports, counters, Inv,
     TypeOK, Results, Labels
<1>2. CreateInv'
  BY DEF ExposeMkdir, Goto, FailRemove, ReturnRemove, journals, reports, Inv, TypeOK, CreateInv,
     RemoveInv, Creating, Finishing, Exposing
<1>3. RemoveInv'
  BY DEF ExposeMkdir, Goto, FailRemove, ReturnRemove, journals, reports, Inv, TypeOK, RemoveInv,
     Removing, Finishing, Exposing, Unjournaled
<1>4. CaptureInv'
  BY DEF ExposeMkdir, Goto, FailRemove, ReturnRemove, journals, Inv, TypeOK, CaptureInv, Exposing
<1> QED
  BY <1>1, <1>2, <1>3, <1>4 DEF Inv

(* So does reserving the name it is given back to. *)
LEMMA ExposeReserveKeeps == ASSUME Inv, ExposeReserve PROVE Inv'
<1>1. TypeOK'
  BY DEF ExposeReserve, Captured, FailRemove, ReturnRemove, disk, journals, locals, reports,
     counters, history, Inv, TypeOK, Results, Labels, CaptureInv, Exposing
<1>2. CreateInv'
  BY DEF ExposeReserve, Captured, FailRemove, ReturnRemove, journals, reports, Inv, TypeOK,
     CreateInv, RemoveInv, Creating, Finishing, Exposing
<1>3. RemoveInv'
  BY DEF ExposeReserve, Captured, FailRemove, ReturnRemove, journals, reports, Inv, TypeOK,
     RemoveInv, Removing, Finishing, Exposing, Unjournaled
<1>4. CaptureInv'
  BY DEF ExposeReserve, Captured, FailRemove, ReturnRemove, disk, journals, history, Inv, TypeOK,
     CaptureInv, Exposing
<1> QED
  BY <1>1, <1>2, <1>3, <1>4 DEF Inv

(* So does the check of that name. *)
LEMMA ExposeCheckKeeps == ASSUME Inv, ExposeCheck PROVE Inv'
<1>1. TypeOK'
  BY DEF ExposeCheck, Goto, FailRemove, ReturnRemove, disk, journals, locals, reports, counters,
     history, Inv, TypeOK, Results, Labels
<1>2. CreateInv'
  BY DEF ExposeCheck, Goto, FailRemove, ReturnRemove, journals, reports, Inv, TypeOK, CreateInv,
     RemoveInv, Creating, Finishing, Exposing
<1>3. RemoveInv'
  BY DEF ExposeCheck, Goto, FailRemove, ReturnRemove, journals, reports, Inv, TypeOK, RemoveInv,
     Removing, Finishing, Exposing, Unjournaled
<1>4. CaptureInv'
  BY DEF ExposeCheck, Goto, FailRemove, ReturnRemove, disk, journals, history, Inv, TypeOK,
     CaptureInv, Exposing
<1> QED
  BY <1>1, <1>2, <1>3, <1>4 DEF Inv

(* So does the move of the folder back to it. *)
LEMMA ExposeCopyKeeps == ASSUME Inv, ExposeCopy PROVE Inv'
<1>1. TypeOK'
  BY DEF ExposeCopy, FailRemove, ReturnRemove, journals, locals, reports, counters, Inv, TypeOK,
     Results, Labels
<1>2. CreateInv'
  BY DEF ExposeCopy, FailRemove, ReturnRemove, journals, reports, Inv, TypeOK, CreateInv,
     RemoveInv, Creating, Finishing, Exposing
<1>3. RemoveInv'
  BY DEF ExposeCopy, FailRemove, ReturnRemove, journals, reports, Inv, TypeOK, RemoveInv,
     Removing, Finishing, Exposing, Unjournaled
<1>4. CaptureInv'
  BY DEF ExposeCopy, FailRemove, ReturnRemove, journals, Inv, TypeOK, CaptureInv, Exposing
<1> QED
  BY <1>1, <1>2, <1>3, <1>4 DEF Inv

(* A crash loses the step and nothing that is durable. *)
LEMMA CrashKeeps == ASSUME Inv, Crash PROVE Inv'
<1>1. TypeOK'
  BY ConstantsAssumption DEF Crash, disk, journals, locals, reports, history, Inv, TypeOK, Labels
<1>2. CreateInv'
  BY DEF Crash, journals, reports, history, Inv, TypeOK, CreateInv, Creating
<1>3. RemoveInv'
  BY DEF Crash, journals, reports, Inv, TypeOK, RemoveInv, Removing, Finishing, Exposing,
     Unjournaled
<1>4. CaptureInv'
  BY DEF Crash, disk, journals, history, Inv, TypeOK, CaptureInv, Exposing
<1> QED
  BY <1>1, <1>2, <1>3, <1>4 DEF Inv

(* Another program never adds to what the Bridge created. *)
LEMMA ReplaceDirectoryKeeps == ASSUME Inv, ReplaceDirectory PROVE Inv'
<1>1. TypeOK'
  BY ConstantsAssumption DEF ReplaceDirectory, journals, locals, reports, Inv, TypeOK
<1>2. CreateInv'
  BY DEF ReplaceDirectory, journals, locals, reports, Inv, TypeOK, CreateInv
<1>3. RemoveInv'
  BY DEF ReplaceDirectory, journals, reports, Inv, TypeOK, RemoveInv
<1>4. CaptureInv'
  BY DEF ReplaceDirectory, journals, locals, Inv, TypeOK, CaptureInv
<1> QED
  BY <1>1, <1>2, <1>3, <1>4 DEF Inv

(* Another program deletes an empty folder. *)
LEMMA DeleteDirectoryKeeps == ASSUME Inv, DeleteDirectory PROVE Inv'
<1>1. TypeOK'
  BY ConstantsAssumption DEF DeleteDirectory, journals, locals, reports, history, Inv, TypeOK
<1>2. CreateInv'
  BY DEF DeleteDirectory, journals, locals, reports, history, Inv, TypeOK, CreateInv
<1>3. RemoveInv'
  BY DEF DeleteDirectory, journals, reports, Inv, TypeOK, RemoveInv
<1>4. CaptureInv'
  BY DEF DeleteDirectory, journals, locals, history, Inv, TypeOK, CaptureInv
<1> QED
  BY <1>1, <1>2, <1>3, <1>4 DEF Inv

(* Another program puts something in a folder. *)
LEMMA AddItemKeeps == ASSUME Inv, AddItem PROVE Inv'
<1>1. TypeOK'
  BY ConstantsAssumption DEF AddItem, journals, locals, reports, history, Inv, TypeOK
<1>2. CreateInv'
  BY DEF AddItem, journals, locals, reports, history, Inv, TypeOK, CreateInv
<1>3. RemoveInv'
  BY DEF AddItem, journals, reports, Inv, TypeOK, RemoveInv
<1>4. CaptureInv'
  BY DEF AddItem, journals, locals, history, Inv, TypeOK, CaptureInv
<1> QED
  BY <1>1, <1>2, <1>3, <1>4 DEF Inv

(* The invariant holds before the first operation. *)
LEMMA InvInit == Init => Inv
<1> SUFFICES ASSUME Init PROVE Inv
  OBVIOUS
<1>1. TypeOK
  <2>1. made \in BOOLEAN /\ cj \in [state : {"ABSENT", "INTENT", "COMPLETED"}, created : BOOLEAN, ino : Inodes \cup {None}]
    BY DEF Init
  <2>2. /\ pub \in Inodes \cup {None} /\ items \in [Inodes -> SUBSET Items]
        /\ box \in [Dirs -> Inodes \cup {NoDir, Empty}]
        /\ rj \in [state : {"ABSENT", "INTENT", "LINKED", "COMPLETED"}, ino : Inodes \cup {None},
                   capture : Dirs \cup {None}]
    BY DEF Init
  <2>3. /\ pc \in Labels /\ mode \in {"live", "settle", "historical"}
        /\ cap \in Dirs \cup {None} /\ own \in Inodes \cup {None} /\ listing \subseteq Items
        /\ creport \in Results /\ rreport \in Results
        /\ createdBy \subseteq Inodes /\ removedBy \subseteq Inodes
    BY DEF Init, Results, Labels
  <2>4. /\ cattempts \in 0..MaxAttempts /\ rattempts \in 0..MaxAttempts
        /\ crashes \in 0..MaxCrashes /\ interference \in 0..MaxInterference
    BY ConstantsAssumption DEF Init
  <2> QED
    BY <2>1, <2>2, <2>3, <2>4 DEF TypeOK
<1>2. CreateInv /\ RemoveInv
  BY DEF Init, CreateInv, RemoveInv, Creating, Removing, Unjournaled, Finishing, Exposing
<1>3. CaptureInv
  BY ConstantsAssumption DEF Init, CaptureInv, Exposing
<1> QED
  BY <1>1, <1>2, <1>3 DEF Inv

(* Every step keeps it. *)
LEMMA InvStep == Inv /\ [Next]_vars => Inv'
<1> SUFFICES ASSUME Inv, [Next]_vars PROVE Inv'
  OBVIOUS
<1>1. CASE ExecuteCreate \/ ExecuteRemove \/ RecoverCreate \/ RecoverRemove
  BY <1>1, ExecuteCreateKeeps, ExecuteRemoveKeeps, RecoverCreateKeeps, RecoverRemoveKeeps
<1>2. CASE Step
  BY <1>2, LoadCreateKeeps, WriteCreateIntentKeeps, MkdirKeeps, StatCreatedKeeps,
     WriteCreatedKeeps,
     LoadRemoveKeeps, CheckOwnedKeeps, MakeContainerKeeps, WriteRemoveIntentKeeps,
     RenameIntoContainerKeeps, StatCapturedKeeps, WriteRemoveLinkedKeeps, RemoveCapturedKeeps,
     WriteRemovedKeeps, CleanupKeeps, ExposeStatKeeps, ExposeMkdirKeeps, ExposeReserveKeeps,
     ExposeCheckKeeps, ExposeCopyKeeps DEF Step
<1>3. CASE Environment
  BY <1>3, CrashKeeps, ReplaceDirectoryKeeps, DeleteDirectoryKeeps, AddItemKeeps DEF Environment
<1>4. CASE UNCHANGED vars
  BY <1>4 DEF vars, Inv, TypeOK, CreateInv, RemoveInv, CaptureInv
<1> QED
  BY <1>1, <1>2, <1>3, <1>4 DEF Next

-----------------------------------------------------------------------------
(* The theorems. *)

(* The invariant holds in every reachable state. *)
THEOREM Invariance == Spec => []Inv
<1> QED
  BY InvInit, InvStep, PTL DEF Spec

(* The disk, the journals and the running call stay well formed. *)
THEOREM TypeCorrect == Spec => []TypeOK
<1>1. Inv => TypeOK
  BY DEF Inv
<1> QED
  BY <1>1, Invariance, PTL

(* A removal is recorded or reported as completed only when the journaled
   directory was removed, a report without effect is true, and the journal
   knows of every captured directory, through any crash between two writes of
   journaledCreateFolder, journaledRemoveFolder and their recovery. *)
THEOREM JournalIsTruthful == Spec => []JournalTruthful
<1>1. Inv => JournalTruthful
  BY DEF Inv, CreateInv, RemoveInv, CaptureInv, JournalTruthful, RemovalProven, NoEffectTruthful,
     CaptureRecorded
<1> QED
  BY <1>1, Invariance, PTL

(* A directory is still named where a step left the containers alone and moved
   the public name from nothing, or nothing at all. *)
LEMMA NameKept ==
    ASSUME Inv, UNCHANGED box, pub' = pub \/ pub = None, NEW i \in Inodes, Named(i)
    PROVE  Named(i)'
BY ConstantsAssumption DEF Named, Inv, TypeOK

(* What a step that is not another program's does to names and items. *)
Kind ==
    \/ UNCHANGED <<pub, items, box>>
    \/ UNCHANGED box /\ pub = None /\ \E i \in Inodes, s \in SUBSET Items :
          ~Named(i) /\ pub' = i /\ items' = [items EXCEPT ![i] = s]
    \/ UNCHANGED <<box, pub>> /\ pub # None /\ \E a \in Items : items' = [items EXCEPT ![pub] = @ \cup {a}]
    \/ UNCHANGED <<pub, items>> /\ \E d \in Dirs, b \in {NoDir, Empty} :
          box' = [box EXCEPT ![d] = b] /\ (box[d] \in Inodes => items[box[d]] = {})
    \/ UNCHANGED items /\ pub # None /\ pub' = None /\ \E d \in Dirs : box[d] = Empty /\ box' = [box EXCEPT ![d] = pub]

(* A step of one of these kinds leaves every folder with content its name and
   its content. *)
LEMMA KindKeeps == ASSUME Inv, Kind, NEW i \in Inodes, Named(i), items[i] # {}
                   PROVE  Named(i)' /\ items[i] \subseteq items'[i]
<1>1. items \in [Inodes -> SUBSET Items] /\ box \in [Dirs -> Inodes \cup {NoDir, Empty}] /\ pub \in Inodes \cup {None}
  BY DEF Inv, TypeOK
<1>2. CASE UNCHANGED <<pub, items, box>>
  BY <1>2 DEF Named
<1>3. CASE UNCHANGED box /\ pub = None /\ \E j \in Inodes, s \in SUBSET Items :
             ~Named(j) /\ pub' = j /\ items' = [items EXCEPT ![j] = s]
  <2>1. Named(i)'
    BY <1>3, NameKept
  <2> QED
    BY <1>1, <1>3, <2>1
<1>4. CASE UNCHANGED <<box, pub>> /\ pub # None /\ \E a \in Items : items' = [items EXCEPT ![pub] = @ \cup {a}]
  <2>1. Named(i)'
    BY <1>4, NameKept
  <2> QED
    BY <1>1, <1>4, <2>1
<1>5. CASE UNCHANGED <<pub, items>> /\ \E d \in Dirs, b \in {NoDir, Empty} :
             box' = [box EXCEPT ![d] = b] /\ (box[d] \in Inodes => items[box[d]] = {})
  BY <1>1, <1>5 DEF Named
<1>6. CASE UNCHANGED items /\ pub # None /\ pub' = None
           /\ \E d \in Dirs : box[d] = Empty /\ box' = [box EXCEPT ![d] = pub]
  BY <1>1, <1>6, ConstantsAssumption DEF Named
<1> QED
  BY <1>2, <1>3, <1>4, <1>5, <1>6 DEF Kind

(* Every step of the Bridge is of one of these kinds. *)
LEMMA StepKind == ASSUME Inv, [Next]_vars, interference' = interference PROVE Kind
<1>1. CASE ExecuteCreate \/ ExecuteRemove \/ RecoverCreate \/ RecoverRemove
  BY <1>1 DEF ExecuteCreate, ExecuteRemove, RecoverCreate, RecoverRemove, disk, Kind
<1>2. CASE LoadCreate \/ WriteCreateIntent \/ StatCreated \/ WriteCreated
  BY <1>2 DEF LoadCreate, WriteCreateIntent, StatCreated, WriteCreated, disk, Kind
<1>3. CASE Mkdir \/ ExposeMkdir
  <2>1. {} \in SUBSET Items
    OBVIOUS
  <2> QED
    BY <1>3, <2>1 DEF Mkdir, ExposeMkdir, Kind
<1>4. CASE LoadRemove \/ CheckOwned \/ WriteRemoveIntent \/ StatCaptured \/ WriteRemoveLinked \/ WriteRemoved
  BY <1>4 DEF LoadRemove, CheckOwned, WriteRemoveIntent, StatCaptured, WriteRemoveLinked,
     WriteRemoved, disk, Kind
<1>5. CASE MakeContainer
  BY <1>5, ConstantsAssumption DEF MakeContainer, Kind
<1>6. CASE RenameIntoContainer
  <2>1. cap \in Dirs /\ box[cap] = Empty
    BY <1>6 DEF RenameIntoContainer, Inv, RemoveInv, CaptureInv, Finishing
  <2> QED
    BY <1>6, <2>1 DEF RenameIntoContainer, Kind
<1>7. CASE RemoveCaptured \/ Cleanup
  <2>1. rj.capture \in Dirs
    BY <1>7 DEF RemoveCaptured, Cleanup, Inv, RemoveInv, Finishing
  <2> QED
    BY <1>7, <2>1, ConstantsAssumption DEF RemoveCaptured, Cleanup, Captured, Kind
<1>8. CASE ExposeStat \/ ExposeReserve \/ ExposeCheck
  BY <1>8 DEF ExposeStat, ExposeReserve, ExposeCheck, disk, Kind
<1>9. CASE ExposeCopy
  <2>1. PICK a \in listing :
          \/ pub # None /\ items' = [items EXCEPT ![pub] = @ \cup {a}] /\ UNCHANGED pub
          \/ UNCHANGED <<pub, items>>
          \/ pub = None /\ \E i \in Inodes : ~Named(i) /\ pub' = i /\ items' = [items EXCEPT ![i] = {a}]
    BY <1>9 DEF ExposeCopy
  <2>2. a \in Items /\ {a} \in SUBSET Items /\ UNCHANGED box
    BY <1>9, <2>1 DEF ExposeCopy, Inv, TypeOK
  <2> QED
    BY <2>1, <2>2 DEF Kind
<1>10. CASE Crash \/ UNCHANGED vars
  BY <1>10 DEF Crash, vars, disk, Kind
<1>11. ~(ReplaceDirectory \/ DeleteDirectory \/ AddItem)
  BY DEF ReplaceDirectory, DeleteDirectory, AddItem, Inv, TypeOK
<1> QED
  BY <1>1, <1>2, <1>3, <1>4, <1>5, <1>6, <1>7, <1>8, <1>9, <1>10, <1>11 DEF Next, Step,
     Environment

(* Once the removal is COMPLETED its journal leads to the cleanup only. *)
LEMMA CompletedStep ==
    ASSUME Inv, [Next]_vars, rj.state = "COMPLETED", interference' = interference
    PROVE  pub' = pub /\ items' = items
<1>1. pc \in {"idle", "cLoad", "rLoad", "clean"}
  BY DEF Inv, TypeOK, Labels, CreateInv, RemoveInv, Creating, Removing, Unjournaled, Finishing,
     Exposing
<1>2. CASE Step
  BY <1>1, <1>2 DEF Step, LoadCreate, WriteCreateIntent, Mkdir, StatCreated, WriteCreated,
     LoadRemove,
     CheckOwned, MakeContainer, WriteRemoveIntent, RenameIntoContainer, StatCaptured, WriteRemoveLinked,
     RemoveCaptured, WriteRemoved, Cleanup, ExposeStat, ExposeMkdir, ExposeReserve, ExposeCheck, ExposeCopy, disk
<1>3. CASE ExecuteCreate \/ ExecuteRemove \/ RecoverCreate \/ RecoverRemove \/ Crash \/ UNCHANGED vars
  BY <1>3 DEF ExecuteCreate, ExecuteRemove, RecoverCreate, RecoverRemove, Crash, disk, vars
<1>4. ~(ReplaceDirectory \/ DeleteDirectory \/ AddItem)
  BY DEF ReplaceDirectory, DeleteDirectory, AddItem, Inv, TypeOK
<1> QED
  BY <1>2, <1>3, <1>4 DEF Next, Environment

(* Capture before removal: a directory that holds something keeps a name and
   its items through every step of the Bridge, whoever put it under the public
   name; and the replay of a completed removal touches the public name no more. *)
THEOREM ContentIsSafe == Spec => ContentSafe
<1>1. Inv /\ [Next]_vars => KeepsContent /\ CompletedRemovalInert
  BY StepKind, KindKeeps, CompletedStep DEF KeepsContent, CompletedRemovalInert
<1>2. Spec => [][KeepsContent /\ CompletedRemovalInert]_vars
  BY <1>1, Invariance, PTL DEF Spec
<1> QED
  BY <1>2 DEF ContentSafe
==============================================================================
