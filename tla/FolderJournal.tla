--------------------------- MODULE FolderJournal ---------------------------
(***************************************************************************)
(* A journaled folder creation of the native Bridge and its Undo: the      *)
(* folder is created or found, its identity is journaled, and the removal  *)
(* captures the public name into a private container before it decides     *)
(* whether what it captured may be removed.                                *)
(*                                                                         *)
(*   bridge-app/src/filesystem/physical-journal.ts  journaledCreateFolder, *)
(*       journaledRemoveFolder, finishDirectoryRemoval,                    *)
(*       exposeForeignCapturedDirectory, cleanupCompletedDirectoryRemoval, *)
(*       recoverPhysicalAction                                             *)
(*   bridge-app/src/filesystem/operations.ts  one action and its settlement*)
(*                                                                         *)
(* A directory is an inode with a set of items; one public name and the    *)
(* private containers hold directories.  Every filesystem call and journal *)
(* write is a step.                                                        *)
(***************************************************************************)
EXTENDS Integers, FiniteSets

CONSTANTS
    Inodes,           \* directory inodes
    Items,            \* names inside a directory
    Dirs,             \* names mkdtemp may return for a private container
    None,             \* no inode, no container
    NoDir,            \* the container does not exist
    Empty,            \* the container exists and is empty
    MaxInterference,  \* bound: actions of other programs
    MaxCrashes,       \* bound: process deaths
    MaxAttempts       \* bound: live attempts of each of the two actions

ASSUME ConstantsAssumption ==
    /\ None \notin Inodes \cup Dirs
    /\ {NoDir, Empty} \cap Inodes = {}
    /\ NoDir # Empty
    /\ MaxInterference \in Nat /\ MaxCrashes \in Nat /\ MaxAttempts \in Nat

VARIABLES
    pub,          \* directory under the public name, or None
    items,        \* items of each directory
    box,          \* private containers: NoDir, Empty or the captured directory
    cj,           \* creation journal
    rj,           \* removal journal
    pc, mode,     \* next call; "live", "settle" or "historical"
    made,         \* entry.created of the running creation
    cap,          \* container made by the running removal
    own,          \* reservation of exposeForeignCapturedDirectory
    listing,      \* items of the captured directory still to be copied back
    creport, rreport,               \* last results of the two actions
    cattempts, rattempts, crashes, interference,
    createdBy,    \* history: directories that exist because of the Bridge's mkdir
    removedBy     \* history: directories the Bridge removed

disk == <<pub, items, box>>
journals == <<cj, rj>>
locals == <<made, cap, own, listing>>
reports == <<creport, rreport>>
counters == <<cattempts, rattempts, crashes, interference>>
history == <<createdBy, removedBy>>
vars == <<pub, items, box, cj, rj, pc, mode, made, cap, own, listing, creport, rreport,
          cattempts, rattempts, crashes, interference, createdBy, removedBy>>

Results == {"none", "COMPLETED", "NO_EFFECT", "UNKNOWN"}
Labels == {"idle", "cLoad", "cIntent", "cMkdir", "cStat", "cDone",
           "rLoad", "rCheck", "rMkdtemp", "rIntent", "rRename",
           "fStat", "fLinked", "fRmdir", "fDone", "clean",
           "xStat", "xMkdir", "xReserve", "xCheck", "xCopy"}

TypeOK ==
    /\ pub \in Inodes \cup {None}
    /\ items \in [Inodes -> SUBSET Items]
    /\ box \in [Dirs -> Inodes \cup {NoDir, Empty}]
    /\ cj \in [state : {"ABSENT", "INTENT", "COMPLETED"}, created : BOOLEAN, ino : Inodes \cup {None}]
    /\ rj \in [state : {"ABSENT", "INTENT", "LINKED", "COMPLETED"}, ino : Inodes \cup {None},
               capture : Dirs \cup {None}]
    /\ pc \in Labels
    /\ mode \in {"live", "settle", "historical"}
    /\ made \in BOOLEAN /\ cap \in Dirs \cup {None} /\ own \in Inodes \cup {None}
    /\ listing \subseteq Items
    /\ creport \in Results /\ rreport \in Results
    /\ cattempts \in 0..MaxAttempts /\ rattempts \in 0..MaxAttempts
    /\ crashes \in 0..MaxCrashes /\ interference \in 0..MaxInterference
    /\ createdBy \subseteq Inodes /\ removedBy \subseteq Inodes

Init ==
    /\ pub \in Inodes \cup {None}
    /\ items \in [Inodes -> SUBSET Items]
    /\ \A i \in Inodes \ {pub} : items[i] = {}
    /\ box = [d \in Dirs |-> NoDir]
    /\ cj = [state |-> "ABSENT", created |-> FALSE, ino |-> None]
    /\ rj = [state |-> "ABSENT", ino |-> None, capture |-> None]
    /\ pc = "idle" /\ mode = "live"
    /\ made = FALSE /\ cap = None /\ own = None /\ listing = {}
    /\ creport = "none" /\ rreport = "none"
    /\ cattempts = 0 /\ rattempts = 0 /\ crashes = 0 /\ interference = 0
    /\ createdBy = {} /\ removedBy = {}

(* A directory reachable through the public name or a private container. *)
Named(i) == pub = i \/ \E d \in Dirs : box[d] = i

Goto(step) ==
    /\ pc' = step
    /\ UNCHANGED <<mode, locals, reports>>

(* The running creation, or removal, hands its result to the caller. *)
ReturnCreate(result) ==
    /\ pc' = "idle" /\ creport' = result
    /\ UNCHANGED <<mode, locals, rreport>>
ReturnRemove(result) ==
    /\ pc' = "idle" /\ rreport' = result
    /\ UNCHANGED <<mode, locals, creport>>

(* An exception of the creation: without a journal nothing was admitted; an
   interrupted creation cannot be recovered, only inspected. *)
FailCreate ==
    ReturnCreate(IF mode = "live" /\ cj.state = "ABSENT" THEN "NO_EFFECT" ELSE "UNKNOWN")

(* An exception of the removal: a live attempt with a journal settles through
   recoverPhysicalAction; its own failure leaves the outcome unknown. *)
FailRemove ==
    \/ /\ mode # "live"
       /\ ReturnRemove("UNKNOWN")
    \/ /\ mode = "live" /\ rj.state = "ABSENT"
       /\ ReturnRemove("NO_EFFECT")
    \/ /\ mode = "live" /\ rj.state # "ABSENT"
       /\ pc' = IF rj.state = "COMPLETED" THEN "clean" ELSE "fStat"
       /\ mode' = "settle"
       /\ UNCHANGED <<locals, reports>>

(***************************************************************************)
(* Calls.                                                                  *)
(***************************************************************************)

ExecuteCreate ==
    /\ pc = "idle" /\ cattempts < MaxAttempts
    /\ cattempts' = cattempts + 1
    /\ pc' = "cLoad" /\ mode' = "live" /\ creport' = "none"
    /\ UNCHANGED <<disk, journals, locals, rreport, rattempts, crashes, interference, history>>

(* Undo is offered for an action the cloud recorded as completed. *)
ExecuteRemove ==
    /\ pc = "idle" /\ rattempts < MaxAttempts /\ creport = "COMPLETED"
    /\ rattempts' = rattempts + 1
    /\ pc' = "rLoad" /\ mode' = "live" /\ rreport' = "none"
    /\ UNCHANGED <<disk, journals, locals, creport, cattempts, crashes, interference, history>>

(* recoverBridgePhysicalActions for the creation, and for the removal. *)
RecoverCreate ==
    /\ pc = "idle"
    /\ mode' = "historical"
    /\ creport' = IF cj.state = "COMPLETED" THEN "COMPLETED"
                  ELSE IF cj.state = "ABSENT" /\ cattempts = 0 THEN "NO_EFFECT" ELSE "UNKNOWN"
    /\ UNCHANGED <<disk, journals, pc, locals, rreport, counters, history>>

RecoverRemove ==
    /\ pc = "idle"
    /\ mode' = "historical"
    /\ \/ /\ rj.state = "ABSENT"
          /\ rreport' = IF rattempts = 0 THEN "NO_EFFECT" ELSE "UNKNOWN"
          /\ UNCHANGED pc
       \/ /\ rj.state # "ABSENT"
          /\ pc' = IF rj.state = "COMPLETED" THEN "clean" ELSE "fStat"
          /\ rreport' = "none"
    /\ UNCHANGED <<disk, journals, locals, creport, counters, history>>

(***************************************************************************)
(* journaledCreateFolder.                                                  *)
(***************************************************************************)

LoadCreate ==
    /\ pc = "cLoad"
    /\ \/ cj.state = "COMPLETED" /\ ReturnCreate("COMPLETED")
       \/ cj.state = "INTENT" /\ pub # None /\ FailCreate
       \/ cj.state = "INTENT" /\ pub = None /\ Goto("cIntent")
       \/ cj.state = "ABSENT" /\ Goto("cIntent")
    /\ UNCHANGED <<disk, journals, counters, history>>

WriteCreateIntent ==
    /\ pc = "cIntent"
    /\ cj' = [state |-> "INTENT", created |-> FALSE, ino |-> None]
    /\ Goto("cMkdir")
    /\ UNCHANGED <<disk, rj, counters, history>>

(* mkdir is exclusive; an existing directory is accepted and not "created". *)
Mkdir ==
    /\ pc = "cMkdir"
    /\ \/ /\ pub = None
          /\ \E i \in Inodes :
                /\ ~Named(i)
                /\ pub' = i
                /\ items' = [items EXCEPT ![i] = {}]
                /\ createdBy' = createdBy \cup {i}
          /\ made' = TRUE
       \/ /\ pub # None
          /\ made' = FALSE
          /\ UNCHANGED <<pub, items, createdBy>>
    /\ pc' = "cStat"
    /\ UNCHANGED <<box, journals, mode, cap, own, listing, reports, counters, removedBy>>

(* lstat after mkdir: the identity of whatever the name refers to now. *)
StatCreated ==
    /\ pc = "cStat"
    /\ \/ /\ pub # None
          /\ own' = pub /\ pc' = "cDone"
          /\ UNCHANGED <<mode, made, cap, listing, reports>>
       \/ /\ pub = None
          /\ FailCreate
    /\ UNCHANGED <<disk, journals, counters, history>>

WriteCreated ==
    /\ pc = "cDone"
    /\ cj' = [state |-> "COMPLETED", created |-> made, ino |-> own]
    /\ ReturnCreate("COMPLETED")
    /\ UNCHANGED <<disk, rj, counters, history>>

(***************************************************************************)
(* journaledRemoveFolder.                                                  *)
(***************************************************************************)

LoadRemove ==
    /\ pc = "rLoad"
    /\ \/ rj.state = "COMPLETED" /\ Goto("clean")
       \/ rj.state \in {"INTENT", "LINKED"} /\ Goto("fStat")
       \/ rj.state = "ABSENT" /\ Goto("rCheck")
    /\ UNCHANGED <<disk, journals, counters, history>>

(* The public directory must be the empty one this execution created. *)
RemovalOwned == cj.state = "COMPLETED" /\ cj.created /\ pub = cj.ino /\ items[pub] = {}

CheckOwned ==
    /\ pc = "rCheck"
    /\ \/ RemovalOwned /\ Goto("rMkdtemp")
       \/ ~RemovalOwned /\ FailRemove
    /\ UNCHANGED <<disk, journals, counters, history>>

MakeContainer ==
    /\ pc = "rMkdtemp"
    /\ \E d \in Dirs :
          /\ box[d] = NoDir
          /\ box' = [box EXCEPT ![d] = Empty]
          /\ cap' = d
    /\ pc' = "rIntent"
    /\ UNCHANGED <<pub, items, journals, mode, made, own, listing, reports, counters, history>>

WriteRemoveIntent ==
    /\ pc = "rIntent"
    /\ rj' = [state |-> "INTENT", ino |-> cj.ino, capture |-> cap]
    /\ Goto("rRename")
    /\ UNCHANGED <<disk, cj, counters, history>>

(* Seeded fault: a missing public name is captured as if it were there. *)
RenameWithoutCheck ==
    /\ pc = "rRename"
    /\ box' = [box EXCEPT ![cap] = pub]
    /\ pub' = None
    /\ Goto("fStat")
    /\ UNCHANGED <<items, journals, counters, history>>

(* rename captures whatever the public name refers to now. *)
RenameIntoContainer ==
    /\ pc = "rRename"
    /\ \/ /\ pub # None
          /\ box' = [box EXCEPT ![cap] = pub]
          /\ pub' = None
          /\ Goto("fStat")
       \/ /\ pub = None
          /\ FailRemove
          /\ UNCHANGED <<pub, box>>
    /\ UNCHANGED <<items, journals, counters, history>>

(***************************************************************************)
(* finishDirectoryRemoval.                                                 *)
(***************************************************************************)

Captured == box[rj.capture]

(* Seeded fault: an intent and an empty container pass for a removal. *)
StatCapturedTrustsAbsence ==
    /\ pc = "fStat"
    /\ \/ Captured = Empty /\ Goto("fDone")
       \/ Captured = NoDir /\ FailRemove
       \/ Captured \in Inodes /\ Captured # rj.ino /\ Goto("xStat")
       \/ Captured \in Inodes /\ Captured = rj.ino /\ Goto("fLinked")
    /\ UNCHANGED <<disk, journals, counters, history>>

(* Owned and empty: prove it; foreign: expose it; nothing there: only a LINKED
   journal proves the removal. *)
StatCaptured ==
    /\ pc = "fStat"
    /\ \/ /\ Captured = NoDir /\ FailRemove
       \/ /\ Captured = Empty /\ rj.state = "LINKED" /\ Goto("fDone")
       \/ /\ Captured = Empty /\ rj.state # "LINKED" /\ FailRemove
       \/ /\ Captured \in Inodes /\ Captured # rj.ino /\ Goto("xStat")
       \/ /\ Captured \in Inodes /\ Captured = rj.ino /\ items[Captured] # {} /\ FailRemove
       \/ /\ Captured \in Inodes /\ Captured = rj.ino /\ items[Captured] = {} /\ Goto("fLinked")
    /\ UNCHANGED <<disk, journals, counters, history>>

WriteRemoveLinked ==
    /\ pc = "fLinked"
    /\ rj' = [rj EXCEPT !.state = "LINKED"]
    /\ Goto("fRmdir")
    /\ UNCHANGED <<disk, cj, counters, history>>

(* Seeded fault: a recursive removal. *)
RemoveCapturedRecursively ==
    /\ pc = "fRmdir"
    /\ box' = [box EXCEPT ![rj.capture] = Empty]
    /\ removedBy' = removedBy \cup {Captured}
    /\ Goto("fDone")
    /\ UNCHANGED <<pub, items, journals, counters, createdBy>>

(* rmdir refuses a directory that is not empty. *)
RemoveCaptured ==
    /\ pc = "fRmdir"
    /\ \/ /\ items[Captured] = {}
          /\ box' = [box EXCEPT ![rj.capture] = Empty]
          /\ removedBy' = removedBy \cup {Captured}
          /\ Goto("fDone")
       \/ /\ items[Captured] # {}
          /\ FailRemove
          /\ UNCHANGED <<box, removedBy>>
    /\ UNCHANGED <<pub, items, journals, counters, createdBy>>

WriteRemoved ==
    /\ pc = "fDone"
    /\ rj' = [rj EXCEPT !.state = "COMPLETED"]
    /\ Goto("clean")
    /\ UNCHANGED <<disk, cj, counters, history>>

(* cleanupCompletedDirectoryRemoval: only the exact empty container. *)
Cleanup ==
    /\ pc = "clean"
    /\ \/ /\ Captured \in {NoDir, Empty}
          /\ box' = [box EXCEPT ![rj.capture] = NoDir]
          /\ ReturnRemove("COMPLETED")
       \/ /\ Captured \in Inodes
          /\ FailRemove
          /\ UNCHANGED box
    /\ UNCHANGED <<pub, items, journals, counters, history>>

(***************************************************************************)
(* exposeForeignCapturedDirectory: recreate the public name exclusively    *)
(* and copy the captured items back, checking ownership before each copy.  *)
(* Whatever happens the removal stays unresolved.                          *)
(***************************************************************************)

ExposeStat ==
    /\ pc = "xStat"
    /\ \/ pub # None /\ FailRemove
       \/ pub = None /\ Goto("xMkdir")
    /\ UNCHANGED <<disk, journals, counters, history>>

ExposeMkdir ==
    /\ pc = "xMkdir"
    /\ \/ /\ pub # None
          /\ FailRemove
          /\ UNCHANGED <<pub, items, createdBy>>
       \/ /\ pub = None
          /\ \E i \in Inodes :
                /\ ~Named(i)
                /\ pub' = i
                /\ items' = [items EXCEPT ![i] = {}]
                /\ createdBy' = createdBy \cup {i}
          /\ Goto("xReserve")
    /\ UNCHANGED <<box, journals, counters, removedBy>>

(* lstat of the reservation and readdir of the captured directory. *)
ExposeReserve ==
    /\ pc = "xReserve"
    /\ \/ /\ pub # None
          /\ own' = pub /\ listing' = items[Captured] /\ pc' = "xCheck"
          /\ UNCHANGED <<mode, made, cap, reports>>
       \/ /\ pub = None
          /\ FailRemove
    /\ UNCHANGED <<disk, journals, counters, history>>

ExposeCheck ==
    /\ pc = "xCheck"
    /\ \/ pub = own /\ listing # {} /\ Goto("xCopy")
       \/ (pub # own \/ listing = {}) /\ FailRemove
    /\ UNCHANGED <<disk, journals, counters, history>>

(* cp never overwrites, and recreates a parent that vanished. *)
ExposeCopy ==
    /\ pc = "xCopy"
    /\ \E a \in listing :
          \/ /\ pub # None /\ a \notin items[pub]
             /\ items' = [items EXCEPT ![pub] = @ \cup {a}]
             /\ listing' = listing \ {a} /\ pc' = "xCheck"
             /\ UNCHANGED <<pub, createdBy, mode, made, cap, own, reports>>
          \/ /\ pub # None /\ a \in items[pub]
             /\ FailRemove
             /\ UNCHANGED <<pub, items, createdBy>>
          \/ /\ pub = None
             /\ \E i \in Inodes :
                   /\ ~Named(i)
                   /\ pub' = i
                   /\ items' = [items EXCEPT ![i] = {a}]
                   /\ createdBy' = createdBy \cup {i}
             /\ listing' = listing \ {a} /\ pc' = "xCheck"
             /\ UNCHANGED <<mode, made, cap, own, reports>>
    /\ UNCHANGED <<box, journals, counters, removedBy>>

(***************************************************************************)
(* The environment.                                                        *)
(***************************************************************************)

Crash ==
    /\ pc # "idle" /\ crashes < MaxCrashes
    /\ crashes' = crashes + 1
    /\ pc' = "idle"
    /\ UNCHANGED <<disk, journals, mode, locals, reports, cattempts, rattempts, interference, history>>

(* Another program puts its own directory under the public name; inode numbers of
   removed directories are reused. *)
ReplaceDirectory ==
    /\ interference < MaxInterference
    /\ interference' = interference + 1
    /\ \E i \in Inodes, s \in SUBSET Items :
          /\ ~Named(i)
          /\ pub' = i
          /\ items' = [items EXCEPT ![i] = s]
          /\ createdBy' = createdBy \ {i}
    /\ UNCHANGED <<box, journals, pc, mode, locals, reports, cattempts, rattempts, crashes, removedBy>>

DeleteDirectory ==
    /\ interference < MaxInterference
    /\ interference' = interference + 1
    /\ pub # None
    /\ pub' = None
    /\ UNCHANGED <<items, box, journals, pc, mode, locals, reports, cattempts, rattempts, crashes, history>>

(* A program that holds a directory open adds to it under any of its names. *)
AddItem ==
    /\ interference < MaxInterference
    /\ interference' = interference + 1
    /\ \E i \in {j \in Inodes : Named(j)} : \E a \in Items \ items[i] :
          items' = [items EXCEPT ![i] = @ \cup {a}]
    /\ UNCHANGED <<pub, box, journals, pc, mode, locals, reports, cattempts, rattempts, crashes, history>>

Step ==
    \/ LoadCreate \/ WriteCreateIntent \/ Mkdir \/ StatCreated \/ WriteCreated
    \/ LoadRemove \/ CheckOwned \/ MakeContainer \/ WriteRemoveIntent \/ RenameIntoContainer
    \/ StatCaptured \/ WriteRemoveLinked \/ RemoveCaptured \/ WriteRemoved \/ Cleanup
    \/ ExposeStat \/ ExposeMkdir \/ ExposeReserve \/ ExposeCheck \/ ExposeCopy

Environment == Crash \/ ReplaceDirectory \/ DeleteDirectory \/ AddItem

Next ==
    \/ ExecuteCreate \/ ExecuteRemove \/ RecoverCreate \/ RecoverRemove
    \/ Step \/ Environment

Spec == Init /\ [][Next]_vars

(***************************************************************************)
(* Properties.                                                             *)
(***************************************************************************)

(* The Bridge never loses a directory that holds something, nor an item of it,
   whoever put it under the public name and whenever: it is still reachable,
   under the public name or in a private container (capture before removal). *)
KeepsContent ==
    \A i \in Inodes :
        (Named(i) /\ items[i] # {} /\ interference' = interference)
            => (Named(i)' /\ items[i] \subseteq items'[i])

(* A removal is recorded and reported as completed only if the journaled
   directory was really removed, although a crash can fall between the removal
   and the record of it (LINKED is written before rmdir). *)
RemovalProven ==
    rj.state = "COMPLETED" \/ rreport = "COMPLETED" => rj.ino \in removedBy

(* After the removal completed, no replay or recovery of it touches the public
   name again: a directory another program puts there is safe. *)
CompletedRemovalInert ==
    rj.state = "COMPLETED" /\ rj' = rj /\ interference' = interference => pub' = pub /\ items' = items

(* A creation or removal reported without effect had none. *)
NoEffectTruthful ==
    /\ creport = "NO_EFFECT" => createdBy = {}
    /\ rreport = "NO_EFFECT" => removedBy = {} /\ \A d \in Dirs : box[d] \notin Inodes

(* The journal never loses track of a captured directory. *)
CaptureRecorded ==
    \A d \in Dirs : box[d] \in Inodes => rj.state # "ABSENT" /\ rj.capture = d

(* What the journal and the reports of a creation and its removal say is what
   happened on disk, through any crash between two of their writes
   (journaledCreateFolder, journaledRemoveCreatedFolder, recoverJournaledFolder). *)
JournalTruthful == RemovalProven /\ NoEffectTruthful /\ CaptureRecorded

(* Nothing with content loses its name to a step of the Bridge, neither while
   a removal runs nor when a completed one is replayed. *)
ContentSafe == [][KeepsContent /\ CompletedRemovalInert]_vars
=============================================================================
