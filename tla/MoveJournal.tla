---------------------------- MODULE MoveJournal ----------------------------
(***************************************************************************)
(* One journaled file move of the native Bridge: the exclusive hard link,  *)
(* the private capture of the source name, and the action journal that     *)
(* lets a restarted process tell what already happened.                    *)
(*                                                                         *)
(*   bridge-app/src/filesystem/physical-journal.ts   journaledMove,        *)
(*                                  recoverMove, recoverPhysicalAction     *)
(*   bridge-app/src/filesystem/safe-move.ts          removeOwnedSource,    *)
(*                                  moveWithoutReplacement                 *)
(*   bridge-app/src/filesystem/operations.ts         the try/catch around  *)
(*                                  one action and its settlement          *)
(*                                                                         *)
(* Every filesystem call and every journal write is a step of its own, so  *)
(* that the process can die, and another program can touch the public      *)
(* names, between any two of them.  A file is an inode and its checksum;   *)
(* the two public names and the private capture directories hold inodes.   *)
(***************************************************************************)
EXTENDS Integers, FiniteSets

CONSTANTS
    Inodes,           \* file inodes of the volume
    Checksums,        \* possible contents of a file
    Dirs,             \* names mkdtemp may return for a private capture
    None,             \* "no inode", "no capture"
    NoDir,            \* the private directory does not exist
    Empty,            \* the private directory exists and is empty
    Expected,         \* the checksum the approved plan recorded
    MaxInterference,  \* bound: actions of other programs
    MaxCrashes,       \* bound: process deaths
    MaxAttempts       \* bound: live executions of the action

ASSUME ConstantsAssumption ==
    /\ None \notin Inodes \cup Dirs
    /\ {NoDir, Empty} \cap Inodes = {}
    /\ NoDir # Empty
    /\ Expected \in Checksums
    /\ MaxInterference \in Nat /\ MaxCrashes \in Nat /\ MaxAttempts \in Nat

Names == {"source", "destination"}

VARIABLES
    entry,         \* public names: name -> inode or None
    bytes,         \* inode -> checksum
    captures,      \* private directories: dir -> NoDir, Empty or the inode of its "source"
    journal,       \* the durable action journal of this owner
    pc,            \* next filesystem call of the process, "idle" outside a call
    mode,          \* who is running: "live", "settle" or "historical"
    seen,          \* identity read by moveWithoutReplacement: [ino, sum]
    cap,           \* capture directory used by removeOwnedSource
    allow,         \* allowSourceChanges of removeOwnedSource
    sawSource,     \* recoverMove found a source entry
    report,        \* action result handed to the caller by the last call
    attempts, crashes, interference,
    linkedBy,      \* history: inodes the Bridge has linked at the destination
    destTouched    \* history: another program changed the destination name since it was verified

fs == <<entry, bytes, captures>>
volatile == <<pc, mode, seen, cap, allow, sawSource>>
history == <<linkedBy, destTouched>>
counters == <<attempts, crashes, interference>>
vars == <<entry, bytes, captures, journal, pc, mode, seen, cap, allow, sawSource,
          report, attempts, crashes, interference, linkedBy, destTouched>>

Identity == [ino : Inodes \cup {None}, sum : Checksums]
Journals == [state : {"ABSENT", "INTENT", "LINKED", "COMPLETED"},
             ino : Inodes \cup {None}, sum : Checksums, capture : Dirs \cup {None}]
Reports == {"none", "COMPLETED", "NO_EFFECT", "UNKNOWN"}
Steps == {"idle", "load", "identify", "intent", "link", "verifyDest", "linked",
          "mkdtemp", "capIntent", "verifySource", "rename", "verifyCaptured",
          "unlink", "rmdir", "statDest", "writeDone",
          "recSource", "recDest", "recIdentity", "recCapture", "recRmdir"}

TypeOK ==
    /\ entry \in [Names -> Inodes \cup {None}]
    /\ bytes \in [Inodes -> Checksums]
    /\ captures \in [Dirs -> Inodes \cup {NoDir, Empty}]
    /\ journal \in Journals
    /\ pc \in Steps
    /\ mode \in {"live", "settle", "historical"}
    /\ seen \in Identity
    /\ cap \in Dirs \cup {None}
    /\ allow \in BOOLEAN
    /\ sawSource \in BOOLEAN
    /\ report \in Reports
    /\ attempts \in 0..MaxAttempts
    /\ crashes \in 0..MaxCrashes
    /\ interference \in 0..MaxInterference
    /\ linkedBy \subseteq Inodes
    /\ destTouched \in BOOLEAN

NoIdentity == [ino |-> None, sum |-> Expected]
NoJournal == [state |-> "ABSENT", ino |-> None, sum |-> Expected, capture |-> None]

(* The plan was approved for a file that existed under the source name; its
   content may have changed since, and the destination may be taken. *)
Init ==
    /\ entry \in [Names -> Inodes \cup {None}]
    /\ entry["source"] # None
    /\ entry["destination"] # entry["source"]
    /\ bytes \in [Inodes -> Checksums]
    /\ captures = [d \in Dirs |-> NoDir]
    /\ journal = NoJournal
    /\ pc = "idle" /\ mode = "live" /\ seen = NoIdentity /\ cap = None
    /\ allow = TRUE /\ sawSource = FALSE /\ report = "none"
    /\ attempts = 0 /\ crashes = 0 /\ interference = 0
    /\ linkedBy = {} /\ destTouched = FALSE

(***************************************************************************)
(* Helpers.                                                                *)
(***************************************************************************)

(* An inode some public name or private capture still refers to. *)
Named(i) == i \in {entry[n] : n \in Names} \/ \E d \in Dirs : captures[d] = i

(* physicalFileIdentity(path) equals a recorded identity. *)
Matches(i, ino, sum) == i # None /\ i \in Inodes /\ i = ino /\ bytes[i] = sum

(* validateSourceIntegrity, and the checksum check of moveWithoutReplacement. *)
Approved(i) == i # None /\ bytes[i] = Expected

HasJournal == journal.state # "ABSENT"

(* The call returns a result to its caller. *)
Return(result) ==
    /\ pc' = "idle"
    /\ report' = result
    /\ UNCHANGED <<mode, seen, cap, allow, sawSource>>

(* Seeded fault: the settlement does not ask for a journal. *)
FailWithoutJournalCheck ==
    \/ mode # "live" /\ Return("UNKNOWN")
    \/ mode = "live" /\ Return("NO_EFFECT")

(* An exception.  Historical recovery and settlement keep the action pending
   with an unknown effect; a live attempt settles: without a journal nothing was
   admitted, with one it is recovered without finishing the owned link. *)
Fail ==
    \/ /\ mode # "live"
       /\ Return("UNKNOWN")
    \/ /\ mode = "live" /\ ~HasJournal
       /\ Return("NO_EFFECT")
    \/ /\ mode = "live" /\ HasJournal
       /\ pc' = "recSource" /\ mode' = "settle"
       /\ UNCHANGED <<seen, cap, allow, sawSource, report>>

Goto(step) ==
    /\ pc' = step
    /\ UNCHANGED <<mode, seen, cap, allow, sawSource, report>>

(***************************************************************************)
(* Calls.                                                                  *)
(***************************************************************************)

(* executeBridgePlanActionsOwned / executeBridgeUndoActionsOwned reach this
   action.  Without a journal the destination must be free and the source must
   be the approved file; with one the journal decides. *)
ExecuteAction ==
    /\ pc = "idle"
    /\ attempts < MaxAttempts
    /\ attempts' = attempts + 1
    /\ mode' = "live"
    /\ \/ /\ ~HasJournal
          /\ ~(entry["destination"] = None /\ Approved(entry["source"]))
          /\ report' = "NO_EFFECT"
          /\ UNCHANGED pc
       \/ /\ HasJournal \/ (entry["destination"] = None /\ Approved(entry["source"]))
          /\ report' = "none"
          /\ pc' = "load"
    /\ UNCHANGED <<fs, journal, seen, cap, allow, sawSource, crashes,
                   interference, history>>

(* recoverBridgePhysicalActions: the journal alone, no new effect.  A command
   that durably never started and has no journal is a proven no-effect. *)
RecoverAction ==
    /\ pc = "idle"
    /\ mode' = "historical"
    /\ \/ /\ ~HasJournal
          /\ report' = IF attempts = 0 THEN "NO_EFFECT" ELSE "UNKNOWN"
          /\ UNCHANGED pc
       \/ /\ journal.state = "COMPLETED"
          /\ report' = "COMPLETED"
          /\ UNCHANGED pc
       \/ /\ journal.state \in {"INTENT", "LINKED"}
          /\ report' = "none"
          /\ pc' = "recSource"
    /\ UNCHANGED <<fs, journal, seen, cap, allow, sawSource, attempts, crashes,
                   interference, history>>

(* journaledMove: load the journal, recover what an earlier attempt left. *)
Load ==
    /\ pc = "load"
    /\ \/ /\ journal.state = "COMPLETED" /\ Return("COMPLETED")
       \/ /\ journal.state \in {"INTENT", "LINKED"} /\ Goto("recSource")
       \/ /\ ~HasJournal /\ Goto("identify")
    /\ UNCHANGED <<fs, journal, counters, history>>

(***************************************************************************)
(* moveWithoutReplacement.                                                 *)
(***************************************************************************)

Identify ==
    /\ pc = "identify"
    /\ \/ /\ Approved(entry["source"])
          /\ seen' = [ino |-> entry["source"], sum |-> bytes[entry["source"]]]
          /\ pc' = "intent"
          /\ UNCHANGED <<mode, cap, allow, sawSource, report>>
       \/ /\ ~Approved(entry["source"])
          /\ Fail
    /\ UNCHANGED <<fs, journal, counters, history>>

(* The durable intent replaces whatever journal this owner had. *)
WriteIntent ==
    /\ pc = "intent"
    /\ journal' = [state |-> "INTENT", ino |-> seen.ino, sum |-> seen.sum, capture |-> None]
    /\ Goto("link")
    /\ UNCHANGED <<fs, counters, history>>

(* link() fails when the destination exists or the source is gone; it links
   whatever the source name refers to now. *)
Link ==
    /\ pc = "link"
    /\ \/ /\ entry["source"] # None /\ entry["destination"] = None
          /\ entry' = [entry EXCEPT !["destination"] = entry["source"]]
          /\ linkedBy' = linkedBy \cup {entry["source"]}
          /\ Goto("verifyDest")
       \/ /\ entry["source"] = None \/ entry["destination"] # None
          /\ Fail
          /\ UNCHANGED <<entry, linkedBy>>
    /\ UNCHANGED <<bytes, captures, journal, counters, destTouched>>

VerifyDestination ==
    /\ pc = "verifyDest"
    /\ \/ /\ Matches(entry["destination"], seen.ino, seen.sum)
          /\ Goto("linked")
          /\ destTouched' = FALSE
       \/ /\ ~Matches(entry["destination"], seen.ino, seen.sum)
          /\ Fail
          /\ UNCHANGED destTouched
    /\ UNCHANGED <<fs, journal, counters, linkedBy>>

WriteLinked ==
    /\ pc = "linked"
    /\ journal' = [journal EXCEPT !.state = "LINKED"]
    /\ pc' = "mkdtemp" /\ allow' = TRUE
    /\ UNCHANGED <<mode, seen, cap, sawSource, report, fs, counters, history>>

(***************************************************************************)
(* removeOwnedSource.                                                      *)
(***************************************************************************)

MakeCapture ==
    /\ pc = "mkdtemp"
    /\ \E d \in Dirs :
          /\ captures[d] = NoDir
          /\ captures' = [captures EXCEPT ![d] = Empty]
          /\ cap' = d
    /\ pc' = "capIntent"
    /\ UNCHANGED <<mode, seen, allow, sawSource, report, entry, bytes, journal,
                   counters, history>>

WriteCaptureIntent ==
    /\ pc = "capIntent"
    /\ journal' = [journal EXCEPT !.capture = cap]
    /\ Goto("verifySource")
    /\ UNCHANGED <<fs, counters, history>>

(* Seeded fault: a recorded capture directory is taken for a captured file. *)
VerifySourceAssumesCaptured ==
    /\ pc = "verifySource"
    /\ Goto("verifyCaptured")
    /\ UNCHANGED <<fs, journal, counters, history>>

(* Nothing captured yet: the public source must still be the owned file. *)
VerifySource ==
    /\ pc = "verifySource"
    /\ \/ /\ captures[cap] \in Inodes
          /\ Goto("verifyCaptured")
       \/ /\ captures[cap] = Empty /\ allow
          /\ Matches(entry["source"], journal.ino, journal.sum)
          /\ Goto("rename")
       \/ /\ captures[cap] = Empty
          /\ ~allow \/ ~Matches(entry["source"], journal.ino, journal.sum)
          /\ Fail
    /\ UNCHANGED <<fs, journal, counters, history>>

(* rename(source, captured) takes whatever the source name refers to now. *)
Rename ==
    /\ pc = "rename"
    /\ \/ /\ entry["source"] # None
          /\ captures' = [captures EXCEPT ![cap] = entry["source"]]
          /\ entry' = [entry EXCEPT !["source"] = None]
          /\ Goto("verifyCaptured")
       \/ /\ entry["source"] = None
          /\ Fail
          /\ UNCHANGED <<captures, entry>>
    /\ UNCHANGED <<bytes, journal, counters, history>>

(* Seeded fault: what rename captured is unlinked without a second look. *)
VerifyCapturedUnchecked ==
    /\ pc = "verifyCaptured"
    /\ Goto("unlink")
    /\ UNCHANGED <<fs, journal, counters, history>>

(* A captured file that is not the owned one gets its public name back, when
   that name is free, and stays in the capture. *)
VerifyCaptured ==
    /\ pc = "verifyCaptured"
    /\ \/ /\ Matches(captures[cap], journal.ino, journal.sum)
          /\ Goto("unlink")
          /\ UNCHANGED entry
       \/ /\ ~Matches(captures[cap], journal.ino, journal.sum)
          /\ entry' = IF allow /\ entry["source"] = None
                      THEN [entry EXCEPT !["source"] = captures[cap]] ELSE entry
          /\ Fail
    /\ UNCHANGED <<bytes, captures, journal, counters, history>>

Unlink ==
    /\ pc = "unlink"
    /\ captures' = [captures EXCEPT ![cap] = Empty]
    /\ Goto("rmdir")
    /\ UNCHANGED <<entry, bytes, journal, counters, history>>

RemoveCapture ==
    /\ pc = "rmdir"
    /\ captures' = [captures EXCEPT ![cap] = NoDir]
    /\ Goto("statDest")
    /\ UNCHANGED <<entry, bytes, journal, counters, history>>

(***************************************************************************)
(* completeMove.                                                           *)
(***************************************************************************)

StatDestination ==
    /\ pc = "statDest"
    /\ \/ entry["destination"] # None /\ Goto("writeDone")
       \/ entry["destination"] = None /\ Fail
    /\ UNCHANGED <<fs, journal, counters, history>>

WriteCompleted ==
    /\ pc = "writeDone"
    /\ journal' = [journal EXCEPT !.state = "COMPLETED"]
    /\ Return("COMPLETED")
    /\ UNCHANGED <<fs, counters, history>>

(***************************************************************************)
(* recoverMove.                                                            *)
(***************************************************************************)

StatSource ==
    /\ pc = "recSource"
    /\ sawSource' = (entry["source"] # None)
    /\ pc' = "recDest"
    /\ UNCHANGED <<mode, seen, cap, allow, report, fs, journal, counters, history>>

(* "No verified outcome": a live attempt may start over, the others report an
   unknown effect. *)
Unproved ==
    \/ mode = "live" /\ Goto("identify")
    \/ mode # "live" /\ Return("UNKNOWN")

StatOwnedDestination ==
    /\ pc = "recDest"
    /\ \/ entry["destination"] = None /\ Unproved
       \/ entry["destination"] # None /\ Goto("recIdentity")
    /\ UNCHANGED <<fs, journal, counters, history>>

(* The name may vanish between lstat and the open that hashes it. *)
IdentifyDestination ==
    /\ pc = "recIdentity"
    /\ \/ /\ Matches(entry["destination"], journal.ino, journal.sum)
          /\ Goto("recCapture")
          /\ destTouched' = FALSE
       \/ /\ ~Matches(entry["destination"], journal.ino, journal.sum)
          /\ \/ entry["destination"] # None /\ sawSource /\ Unproved
             \/ (entry["destination"] = None \/ ~sawSource) /\ Fail
          /\ UNCHANGED destTouched
    /\ UNCHANGED <<fs, journal, counters, linkedBy>>

(* Seeded fault: a missing source name is taken for a finished capture. *)
RecoverCaptureTrustsAbsence ==
    /\ pc = "recCapture"
    /\ \/ ~sawSource /\ Goto("statDest")
       \/ sawSource /\ Fail
    /\ UNCHANGED <<fs, journal, counters, history>>

(* Seeded fault: only a live attempt may finish a capture. *)
RecoverCaptureLiveOnly ==
    LET c == journal.capture IN
    /\ pc = "recCapture"
    /\ \/ /\ mode = "live" /\ c # None /\ captures[c] \in Inodes
          /\ cap' = c /\ allow' = FALSE /\ pc' = "verifyCaptured"
          /\ UNCHANGED <<mode, seen, sawSource, report>>
       \/ /\ mode # "live" /\ c # None /\ captures[c] # NoDir
          /\ Fail
       \/ /\ c # None => captures[c] = NoDir
          /\ Goto("statDest")
    /\ UNCHANGED <<fs, journal, counters, history>>

(* Finish an owned capture; or, in a live attempt only, capture the owned source
   again; or remove the empty private directory; or find nothing left to do. *)
RecoverCapture ==
    LET c == journal.capture
        captured == c # None /\ captures[c] \in Inodes
        present == c # None /\ captures[c] # NoDir IN
    /\ pc = "recCapture"
    /\ \/ /\ captured
          /\ cap' = c /\ allow' = FALSE /\ pc' = "verifyCaptured"
          /\ UNCHANGED <<mode, seen, sawSource, report>>
       \/ /\ ~captured /\ sawSource
          /\ \/ /\ mode = "live"
                /\ Matches(entry["source"], journal.ino, journal.sum)
                /\ allow' = TRUE
                /\ cap' = IF present THEN c ELSE None
                /\ pc' = IF present THEN "verifySource" ELSE "mkdtemp"
                /\ UNCHANGED <<mode, seen, sawSource, report>>
             \/ /\ mode # "live" \/ ~Matches(entry["source"], journal.ino, journal.sum)
                /\ Fail
       \/ /\ ~captured /\ ~sawSource /\ present
          /\ Goto("recRmdir")
       \/ /\ ~captured /\ ~sawSource /\ ~present
          /\ Goto("statDest")
    /\ UNCHANGED <<fs, journal, counters, history>>

RecoverRmdir ==
    /\ pc = "recRmdir"
    /\ captures' = [captures EXCEPT ![journal.capture] = NoDir]
    /\ Goto("statDest")
    /\ UNCHANGED <<entry, bytes, journal, counters, history>>

(***************************************************************************)
(* The environment.                                                        *)
(***************************************************************************)

(* The process dies: the journal and the filesystem survive. *)
Crash ==
    /\ pc # "idle"
    /\ crashes < MaxCrashes
    /\ crashes' = crashes + 1
    /\ pc' = "idle"
    /\ report' = "none"
    /\ UNCHANGED <<mode, seen, cap, allow, sawSource, fs, journal, attempts,
                   interference, history>>

(* Another program replaces a public name by a new file (an editor's atomic
   save, a sync agent); inode numbers of deleted files are reused. *)
ReplaceName(n) ==
    /\ interference < MaxInterference
    /\ interference' = interference + 1
    /\ \E i \in Inodes, s \in Checksums :
          /\ ~Named(i)
          /\ entry' = [entry EXCEPT ![n] = i]
          /\ bytes' = [bytes EXCEPT ![i] = s]
    /\ destTouched' = (destTouched \/ n = "destination")
    /\ UNCHANGED <<captures, journal, volatile, report, attempts, crashes, linkedBy>>

DeleteName(n) ==
    /\ interference < MaxInterference
    /\ interference' = interference + 1
    /\ entry[n] # None
    /\ entry' = [entry EXCEPT ![n] = None]
    /\ destTouched' = (destTouched \/ n = "destination")
    /\ UNCHANGED <<bytes, captures, journal, volatile, report, attempts, crashes, linkedBy>>

(* An editor that writes in place changes the inode under all its names. *)
WriteInPlace(n) ==
    /\ interference < MaxInterference
    /\ interference' = interference + 1
    /\ entry[n] # None
    /\ \E s \in Checksums \ {bytes[entry[n]]} :
          bytes' = [bytes EXCEPT ![entry[n]] = s]
    /\ UNCHANGED <<entry, captures, journal, volatile, report, attempts, crashes, history>>

(* The filesystem calls of a running operation. *)
Step ==
    \/ Load \/ Identify \/ WriteIntent \/ Link \/ VerifyDestination \/ WriteLinked
    \/ MakeCapture \/ WriteCaptureIntent \/ VerifySource \/ Rename
    \/ VerifyCaptured \/ Unlink \/ RemoveCapture
    \/ StatDestination \/ WriteCompleted
    \/ StatSource \/ StatOwnedDestination \/ IdentifyDestination
    \/ RecoverCapture \/ RecoverRmdir

Environment ==
    \/ Crash
    \/ \E n \in Names : ReplaceName(n) \/ DeleteName(n) \/ WriteInPlace(n)

Next == ExecuteAction \/ RecoverAction \/ Step \/ Environment

Spec == Init /\ [][Next]_vars

(* A live process runs on, and the command poll recovers unfinished actions
   again and again; nothing obliges a crash or another program to act. *)
FairSpec == Spec /\ WF_vars(Step) /\ WF_vars(RecoverAction)

(***************************************************************************)
(* Properties.                                                             *)
(***************************************************************************)

(* No step of the Bridge takes the last name away from a file, whatever other
   programs do to the public names between two of its filesystem calls: except
   that the file it is moving can go when another program removed the destination
   link after the Bridge verified it (moveWithoutReplacement, removeOwnedSource). *)
KeepsLastName ==
    \A i \in Inodes :
        (Named(i) /\ ~Named(i)' /\ interference' = interference)
            => (destTouched /\ i = journal.ino)
LastNameKept == [][KeepsLastName]_vars

(* A reported failure without effect (settleFailedPhysicalAction, or recovery of
   a command that never started) is true: no link was ever made for this owner
   and no file sits in a private capture. *)
NoEffectTruthful ==
    report = "NO_EFFECT" =>
        linkedBy = {} /\ \A d \in Dirs : captures[d] \notin Inodes

(* A completed journal means the whole move happened, over any sequence of
   crashes, recoveries and repeated attempts, as long as no other program
   interferes: the destination is the journaled file, the source name is gone and
   no private capture still holds bytes (completeMove is the last write). *)
CompletedExact ==
    journal.state = "COMPLETED" /\ interference = 0 =>
        /\ entry["destination"] = journal.ino
        /\ entry["source"] = None
        /\ \A d \in Dirs : captures[d] \notin Inodes

(* Bytes taken from the public name stay under the authority of the journal: a
   private capture that holds a file is the one the journal records. *)
CaptureRecorded ==
    \A d \in Dirs : captures[d] \in Inodes => HasJournal /\ journal.capture = d

(* The same as far as one live attempt reaches: no crash, recovery or other
   program makes the journal of journaledMove lose its first capture. *)
FirstCaptureRecorded == attempts <= 1 => CaptureRecorded

(* A captured source is finished: once the owned file sits in the recorded
   capture, repeated recovery completes the move, unless another program takes
   the destination, edits the file or puts a new file under the source name
   (recoverMove never needs a live attempt to finish a capture). *)
OwnedCaptureFinished ==
    (HasJournal /\ journal.capture # None /\ captures[journal.capture] = journal.ino)
      ~> (\/ journal.state = "COMPLETED"
          \/ ~Matches(entry["destination"], journal.ino, journal.sum)
          \/ entry["source"] # None)

(* The journal is exact: COMPLETED means all of the move, and the first capture
   stays recorded. *)
JournalExact == CompletedExact /\ FirstCaptureRecorded
=============================================================================
