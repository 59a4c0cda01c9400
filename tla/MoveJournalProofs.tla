------------------------- MODULE MoveJournalProofs -------------------------
(***************************************************************************)
(* Proofs about MoveJournal, for any number of inodes, checksums, capture  *)
(* directories, crashes, attempts and interfering programs.                *)
(***************************************************************************)
EXTENDS MoveJournal, TLAPS

(* Steps at which an intent has been written for this owner. *)
Journaled == Steps \ {"idle", "load", "identify", "intent"}

(* Steps at which the destination was verified and not yet left again. *)
Verified == {"linked", "mkdtemp", "capIntent", "verifySource", "rename",
             "verifyCaptured", "unlink", "recCapture"}

(* The journal is written before anything it must account for. *)
JournalFirst ==
    /\ pc \in Journaled => HasJournal
    /\ ~HasJournal => linkedBy = {} /\ \A d \in Dirs : captures[d] \notin Inodes
    /\ pc # "idle" => report = "none"
    /\ report = "NO_EFFECT" => ~HasJournal

(* What each step knows of the capture directory it works on. *)
CaptureState ==
    /\ pc \in {"capIntent", "rename", "rmdir"} => cap \in Dirs /\ captures[cap] = Empty
    /\ pc = "verifySource" => cap \in Dirs /\ captures[cap] # NoDir
    /\ pc = "verifyCaptured" => cap \in Dirs /\ captures[cap] \in Inodes
    /\ pc = "unlink" => cap \in Dirs /\ captures[cap] = journal.ino
    /\ pc = "recRmdir" => journal.capture \in Dirs /\ captures[journal.capture] = Empty

(* From its verification on, the destination is the journaled file, unless
   another program changed the name. *)
DestinationHeld ==
    /\ pc \in {"intent", "link", "verifyDest", "linked"} => seen.ino \in Inodes
    /\ pc \in {"link", "verifyDest", "linked"} => journal.ino = seen.ino
    /\ pc \in Verified /\ ~destTouched => entry["destination"] = journal.ino

IndInv == TypeOK /\ JournalFirst /\ CaptureState /\ DestinationHeld

(***************************************************************************)
(* Every step preserves the inductive invariant.                           *)
(***************************************************************************)

(* Starting an attempt only sets the report and the step. *)
LEMMA ExecuteActionStep == ASSUME IndInv, ExecuteAction PROVE IndInv'
<1>1. TypeOK'
  BY ConstantsAssumption DEF ExecuteAction, fs, history, IndInv, TypeOK,
     CaptureState, Steps, Reports, Names, Journals, Identity
<1>2. JournalFirst'
  BY ConstantsAssumption DEF ExecuteAction, fs, history, IndInv, TypeOK,
     JournalFirst, CaptureState, Journaled, Steps, HasJournal, Journals, Names
<1>3. CaptureState'
  BY ConstantsAssumption DEF ExecuteAction, fs, history, IndInv, TypeOK,
     CaptureState, Matches, Journals
<1>4. DestinationHeld'
  BY ConstantsAssumption DEF ExecuteAction, fs, history, IndInv, TypeOK,
     DestinationHeld, Verified, Matches, Names, Journals, Identity
<1>. QED
  BY <1>1, <1>2, <1>3, <1>4 DEF IndInv

(* A historical recovery reports from the journal or enters recoverMove. *)
LEMMA RecoverActionStep == ASSUME IndInv, RecoverAction PROVE IndInv'
<1>1. TypeOK'
  BY ConstantsAssumption DEF RecoverAction, fs, history, IndInv, TypeOK,
     CaptureState, Steps, Reports, Names, Journals, Identity
<1>2. JournalFirst'
  BY ConstantsAssumption DEF RecoverAction, fs, history, IndInv, TypeOK,
     JournalFirst, CaptureState, Journaled, Steps, HasJournal, Journals, Names
<1>3. CaptureState'
  BY ConstantsAssumption DEF RecoverAction, fs, history, IndInv, TypeOK,
     CaptureState, Matches, Journals
<1>4. DestinationHeld'
  BY ConstantsAssumption DEF RecoverAction, fs, history, IndInv, TypeOK,
     DestinationHeld, Verified, Matches, Names, Journals, Identity
<1>. QED
  BY <1>1, <1>2, <1>3, <1>4 DEF IndInv

(* Without a journal the attempt may still return without effect. *)
LEMMA LoadStep == ASSUME IndInv, Load PROVE IndInv'
<1>1. TypeOK'
  BY ConstantsAssumption DEF Load, Goto, Return, fs, history, counters, IndInv,
     TypeOK, CaptureState, Steps, Reports, Names, Journals, Identity
<1>2. JournalFirst'
  BY ConstantsAssumption DEF Load, Goto, Return, fs, history, counters, IndInv,
     TypeOK, JournalFirst, CaptureState, Journaled, Steps, HasJournal, Journals,
     Names
<1>3. CaptureState'
  BY ConstantsAssumption DEF Load, Goto, Return, fs, history, counters, IndInv,
     TypeOK, CaptureState, Matches, Journals
<1>4. DestinationHeld'
  BY ConstantsAssumption DEF Load, Goto, Return, fs, history, counters, IndInv,
     TypeOK, DestinationHeld, Verified, Matches, Names, Journals, Identity
<1>. QED
  BY <1>1, <1>2, <1>3, <1>4 DEF IndInv

(* The identity read here is the one the intent will record. *)
LEMMA IdentifyStep == ASSUME IndInv, Identify PROVE IndInv'
<1>1. TypeOK'
  BY ConstantsAssumption DEF Identify, Fail, Return, fs, history, counters, IndInv,
     TypeOK, CaptureState, Steps, Reports, Names, Journals, Identity, Approved
<1>2. JournalFirst'
  BY ConstantsAssumption DEF Identify, Fail, Return, fs, history, counters, IndInv,
     TypeOK, JournalFirst, CaptureState, Journaled, Steps, HasJournal, Journals,
     Names
<1>3. CaptureState'
  BY ConstantsAssumption DEF Identify, Fail, Return, fs, history, counters, IndInv,
     TypeOK, CaptureState, Matches, Journals
<1>4. DestinationHeld'
  BY ConstantsAssumption DEF Identify, Fail, Return, fs, history, counters, IndInv,
     TypeOK, DestinationHeld, Verified, Matches, Names, Journals, Identity, Approved
<1>. QED
  BY <1>1, <1>2, <1>3, <1>4 DEF IndInv

(* The intent takes the owner under its journal before the link. *)
LEMMA WriteIntentStep == ASSUME IndInv, WriteIntent PROVE IndInv'
<1>1. TypeOK'
  BY ConstantsAssumption DEF WriteIntent, Goto, fs, history, counters, IndInv,
     TypeOK, CaptureState, Steps, Reports, Names, Journals, Identity
<1>2. JournalFirst'
  BY ConstantsAssumption DEF WriteIntent, Goto, fs, history, counters, IndInv,
     TypeOK, JournalFirst, CaptureState, Journaled, Steps, HasJournal, Journals,
     Names
<1>3. CaptureState'
  BY ConstantsAssumption DEF WriteIntent, Goto, fs, history, counters, IndInv,
     TypeOK, CaptureState, Matches, Journals
<1>4. DestinationHeld'
  BY ConstantsAssumption DEF WriteIntent, Goto, fs, history, counters, IndInv,
     TypeOK, DestinationHeld, Verified, Matches, Names, Journals, Identity
<1>. QED
  BY <1>1, <1>2, <1>3, <1>4 DEF IndInv

(* The link falls under the intent that precedes it. *)
LEMMA LinkStep == ASSUME IndInv, Link PROVE IndInv'
<1>1. TypeOK'
  BY ConstantsAssumption DEF Link, Fail, Goto, Return, counters, IndInv, TypeOK,
     CaptureState, Steps, Reports, Names, Journals, Identity
<1>2. JournalFirst'
  BY ConstantsAssumption DEF Link, Fail, Goto, Return, counters, IndInv, TypeOK,
     JournalFirst, CaptureState, Journaled, Steps, HasJournal, Journals, Names
<1>3. CaptureState'
  BY ConstantsAssumption DEF Link, Fail, Goto, Return, counters, IndInv, TypeOK,
     CaptureState, Matches, Journals
<1>4. DestinationHeld'
  BY ConstantsAssumption DEF Link, Fail, Goto, Return, counters, IndInv, TypeOK,
     DestinationHeld, Verified, Matches, Names, Journals, Identity
<1>. QED
  BY <1>1, <1>2, <1>3, <1>4 DEF IndInv

(* Verification establishes what DestinationHeld says of the later steps. *)
LEMMA VerifyDestinationStep == ASSUME IndInv, VerifyDestination PROVE IndInv'
<1>1. TypeOK'
  <2>1. destTouched' \in BOOLEAN
    BY DEF VerifyDestination, Fail, Goto, Return, fs, counters, IndInv, TypeOK
  <2>2. UNCHANGED <<fs, journal, counters, linkedBy, seen, cap, allow, sawSource>>
    BY DEF VerifyDestination, Fail, Goto, Return
  <2>3. pc' \in Steps /\ report' \in Reports /\ mode' \in {"live", "settle", "historical"}
    BY DEF VerifyDestination, Fail, Goto, Return, IndInv, TypeOK, Steps, Reports
  <2>. QED
    BY <2>1, <2>2, <2>3 DEF fs, counters, IndInv, TypeOK
<1>2. JournalFirst'
  BY ConstantsAssumption DEF VerifyDestination, Fail, Goto, Return, fs, counters,
     IndInv, TypeOK, JournalFirst, CaptureState, Journaled, Steps, HasJournal,
     Journals, Names
<1>3. CaptureState'
  BY ConstantsAssumption DEF VerifyDestination, Fail, Goto, Return, fs, counters,
     IndInv, TypeOK, CaptureState, Matches, Journals
<1>4. DestinationHeld'
  BY ConstantsAssumption DEF VerifyDestination, Fail, Goto, Return, fs, counters,
     IndInv, TypeOK, DestinationHeld, Verified, Matches, Names, Journals, Identity
<1>. QED
  BY <1>1, <1>2, <1>3, <1>4 DEF IndInv

(* LINKED keeps the identity the intent recorded. *)
LEMMA WriteLinkedStep == ASSUME IndInv, WriteLinked PROVE IndInv'
<1>1. TypeOK'
  BY ConstantsAssumption DEF WriteLinked, fs, history, counters, IndInv, TypeOK,
     CaptureState, Steps, Reports, Names, Journals, Identity
<1>2. JournalFirst'
  BY ConstantsAssumption DEF WriteLinked, fs, history, counters, IndInv, TypeOK,
     JournalFirst, CaptureState, Journaled, Steps, HasJournal, Journals, Names
<1>3. CaptureState'
  BY ConstantsAssumption DEF WriteLinked, fs, history, counters, IndInv, TypeOK,
     CaptureState, Matches, Journals
<1>4. DestinationHeld'
  BY ConstantsAssumption DEF WriteLinked, fs, history, counters, IndInv, TypeOK,
     DestinationHeld, Verified, Matches, Names, Journals, Identity
<1>. QED
  BY <1>1, <1>2, <1>3, <1>4 DEF IndInv

(* A new capture directory is empty. *)
LEMMA MakeCaptureStep == ASSUME IndInv, MakeCapture PROVE IndInv'
<1>1. TypeOK'
  BY ConstantsAssumption DEF MakeCapture, history, counters, IndInv, TypeOK,
     CaptureState, Steps, Reports, Names, Journals, Identity
<1>2. JournalFirst'
  BY ConstantsAssumption DEF MakeCapture, history, counters, IndInv, TypeOK,
     JournalFirst, CaptureState, Journaled, Steps, HasJournal, Journals, Names
<1>3. CaptureState'
  BY ConstantsAssumption DEF MakeCapture, history, counters, IndInv, TypeOK,
     CaptureState, Matches, Journals
<1>4. DestinationHeld'
  BY ConstantsAssumption DEF MakeCapture, history, counters, IndInv, TypeOK,
     DestinationHeld, Verified, Matches, Names, Journals, Identity
<1>. QED
  BY <1>1, <1>2, <1>3, <1>4 DEF IndInv

(* The capture is recorded before it holds anything. *)
LEMMA WriteCaptureIntentStep == ASSUME IndInv, WriteCaptureIntent PROVE IndInv'
<1>1. TypeOK'
  BY ConstantsAssumption DEF WriteCaptureIntent, Goto, fs, history, counters,
     IndInv, TypeOK, CaptureState, Steps, Reports, Names, Journals, Identity
<1>2. JournalFirst'
  BY ConstantsAssumption DEF WriteCaptureIntent, Goto, fs, history, counters,
     IndInv, TypeOK, JournalFirst, CaptureState, Journaled, Steps, HasJournal,
     Journals, Names
<1>3. CaptureState'
  BY ConstantsAssumption DEF WriteCaptureIntent, Goto, fs, history, counters,
     IndInv, TypeOK, CaptureState, Matches, Journals
<1>4. DestinationHeld'
  BY ConstantsAssumption DEF WriteCaptureIntent, Goto, fs, history, counters,
     IndInv, TypeOK, DestinationHeld, Verified, Matches, Names, Journals, Identity
<1>. QED
  BY <1>1, <1>2, <1>3, <1>4 DEF IndInv

(* An empty capture leads to the rename, a full one to its verification. *)
LEMMA VerifySourceStep == ASSUME IndInv, VerifySource PROVE IndInv'
<1>1. TypeOK'
  BY ConstantsAssumption DEF VerifySource, Fail, Goto, Return, fs, history,
     counters, IndInv, TypeOK, CaptureState, Steps, Reports, Names, Journals,
     Identity
<1>2. JournalFirst'
  BY ConstantsAssumption DEF VerifySource, Fail, Goto, Return, fs, history,
     counters, IndInv, TypeOK, JournalFirst, CaptureState, Journaled, Steps,
     HasJournal, Journals, Names
<1>3. CaptureState'
  BY ConstantsAssumption DEF VerifySource, Fail, Goto, Return, fs, history,
     counters, IndInv, TypeOK, CaptureState, Matches, Journals
<1>4. DestinationHeld'
  BY ConstantsAssumption DEF VerifySource, Fail, Goto, Return, fs, history,
     counters, IndInv, TypeOK, DestinationHeld, Verified, Matches, Names, Journals,
     Identity
<1>. QED
  BY <1>1, <1>2, <1>3, <1>4 DEF IndInv

(* The rename fills the empty capture with whatever the source name held. *)
LEMMA RenameStep == ASSUME IndInv, Rename PROVE IndInv'
<1>1. TypeOK'
  BY ConstantsAssumption DEF Rename, Fail, Goto, Return, history, counters, IndInv,
     TypeOK, CaptureState, Steps, Reports, Names, Journals, Identity
<1>2. JournalFirst'
  BY ConstantsAssumption DEF Rename, Fail, Goto, Return, history, counters, IndInv,
     TypeOK, JournalFirst, CaptureState, Journaled, Steps, HasJournal, Journals,
     Names
<1>3. CaptureState'
  BY ConstantsAssumption DEF Rename, Fail, Goto, Return, history, counters, IndInv,
     TypeOK, CaptureState, Matches, Journals, Names
<1>4. DestinationHeld'
  BY ConstantsAssumption DEF Rename, Fail, Goto, Return, history, counters, IndInv,
     TypeOK, DestinationHeld, Verified, Matches, Names, Journals, Identity
<1>. QED
  BY <1>1, <1>2, <1>3, <1>4 DEF IndInv

(* Only the journaled inode leads to the unlink. *)
LEMMA VerifyCapturedStep == ASSUME IndInv, VerifyCaptured PROVE IndInv'
<1>1. TypeOK'
  BY ConstantsAssumption DEF VerifyCaptured, Fail, Goto, Return, history, counters,
     IndInv, TypeOK, CaptureState, Steps, Reports, Names, Journals, Identity
<1>2. JournalFirst'
  BY ConstantsAssumption DEF VerifyCaptured, Fail, Goto, Return, history, counters,
     IndInv, TypeOK, JournalFirst, CaptureState, Journaled, Steps, HasJournal,
     Journals, Names
<1>3. CaptureState'
  BY ConstantsAssumption DEF VerifyCaptured, Fail, Goto, Return, history, counters,
     IndInv, TypeOK, CaptureState, Matches, Journals
<1>4. DestinationHeld'
  BY ConstantsAssumption DEF VerifyCaptured, Fail, Goto, Return, history, counters,
     IndInv, TypeOK, DestinationHeld, Verified, Matches, Names, Journals, Identity
<1>. QED
  BY <1>1, <1>2, <1>3, <1>4 DEF IndInv

(* After the unlink the capture is empty. *)
LEMMA UnlinkStep == ASSUME IndInv, Unlink PROVE IndInv'
<1>1. TypeOK'
  BY ConstantsAssumption DEF Unlink, Goto, history, counters, IndInv, TypeOK,
     CaptureState, Steps, Reports, Names, Journals, Identity
<1>2. JournalFirst'
  BY ConstantsAssumption DEF Unlink, Goto, history, counters, IndInv, TypeOK,
     JournalFirst, CaptureState, Journaled, Steps, HasJournal, Journals, Names
<1>3. CaptureState'
  BY ConstantsAssumption DEF Unlink, Goto, history, counters, IndInv, TypeOK,
     CaptureState, Matches, Journals
<1>4. DestinationHeld'
  BY ConstantsAssumption DEF Unlink, Goto, history, counters, IndInv, TypeOK,
     DestinationHeld, Verified, Matches, Names, Journals, Identity
<1>. QED
  BY <1>1, <1>2, <1>3, <1>4 DEF IndInv

(* The emptied capture directory goes. *)
LEMMA RemoveCaptureStep == ASSUME IndInv, RemoveCapture PROVE IndInv'
<1>1. TypeOK'
  BY ConstantsAssumption DEF RemoveCapture, Goto, history, counters, IndInv, TypeOK,
     CaptureState, Steps, Reports, Names, Journals, Identity
<1>2. JournalFirst'
  BY ConstantsAssumption DEF RemoveCapture, Goto, history, counters, IndInv, TypeOK,
     JournalFirst, CaptureState, Journaled, Steps, HasJournal, Journals, Names
<1>3. CaptureState'
  BY ConstantsAssumption DEF RemoveCapture, Goto, history, counters, IndInv, TypeOK,
     CaptureState, Matches, Journals
<1>4. DestinationHeld'
  BY ConstantsAssumption DEF RemoveCapture, Goto, history, counters, IndInv, TypeOK,
     DestinationHeld, Verified, Matches, Names, Journals, Identity
<1>. QED
  BY <1>1, <1>2, <1>3, <1>4 DEF IndInv

(* completeMove looks at the destination before its last write. *)
LEMMA StatDestinationStep == ASSUME IndInv, StatDestination PROVE IndInv'
<1>1. TypeOK'
  BY ConstantsAssumption DEF StatDestination, Fail, Goto, Return, fs, history,
     counters, IndInv, TypeOK, CaptureState, Steps, Reports, Names, Journals,
     Identity
<1>2. JournalFirst'
  BY ConstantsAssumption DEF StatDestination, Fail, Goto, Return, fs, history,
     counters, IndInv, TypeOK, JournalFirst, CaptureState, Journaled, Steps,
     HasJournal, Journals, Names
<1>3. CaptureState'
  BY ConstantsAssumption DEF StatDestination, Fail, Goto, Return, fs, history,
     counters, IndInv, TypeOK, CaptureState, Matches, Journals
<1>4. DestinationHeld'
  BY ConstantsAssumption DEF StatDestination, Fail, Goto, Return, fs, history,
     counters, IndInv, TypeOK, DestinationHeld, Verified, Matches, Names, Journals,
     Identity
<1>. QED
  BY <1>1, <1>2, <1>3, <1>4 DEF IndInv

(* COMPLETED keeps the journaled identity. *)
LEMMA WriteCompletedStep == ASSUME IndInv, WriteCompleted PROVE IndInv'
<1>1. TypeOK'
  BY ConstantsAssumption DEF WriteCompleted, Return, fs, history, counters, IndInv,
     TypeOK, CaptureState, Steps, Reports, Names, Journals, Identity
<1>2. JournalFirst'
  BY ConstantsAssumption DEF WriteCompleted, Return, fs, history, counters, IndInv,
     TypeOK, JournalFirst, CaptureState, Journaled, Steps, HasJournal, Journals,
     Names
<1>3. CaptureState'
  BY ConstantsAssumption DEF WriteCompleted, Return, fs, history, counters, IndInv,
     TypeOK, CaptureState, Matches, Journals
<1>4. DestinationHeld'
  BY ConstantsAssumption DEF WriteCompleted, Return, fs, history, counters, IndInv,
     TypeOK, DestinationHeld, Verified, Matches, Names, Journals, Identity
<1>. QED
  BY <1>1, <1>2, <1>3, <1>4 DEF IndInv

(* Recovery starts with a look at the source name. *)
LEMMA StatSourceStep == ASSUME IndInv, StatSource PROVE IndInv'
<1>1. TypeOK'
  BY ConstantsAssumption DEF StatSource, fs, history, counters, IndInv, TypeOK,
     CaptureState, Steps, Reports, Names, Journals, Identity
<1>2. JournalFirst'
  BY ConstantsAssumption DEF StatSource, fs, history, counters, IndInv, TypeOK,
     JournalFirst, CaptureState, Journaled, Steps, HasJournal, Journals, Names
<1>3. CaptureState'
  BY ConstantsAssumption DEF StatSource, fs, history, counters, IndInv, TypeOK,
     CaptureState, Matches, Journals
<1>4. DestinationHeld'
  BY ConstantsAssumption DEF StatSource, fs, history, counters, IndInv, TypeOK,
     DestinationHeld, Verified, Matches, Names, Journals, Identity
<1>. QED
  BY <1>1, <1>2, <1>3, <1>4 DEF IndInv

(* A missing destination proves nothing. *)
LEMMA StatOwnedDestinationStep == ASSUME IndInv, StatOwnedDestination PROVE IndInv'
<1>1. TypeOK'
  BY ConstantsAssumption DEF StatOwnedDestination, Goto, Unproved, Return, fs,
     history, counters, IndInv, TypeOK, CaptureState, Steps, Reports, Names,
     Journals, Identity
<1>2. JournalFirst'
  BY ConstantsAssumption DEF StatOwnedDestination, Goto, Unproved, Return, fs,
     history, counters, IndInv, TypeOK, JournalFirst, CaptureState, Journaled,
     Steps, HasJournal, Journals, Names
<1>3. CaptureState'
  BY ConstantsAssumption DEF StatOwnedDestination, Goto, Unproved, Return, fs,
     history, counters, IndInv, TypeOK, CaptureState, Matches, Journals
<1>4. DestinationHeld'
  BY ConstantsAssumption DEF StatOwnedDestination, Goto, Unproved, Return, fs,
     history, counters, IndInv, TypeOK, DestinationHeld, Verified, Matches, Names,
     Journals, Identity
<1>. QED
  BY <1>1, <1>2, <1>3, <1>4 DEF IndInv

(* Recovery verifies the destination again before it touches a capture. *)
LEMMA IdentifyDestinationStep == ASSUME IndInv, IdentifyDestination PROVE IndInv'
<1>1. TypeOK'
  <2>1. destTouched' \in BOOLEAN
    BY DEF IdentifyDestination, Fail, Goto, Unproved, Return, fs, counters, IndInv,
       TypeOK
  <2>2. UNCHANGED <<fs, journal, counters, linkedBy, seen, cap, allow, sawSource>>
    BY DEF IdentifyDestination, Fail, Goto, Unproved, Return
  <2>3. pc' \in Steps /\ report' \in Reports /\ mode' \in {"live", "settle", "historical"}
    BY DEF IdentifyDestination, Fail, Goto, Unproved, Return, IndInv, TypeOK, Steps,
       Reports
  <2>. QED
    BY <2>1, <2>2, <2>3 DEF fs, counters, IndInv, TypeOK
<1>2. JournalFirst'
  BY ConstantsAssumption DEF IdentifyDestination, Fail, Goto, Unproved, Return, fs,
     counters, IndInv, TypeOK, JournalFirst, CaptureState, Journaled, Steps,
     HasJournal, Journals, Names
<1>3. CaptureState'
  BY ConstantsAssumption DEF IdentifyDestination, Fail, Goto, Unproved, Return, fs,
     counters, IndInv, TypeOK, CaptureState, Matches, Journals
<1>4. DestinationHeld'
  BY ConstantsAssumption DEF IdentifyDestination, Fail, Goto, Unproved, Return, fs,
     counters, IndInv, TypeOK, DestinationHeld, Verified, Matches, Names, Journals,
     Identity
<1>. QED
  BY <1>1, <1>2, <1>3, <1>4 DEF IndInv

(* Recovery continues with the capture the journal records, or with a new one. *)
LEMMA RecoverCaptureStep == ASSUME IndInv, RecoverCapture PROVE IndInv'
<1>1. TypeOK'
  <2>1. allow' \in BOOLEAN
    BY DEF RecoverCapture, Fail, Goto, Return, fs, history, counters, IndInv, TypeOK
  <2>2. UNCHANGED <<fs, journal, counters, history, seen, sawSource>>
    BY DEF RecoverCapture, Fail, Goto, Return
  <2>3. pc' \in Steps /\ report' \in Reports /\ mode' \in {"live", "settle", "historical"}
    BY DEF RecoverCapture, Fail, Goto, Return, IndInv, TypeOK, Steps, Reports
  <2>4. cap' \in Dirs \cup {None}
    BY DEF RecoverCapture, Fail, Goto, Return, IndInv, TypeOK, Journals
  <2>. QED
    BY <2>1, <2>2, <2>3, <2>4 DEF fs, counters, history, IndInv, TypeOK
<1>2. JournalFirst'
  BY ConstantsAssumption DEF RecoverCapture, Fail, Goto, Return, fs, history,
     counters, IndInv, TypeOK, JournalFirst, CaptureState, Journaled, Steps,
     HasJournal, Journals, Names
<1>3. CaptureState'
  BY ConstantsAssumption DEF RecoverCapture, Fail, Goto, Return, fs, history,
     counters, IndInv, TypeOK, CaptureState, Matches, Journals
<1>4. DestinationHeld'
  BY ConstantsAssumption DEF RecoverCapture, Fail, Goto, Return, fs, history,
     counters, IndInv, TypeOK, DestinationHeld, Verified, Matches, Names, Journals,
     Identity
<1>. QED
  BY <1>1, <1>2, <1>3, <1>4 DEF IndInv

(* Recovery removes an empty capture directory. *)
LEMMA RecoverRmdirStep == ASSUME IndInv, RecoverRmdir PROVE IndInv'
<1>1. TypeOK'
  BY ConstantsAssumption DEF RecoverRmdir, Goto, history, counters, IndInv, TypeOK,
     CaptureState, Steps, Reports, Names, Journals, Identity
<1>2. JournalFirst'
  BY ConstantsAssumption DEF RecoverRmdir, Goto, history, counters, IndInv, TypeOK,
     JournalFirst, CaptureState, Journaled, Steps, HasJournal, Journals, Names
<1>3. CaptureState'
  BY ConstantsAssumption DEF RecoverRmdir, Goto, history, counters, IndInv, TypeOK,
     CaptureState, Matches, Journals
<1>4. DestinationHeld'
  BY ConstantsAssumption DEF RecoverRmdir, Goto, history, counters, IndInv, TypeOK,
     DestinationHeld, Verified, Matches, Names, Journals, Identity
<1>. QED
  BY <1>1, <1>2, <1>3, <1>4 DEF IndInv

(* A crash loses the step, not the journal. *)
LEMMA CrashStep == ASSUME IndInv, Crash PROVE IndInv'
<1>1. TypeOK'
  BY ConstantsAssumption DEF Crash, fs, history, IndInv, TypeOK, CaptureState,
     Steps, Reports, Names, Journals, Identity
<1>2. JournalFirst'
  BY ConstantsAssumption DEF Crash, fs, history, IndInv, TypeOK, JournalFirst,
     CaptureState, Journaled, Steps, HasJournal, Journals, Names
<1>3. CaptureState'
  BY ConstantsAssumption DEF Crash, fs, history, IndInv, TypeOK, CaptureState,
     Matches, Journals
<1>4. DestinationHeld'
  BY ConstantsAssumption DEF Crash, fs, history, IndInv, TypeOK, DestinationHeld,
     Verified, Matches, Names, Journals, Identity
<1>. QED
  BY <1>1, <1>2, <1>3, <1>4 DEF IndInv

(* Another program's new file: the destination counts as touched. *)
LEMMA ReplaceNameStep == ASSUME IndInv, NEW n \in Names, ReplaceName(n) PROVE IndInv'
<1>1. TypeOK'
  BY ConstantsAssumption DEF ReplaceName, volatile, IndInv, TypeOK, Names
<1>2. JournalFirst'
  BY DEF ReplaceName, volatile, IndInv, JournalFirst, HasJournal
<1>3. CaptureState'
  BY DEF ReplaceName, volatile, IndInv, CaptureState
<1>4. DestinationHeld'
  BY DEF ReplaceName, volatile, IndInv, TypeOK, DestinationHeld, Names
<1>. QED
  BY <1>1, <1>2, <1>3, <1>4 DEF IndInv

(* Another program's removal: the destination counts as touched. *)
LEMMA DeleteNameStep == ASSUME IndInv, NEW n \in Names, DeleteName(n) PROVE IndInv'
<1>1. TypeOK'
  BY ConstantsAssumption DEF DeleteName, volatile, IndInv, TypeOK, Names
<1>2. JournalFirst'
  BY DEF DeleteName, volatile, IndInv, JournalFirst, HasJournal
<1>3. CaptureState'
  BY DEF DeleteName, volatile, IndInv, CaptureState
<1>4. DestinationHeld'
  BY DEF DeleteName, volatile, IndInv, TypeOK, DestinationHeld, Names
<1>. QED
  BY <1>1, <1>2, <1>3, <1>4 DEF IndInv

(* Another program's edit changes bytes and no name. *)
LEMMA WriteInPlaceStep == ASSUME IndInv, NEW n \in Names, WriteInPlace(n) PROVE IndInv'
<1>1. TypeOK'
  BY ConstantsAssumption DEF WriteInPlace, history, volatile, IndInv, TypeOK, Names
<1>2. JournalFirst'
  BY DEF WriteInPlace, history, volatile, IndInv, JournalFirst, HasJournal
<1>3. CaptureState'
  BY DEF WriteInPlace, history, volatile, IndInv, CaptureState
<1>4. DestinationHeld'
  BY DEF WriteInPlace, history, volatile, IndInv, TypeOK, DestinationHeld, Names
<1>. QED
  BY <1>1, <1>2, <1>3, <1>4 DEF IndInv

(***************************************************************************)
(* The theorems.                                                           *)
(***************************************************************************)

(* The invariant holds before the first call. *)
LEMMA InitInv == Init => IndInv
<1>. SUFFICES ASSUME Init PROVE IndInv
  OBVIOUS
<1>1. TypeOK
  <2>1. /\ entry \in [Names -> Inodes \cup {None}]
        /\ bytes \in [Inodes -> Checksums]
        /\ captures \in [Dirs -> Inodes \cup {NoDir, Empty}]
    BY DEF Init
  <2>2. journal \in Journals /\ seen \in Identity
    BY ConstantsAssumption DEF Init, NoJournal, NoIdentity, Journals, Identity
  <2>3. pc \in Steps /\ mode \in {"live", "settle", "historical"} /\ report \in Reports
    BY DEF Init, Steps, Reports
  <2>4. cap \in Dirs \cup {None} /\ linkedBy \subseteq Inodes
    BY DEF Init
  <2>5. allow \in BOOLEAN /\ sawSource \in BOOLEAN /\ destTouched \in BOOLEAN
    BY DEF Init
  <2>6. /\ attempts \in 0..MaxAttempts
        /\ crashes \in 0..MaxCrashes
        /\ interference \in 0..MaxInterference
    BY ConstantsAssumption DEF Init
  <2>. QED
    BY <2>1, <2>2, <2>3, <2>4, <2>5, <2>6 DEF TypeOK
<1>2. JournalFirst
  BY ConstantsAssumption DEF Init, JournalFirst, Journaled, HasJournal, NoJournal
<1>3. CaptureState /\ DestinationHeld
  BY DEF Init, CaptureState, DestinationHeld, Verified
<1>. QED
  BY <1>1, <1>2, <1>3 DEF IndInv

(* The invariant is preserved by every step and by stuttering. *)
LEMMA NextInv == IndInv /\ [Next]_vars => IndInv'
<1>. SUFFICES ASSUME IndInv, [Next]_vars PROVE IndInv'
  OBVIOUS
<1>1. CASE UNCHANGED vars
  BY <1>1 DEF vars, IndInv, TypeOK, JournalFirst, HasJournal, CaptureState, DestinationHeld
<1>2. CASE Next
  BY <1>2, ExecuteActionStep, RecoverActionStep, LoadStep, IdentifyStep, WriteIntentStep,
     LinkStep, VerifyDestinationStep, WriteLinkedStep, MakeCaptureStep,
     WriteCaptureIntentStep, VerifySourceStep, RenameStep, VerifyCapturedStep,
     UnlinkStep, RemoveCaptureStep, StatDestinationStep, WriteCompletedStep,
     StatSourceStep, StatOwnedDestinationStep, IdentifyDestinationStep,
     RecoverCaptureStep, RecoverRmdirStep, CrashStep, ReplaceNameStep,
     DeleteNameStep, WriteInPlaceStep
     DEF Next, Step, Environment
<1>. QED
  BY <1>1, <1>2

(* The inductive invariant holds in every reachable state. *)
THEOREM Invariance == Spec => []IndInv
  BY InitInv, NextInv, PTL DEF Spec

(* Type correctness of the journaled move.  It needs CaptureState: a restored
   public name is an inode only because a capture under verification holds one. *)
THEOREM TypeCorrect == Spec => []TypeOK
<1>1. IndInv => TypeOK
  BY DEF IndInv
<1>. QED
  BY <1>1, Invariance, PTL

(* A failure reported without effect is true, for every interleaving of crashes,
   recoveries, repeated attempts and other programs. *)
THEOREM NoEffectIsTrue == Spec => []NoEffectTruthful
<1>1. IndInv => NoEffectTruthful
  BY DEF IndInv, JournalFirst, NoEffectTruthful
<1>. QED
  BY <1>1, Invariance, PTL

(* The steps that change a name: only the unlink takes one away for good. *)
LEMMA StepKeepsLastName == IndInv /\ [Next]_vars => [KeepsLastName]_vars
<1>. SUFFICES ASSUME IndInv, Next, NEW i \in Inodes,
                     Named(i), ~Named(i)', interference' = interference
              PROVE  destTouched /\ i = journal.ino
  BY DEF KeepsLastName
<1>. USE ConstantsAssumption DEF IndInv, TypeOK, Names
<1>1. ~UNCHANGED <<entry, captures>>
  BY DEF Named
<1>2. CASE Link
  BY <1>2 DEF Link, Named
<1>3. CASE MakeCapture
  BY <1>3 DEF MakeCapture, Named
<1>4. CASE Rename
  BY <1>4 DEF Rename, Named, CaptureState
<1>5. CASE VerifyCaptured
  BY <1>5 DEF VerifyCaptured, Named
<1>6. CASE Unlink
  <2>1. cap \in Dirs /\ captures[cap] = journal.ino
    BY <1>6 DEF Unlink, CaptureState
  <2>2. captures' = [captures EXCEPT ![cap] = Empty] /\ entry' = entry
    BY <1>6 DEF Unlink
  <2>3. i = journal.ino
    BY <2>1, <2>2 DEF Named
  <2>4. destTouched
    BY <1>6, <2>2, <2>3 DEF Unlink, DestinationHeld, Verified, Named
  <2>. QED
    BY <2>3, <2>4
<1>7. CASE RemoveCapture
  BY <1>7 DEF RemoveCapture, Named, CaptureState
<1>8. CASE RecoverRmdir
  BY <1>8 DEF RecoverRmdir, Named, CaptureState
<1>9. CASE ExecuteAction \/ RecoverAction \/ Load \/ Identify \/ WriteIntent
  BY <1>1, <1>9 DEF ExecuteAction, RecoverAction, Load, Identify, WriteIntent, fs
<1>10. CASE VerifyDestination \/ WriteLinked \/ WriteCaptureIntent \/ VerifySource
  BY <1>1, <1>10 DEF VerifyDestination, WriteLinked, WriteCaptureIntent, VerifySource, fs
<1>11. CASE StatDestination \/ WriteCompleted \/ StatSource \/ StatOwnedDestination
  BY <1>1, <1>11 DEF StatDestination, WriteCompleted, StatSource, StatOwnedDestination, fs
<1>12. CASE IdentifyDestination \/ RecoverCapture \/ Crash
  BY <1>1, <1>12 DEF IdentifyDestination, RecoverCapture, Crash, fs
<1>13. CASE \E n \in Names : ReplaceName(n) \/ DeleteName(n) \/ WriteInPlace(n)
  BY <1>13 DEF ReplaceName, DeleteName, WriteInPlace
<1>. QED
  BY <1>2, <1>3, <1>4, <1>5, <1>6, <1>7, <1>8, <1>9, <1>10, <1>11, <1>12, <1>13
     DEF Next, Step, Environment

(* No step of the Bridge destroys the last name of a file, except of the file it
   moves when another program removed the verified destination. *)
THEOREM NoFileLost == Spec => LastNameKept
  BY Invariance, StepKeepsLastName, PTL DEF Spec, LastNameKept

-----------------------------------------------------------------------------
(* JournalExact: the journal keeps its first capture, and COMPLETED means all
   of the move. *)

NoCapture == \A d \in Dirs : captures[d] \notin Inodes
Recovering == {"recSource", "recDest", "recIdentity", "recCapture", "recRmdir"}

(* Within the first live attempt nothing is captured before the journal names
   the capture, and no recovery starts the move over. *)
FirstInv ==
    attempts <= 1 =>
        /\ attempts = 0 => pc = "idle" /\ ~HasJournal
        /\ pc \in {"load", "identify", "intent"} => ~HasJournal
        /\ pc \in {"link", "verifyDest", "linked", "mkdtemp", "capIntent", "verifySource", "rename"} => NoCapture
        /\ pc \in {"rename", "verifySource"} => cap = journal.capture
        /\ pc \in Recovering => mode # "live"
        /\ CaptureRecorded

(* Where the file is, as long as no other program interferes: nothing happened,
   or it has both names, or its source name is captured, or it moved. *)
Untouched == entry["source"] \in Inodes /\ entry["destination"] # entry["source"] /\ NoCapture
             /\ (HasJournal => journal.ino = entry["source"])
Both == HasJournal /\ entry["source"] = journal.ino /\ entry["destination"] = journal.ino /\ NoCapture
Taken == /\ HasJournal /\ entry["source"] = None /\ entry["destination"] = journal.ino
         /\ journal.capture \in Dirs /\ captures[journal.capture] = journal.ino
         /\ \A d \in Dirs : d # journal.capture => captures[d] \notin Inodes
Moved == HasJournal /\ entry["source"] = None /\ entry["destination"] = journal.ino /\ NoCapture

(* What each step of the move, and of its recovery, finds. *)
QuietInv ==
    interference = 0 =>
        /\ Untouched \/ Both \/ Taken \/ Moved
        /\ HasJournal => journal.ino \in Inodes /\ journal.sum = bytes[journal.ino]
        /\ journal.state = "COMPLETED" => Moved
        /\ pc \in {"identify", "intent", "link"} => Untouched
        /\ pc \in {"intent", "link", "verifyDest", "linked"} =>
             seen.ino = entry["source"] /\ seen.sum = bytes[seen.ino]
        /\ pc \in {"verifyDest", "linked", "mkdtemp", "capIntent", "verifySource", "rename"} => Both
        /\ pc \in {"verifySource", "rename", "verifyCaptured", "unlink"} => cap = journal.capture
        /\ pc \in {"verifyCaptured", "unlink"} => Taken
        /\ pc \in {"rmdir", "statDest", "writeDone", "recRmdir"} => Moved
        /\ pc \in {"recDest", "recIdentity", "recCapture"} => (sawSource <=> entry["source"] # None)
        /\ pc = "recCapture" => entry["destination"] = journal.ino

(* Every step keeps what is known of a journal before its link. *)
LEMMA FirstStep == ASSUME IndInv, FirstInv, [Next]_vars PROVE FirstInv'
<1> USE ConstantsAssumption DEF IndInv, TypeOK, Names, fs, history, counters, JournalFirst,
        CaptureState, Journaled, HasJournal, Journals, Steps, FirstInv, NoCapture,
        CaptureRecorded, Recovering
<1>1. CASE ExecuteAction
  BY <1>1 DEF ExecuteAction
<1>2. CASE RecoverAction
  BY <1>2 DEF RecoverAction
<1>3. CASE Load
  BY <1>3 DEF Load, Return, Goto
<1>4. CASE Identify
  BY <1>4 DEF Identify, Approved, Fail, Return
<1>5. CASE WriteIntent
  BY <1>5 DEF WriteIntent, Goto
<1>6. CASE Link
  BY <1>6 DEF Link, Goto, Fail, Return
<1>7. CASE VerifyDestination
  BY <1>7 DEF VerifyDestination, Goto, Fail, Return
<1>8. CASE WriteLinked
  BY <1>8 DEF WriteLinked
<1>9. CASE MakeCapture
  BY <1>9 DEF MakeCapture
<1>10. CASE WriteCaptureIntent
  BY <1>10 DEF WriteCaptureIntent, Goto
<1>11. CASE VerifySource
  BY <1>11 DEF VerifySource, Goto, Fail, Return
<1>12. CASE Rename
  BY <1>12 DEF Rename, Goto, Fail, Return
<1>13. CASE VerifyCaptured
  BY <1>13 DEF VerifyCaptured, Goto, Fail, Return
<1>14. CASE Unlink
  BY <1>14 DEF Unlink, Goto
<1>15. CASE RemoveCapture
  BY <1>15 DEF RemoveCapture, Goto
<1>16. CASE StatDestination
  BY <1>16 DEF StatDestination, Goto, Fail, Return
<1>17. CASE WriteCompleted
  BY <1>17 DEF WriteCompleted, Return
<1>18. CASE StatSource
  BY <1>18 DEF StatSource
<1>19. CASE StatOwnedDestination
  BY <1>19 DEF StatOwnedDestination, Unproved, Goto, Return
<1>20. CASE IdentifyDestination
  BY <1>20 DEF IdentifyDestination, Unproved, Goto, Fail, Return
<1>21. CASE RecoverCapture
  BY <1>21 DEF RecoverCapture, Goto, Fail, Return
<1>22. CASE RecoverRmdir
  BY <1>22 DEF RecoverRmdir, Goto
<1>23. CASE Crash
  BY <1>23 DEF Crash
<1>24. CASE \E n \in Names : ReplaceName(n) \/ DeleteName(n) \/ WriteInPlace(n)
  BY <1>24 DEF ReplaceName, DeleteName, WriteInPlace, volatile
<1>25. CASE UNCHANGED vars
  BY <1>25, SMTT(20) DEF vars
<1> QED
  BY <1>1, <1>2, <1>3, <1>4, <1>5, <1>6, <1>7, <1>8, <1>9, <1>10, <1>11, <1>12, <1>13, <1>14,
     <1>15, <1>16, <1>17, <1>18, <1>19, <1>20, <1>21, <1>22, <1>23, <1>24, <1>25 DEF Next, Step,
     Environment

(* Every step keeps what is known of an action nobody works on. *)
LEMMA QuietStep == ASSUME IndInv, QuietInv, [Next]_vars PROVE QuietInv'
<1> USE ConstantsAssumption DEF IndInv, TypeOK, Names, fs, history, counters, JournalFirst,
        CaptureState, Journaled, HasJournal, Journals, Steps, Identity, Matches, QuietInv,
        Untouched, Both, Taken, Moved, NoCapture
<1>1. CASE ExecuteAction
  BY <1>1 DEF ExecuteAction
<1>2. CASE RecoverAction
  BY <1>2 DEF RecoverAction
<1>3. CASE Load
  BY <1>3 DEF Load, Return, Goto
<1>4. CASE Identify
  BY <1>4 DEF Identify, Approved, Fail, Return
<1>5. CASE WriteIntent
  BY <1>5 DEF WriteIntent, Goto
<1>6. CASE Link
  BY <1>6 DEF Link, Goto, Fail, Return
<1>7. CASE VerifyDestination
  BY <1>7 DEF VerifyDestination, Goto, Fail, Return
<1>8. CASE WriteLinked
  BY <1>8 DEF WriteLinked
<1>9. CASE MakeCapture
  BY <1>9 DEF MakeCapture
<1>10. CASE WriteCaptureIntent
  BY <1>10 DEF WriteCaptureIntent, Goto
<1>11. CASE VerifySource
  BY <1>11 DEF VerifySource, Goto, Fail, Return
<1>12. CASE Rename
  BY <1>12 DEF Rename, Goto, Fail, Return
<1>13. CASE VerifyCaptured
  BY <1>13 DEF VerifyCaptured, Goto, Fail, Return
<1>14. CASE Unlink
  BY <1>14 DEF Unlink, Goto
<1>15. CASE RemoveCapture
  BY <1>15 DEF RemoveCapture, Goto
<1>16. CASE StatDestination
  BY <1>16 DEF StatDestination, Goto, Fail, Return
<1>17. CASE WriteCompleted
  BY <1>17 DEF WriteCompleted, Return
<1>18. CASE StatSource
  BY <1>18 DEF StatSource
<1>19. CASE StatOwnedDestination
  BY <1>19 DEF StatOwnedDestination, Unproved, Goto, Return
<1>20. CASE IdentifyDestination
  BY <1>20 DEF IdentifyDestination, Unproved, Goto, Fail, Return
<1>21. CASE RecoverCapture
  BY <1>21 DEF RecoverCapture, Goto, Fail, Return
<1>22. CASE RecoverRmdir
  BY <1>22 DEF RecoverRmdir, Goto
<1>23. CASE Crash
  BY <1>23 DEF Crash
<1>24. CASE \E n \in Names : ReplaceName(n) \/ DeleteName(n) \/ WriteInPlace(n)
  BY <1>24 DEF ReplaceName, DeleteName, WriteInPlace, volatile
<1>25. CASE UNCHANGED vars
  BY <1>25 DEF vars
<1> QED
  BY <1>1, <1>2, <1>3, <1>4, <1>5, <1>6, <1>7, <1>8, <1>9, <1>10, <1>11, <1>12, <1>13, <1>14,
     <1>15, <1>16, <1>17, <1>18, <1>19, <1>20, <1>21, <1>22, <1>23, <1>24, <1>25 DEF Next, Step,
     Environment
(* Both hold before the first move. *)
LEMMA ExactInit == ASSUME Init PROVE FirstInv /\ QuietInv
<1>1. FirstInv
  BY ConstantsAssumption DEF Init, FirstInv, NoJournal, HasJournal, NoCapture, CaptureRecorded,
     Recovering
<1>2. QuietInv
  BY ConstantsAssumption DEF Init, QuietInv, NoJournal, HasJournal, Untouched, NoCapture, Names
<1> QED
  BY <1>1, <1>2

(* completeMove is the last write: as long as no other program interferes a
   COMPLETED journal means that the destination is the journaled file, the
   source name is gone and no private capture holds bytes, over any crashes,
   recoveries and attempts; and with at most one live attempt the journal never
   loses a capture, whatever other programs do. *)
THEOREM JournalIsExact == Spec => []JournalExact
<1>1. Init => IndInv /\ FirstInv /\ QuietInv
  BY InitInv, ExactInit
<1>2. (IndInv /\ FirstInv /\ QuietInv) /\ [Next]_vars => (IndInv /\ FirstInv /\ QuietInv)'
  BY NextInv, FirstStep, QuietStep
<1>3. IndInv /\ FirstInv /\ QuietInv => JournalExact
  BY DEF FirstInv, QuietInv, Moved, NoCapture, JournalExact, CompletedExact, FirstCaptureRecorded
<1> QED
  BY <1>1, <1>2, <1>3, PTL DEF Spec
=============================================================================
