------------------------------- MODULE Memory -------------------------------
(***************************************************************************)
(* Memory entries built from reviewed observations, corrected when a       *)
(* review is, and recovered when a build dies.                             *)
(*                                                                         *)
(*   src/lib/library/observation-sessions.ts (saveHumanDecision)           *)
(*   src/lib/library/memory.ts, memory-recovery.ts, memory-provenance.ts   *)
(*                                                                         *)
(* One memory key and the observations whose text may support it.  A       *)
(* build locks its observation and its sources and is one Serializable     *)
(* transaction, so one step; a build that fails leaves no row but the      *)
(* retry metadata.  The backfill reads in one step and attaches in another.*)
(* The definitions every specification has carry the module's name, so     *)
(* that ObservationProofs can extend this module and ScanProcessing.       *)
(***************************************************************************)
EXTENDS Integers, FiniteSets

CONSTANTS
    Observations,   \* latest observations of as many documents
    MaxDecisions,   \* bound: human decisions
    MaxIncidents    \* bound: failed builds, changes of the current files

ASSUME MemoryAssumption == IsFiniteSet(Observations) /\ MaxDecisions \in Nat /\ MaxIncidents \in Nat

VARIABLES
    review,     \* observation -> status, corrections, edited text, durable owner
    present,    \* observations whose file is in the latest snapshot of a readable root
    entry,      \* the MemoryEntry of the key and its MemorySearchSource rows
    retry,      \* observation -> generation-bound failures since its last decision
    found,      \* observation -> what a backfill that is running read of it
    overtaken,  \* history: sources attached from a text a decision had replaced
    used        \* uses of the bounds

memoryVars == <<review, present, entry, retry, found, overtaken, used>>

Reviewed == {"APPROVED", "MODIFIED", "REJECTED"}

MemoryTypeOK ==
    /\ review \in [Observations -> [status : Reviewed \cup {"OBSERVED"}, corrected : BOOLEAN,
                                    edited : BOOLEAN, memory : {"NONE", "PENDING", "COMPLETED"}]]
    /\ present \subseteq Observations
    /\ entry \in [status : {"NONE", "ACTIVE", "ARCHIVED"}, required : SUBSET Observations,
                  rows : SUBSET Observations, complete : BOOLEAN, count : 0..Cardinality(Observations),
                  checked : BOOLEAN]
    /\ retry \in [Observations -> 0..MaxIncidents]
    /\ found \in [Observations -> {"NONE", "READ", "STALE"}] /\ overtaken \subseteq Observations
    /\ used \in [decisions : 0..MaxDecisions, events : 0..MaxIncidents]

(* Some observations were approved, and the entry made from them, before an entry
   recorded the sources it requires: their review owes no build. *)
MemoryInit ==
    /\ \E old \in SUBSET Observations :
          /\ review = [o \in Observations |-> [status |-> IF o \in old THEN "APPROVED" ELSE "OBSERVED",
                                               corrected |-> FALSE, edited |-> FALSE, memory |-> "NONE"]]
          /\ entry = [status |-> IF old = {} THEN "NONE" ELSE "ACTIVE", required |-> {}, rows |-> {},
                      complete |-> FALSE, count |-> 0, checked |-> FALSE]
    /\ present = Observations
    /\ retry = [o \in Observations |-> 0]
    /\ found = [o \in Observations |-> "NONE"] /\ overtaken = {}
    /\ used = [decisions |-> 0, events |-> 0]

Decided == used.decisions < MaxDecisions /\ used' = [used EXCEPT !.decisions = @ + 1]
Incident == used.events < MaxIncidents /\ used' = [used EXCEPT !.events = @ + 1]

(* The text of every observation has the key until an edit replaces it. *)
Supports(o) == review[o].status = "MODIFIED" => review[o].edited
Approved(o) == review[o].status \in {"APPROVED", "MODIFIED"}

(* reviewedDocumentIsCurrent and eligibleMemoryObservationSql. *)
CurrentSource(o) == Approved(o) /\ o \in present
Eligible(o) == review[o].status = "REJECTED" \/ CurrentSource(o)

(***************************************************************************)
(* Human decisions.                                                        *)
(***************************************************************************)

(* Seeded fault: the invalidated entry loses its manifest count. *)
InvalidatedUncounted(o) ==
    IF o \in entry.rows THEN [entry EXCEPT !.complete = FALSE, !.count = -1] ELSE entry

(* invalidateCorrectedMemorySources. *)
Invalidated(o) ==
    IF entry.status = "ACTIVE" /\ entry.complete /\ o \in entry.rows
    THEN [entry EXCEPT !.complete = FALSE, !.checked = TRUE] ELSE entry

(* saveHumanDecision: the authority, the pending generation and the
   invalidation of what the correction withdraws commit together. *)
Decide(o, status, edited) ==
    LET corrects == status # "APPROVED" \/ review[o].status \in {"MODIFIED", "REJECTED"}
    IN  /\ Decided
        /\ review' = [review EXCEPT ![o] = [status |-> status, edited |-> edited, memory |-> "PENDING",
                                            corrected |-> @.corrected \/ status # "APPROVED"]]
        /\ entry' = IF corrects THEN Invalidated(o) ELSE entry
        /\ retry' = [retry EXCEPT ![o] = 0]
        /\ found' = [found EXCEPT ![o] = IF @ = "READ" THEN "STALE" ELSE @]
        /\ UNCHANGED <<present, overtaken>>

Approve(o) == Decide(o, "APPROVED", FALSE)
Modify(o) == \E edited \in BOOLEAN : Decide(o, "MODIFIED", edited)
Reject(o) == Decide(o, "REJECTED", FALSE)

(***************************************************************************)
(* buildMemoryInTransaction.                                               *)
(***************************************************************************)

Corrected(o) == review[o].status \in {"MODIFIED", "REJECTED"} \/ review[o].corrected

(* Seeded fault: only current observations support an entry that is corrected. *)
ApprovedSessionsCurrent(o) == {p \in Observations : CurrentSource(p)}

(* Approved observations that are current, and the sources o shares an entry
   with, current or not. *)
ApprovedSessions(o) ==
    {p \in Observations : CurrentSource(p)}
        \cup (IF Corrected(o) /\ entry.status = "ACTIVE" /\ o \in entry.rows
              THEN {p \in entry.rows : Approved(p)} ELSE {})

(* termCandidatesForSession over aggregateApprovedTerms: the sources of the
   candidate observation o makes for the key; {} when it makes none. *)
Candidate(o, sessions) ==
    LET shared == {p \in sessions : Supports(p)}
    IN  IF review[o].status = "REJECTED" \/ ~Supports(o) THEN {}
        ELSE {o} \cup (IF Cardinality(shared) >= 2 THEN shared ELSE {})

(* attachMemorySources: every source the entry requires must have a row and
   be current for the entry to be complete, and a manifest never shrinks. *)
Attached(e, candidate) ==
    LET ids == e.required \cup candidate
        covered == {p \in ids : CurrentSource(p)}
        rows == e.rows \cup covered
        complete == /\ ids # {} /\ ids \subseteq covered
                    /\ \A p \in rows : CurrentSource(p)
                    /\ Cardinality(rows) >= e.count
    IN  IF e.status # "ACTIVE" THEN e
        ELSE [e EXCEPT !.required = ids, !.rows = rows, !.complete = complete,
                       !.count = IF complete \/ Cardinality(rows) > e.count THEN Cardinality(rows) ELSE e.count]

(* Seeded fault: an entry with another source is left as it is. *)
ReconciledUnlessShared(o) ==
    IF entry.rows \ {o} # {} \/ entry.status # "ACTIVE" \/ o \notin entry.rows THEN entry
    ELSE [entry EXCEPT !.status = "ARCHIVED", !.complete = FALSE, !.checked = TRUE]

(* reconcileCorrectedMemory: the entry keeps the support that is left, or is
   archived with its evidence. *)
Reconciled(o) ==
    LET sessions == ApprovedSessions(o)
        sources == entry.required \cup entry.rows
        support == Candidate(o, sessions)
                     \cup UNION {Candidate(p, sessions) : p \in (sources \ {o}) \cap sessions}
    IN  IF entry.status # "ACTIVE" \/ o \notin sources THEN entry
        ELSE IF support = {} THEN [entry EXCEPT !.status = "ARCHIVED", !.complete = FALSE, !.checked = TRUE]
        ELSE IF entry.complete /\ support = sources THEN entry
        ELSE Attached([entry EXCEPT !.required = support, !.rows = @ \cap support, !.complete = FALSE,
                                    !.count = 0], support)

(* upsertMemoryCandidate, for an entry that is absent, archived or active. *)
Upserted(e, candidate) ==
    CASE e.status = "NONE" -> [e EXCEPT !.status = "ACTIVE", !.required = candidate]
      [] e.status = "ARCHIVED" -> [e EXCEPT !.status = "ACTIVE", !.required = candidate, !.rows = {},
                                            !.complete = FALSE, !.count = 0]
      [] OTHER -> [e EXCEPT !.required = @ \cup candidate,
                            !.complete = @ /\ candidate \subseteq e.required]

Built(o) ==
    LET candidate == Candidate(o, ApprovedSessions(o))
        kept == IF Corrected(o) THEN Reconciled(o) ELSE entry
    IN  IF candidate = {} THEN kept ELSE Attached(Upserted(kept, candidate), candidate)

(* reconcileObservationMemory, called by the decision's request, by a poll of
   the Bridge, by a page and by the scheduler: the generation is settled only
   while its source is eligible. *)
Settles(o) == review[o].memory = "PENDING" /\ Eligible(o)
BuildMemory(o) ==
    /\ review[o].status \in Reviewed
    /\ entry' = Built(o)
    /\ review' = IF Settles(o) THEN [review EXCEPT ![o].memory = "COMPLETED"] ELSE review
    /\ retry' = IF Settles(o) THEN [retry EXCEPT ![o] = 0] ELSE retry
    /\ overtaken' = overtaken \ {o}
    /\ UNCHANGED <<present, found, used>>

(* deferFailedOwner: a failure is counted against the exact generation. *)
BuildFails(o) ==
    /\ Settles(o) /\ Incident
    /\ retry' = [retry EXCEPT ![o] = @ + 1]
    /\ UNCHANGED <<review, present, entry, found, overtaken>>

(***************************************************************************)
(* backfillHistoricalMemorySearchSources.                                  *)
(***************************************************************************)

(* An entry whose evidence names one item that is still approved, and whose
   present text still produces that evidence: both are read, and compared,
   before any transaction. *)
Historical == entry.status = "ACTIVE" /\ ~entry.complete /\ ~entry.checked
FindSource(o) ==
    /\ Historical /\ entry.rows \subseteq {o}
    /\ Approved(o) /\ Supports(o) /\ found[o] = "NONE"
    /\ found' = [found EXCEPT ![o] = "READ"]
    /\ UNCHANGED <<review, present, entry, retry, overtaken, used>>

(* The transaction asks only whether the entry is active and the source current. *)
AttachFound(o) ==
    /\ found[o] # "NONE"
    /\ entry' = [Attached(entry, {o}) EXCEPT !.checked = TRUE]
    /\ found' = [found EXCEPT ![o] = "NONE"]
    /\ overtaken' = IF found[o] = "STALE" THEN overtaken \cup {o} ELSE overtaken
    /\ UNCHANGED <<review, present, retry, used>>

(* An entry of any other shape is marked, and not looked at again. *)
DismissEntry ==
    /\ Historical
    /\ entry' = [entry EXCEPT !.checked = TRUE]
    /\ UNCHANGED <<review, present, retry, found, overtaken, used>>

(* A file leaves the latest snapshot, its root its grant, or they return. *)
ChangeSource(o) ==
    /\ Incident
    /\ present' = IF o \in present THEN present \ {o} ELSE present \cup {o}
    /\ UNCHANGED <<review, entry, retry, found, overtaken>>

MemoryNext ==
    \/ DismissEntry
    \/ \E o \in Observations :
          \/ Approve(o) \/ Modify(o) \/ Reject(o) \/ BuildMemory(o) \/ BuildFails(o)
          \/ FindSource(o) \/ AttachFound(o) \/ ChangeSource(o)

MemorySpec == MemoryInit /\ [][MemoryNext]_memoryVars

(***************************************************************************)
(* Properties.                                                             *)
(***************************************************************************)

(* eligibleMemorySql: what Search and Ask may retrieve. *)
Retrievable ==
    /\ entry.status = "ACTIVE" /\ entry.complete
    /\ entry.rows # {} /\ entry.count = Cardinality(entry.rows)
    /\ \A o \in entry.rows : CurrentSource(o)

(* SYSTEM_INVARIANTS.md, AUTH-1, "MODIFY replaces the relevant machine meaning
   with the saved human text": once the corrections of its sources have been
   built, a retrievable entry has no source whose reviewed text no longer says
   it.  The backfill breaks it: the text it read may have been replaced, and the
   replacement built, when it attaches the source. *)
CorrectionsReconciled ==
    Retrievable /\ (\A o \in entry.rows : review[o].memory = "COMPLETED") =>
        \A o \in entry.rows : Supports(o)

(* memory.ts, reconcileCorrectedMemory: whatever builds, corrections and backfills
   interleave, the only such source is one a backfill attached after a decision
   had replaced the text it read, until the next build of that observation. *)
CorrectionsReconciledButOvertaken ==
    Retrievable /\ (\A o \in entry.rows : review[o].memory = "COMPLETED") =>
        \A o \in entry.rows : Supports(o) \/ o \in overtaken

(* memory.ts, attachMemorySources "Missing historical contributors cannot
   silently become a smaller manifest": a complete entry has a row for every
   source it requires. *)
ManifestWhole == entry.complete => entry.required \subseteq entry.rows /\ entry.count = Cardinality(entry.rows)

(* A retrievable entry rests on all of its sources and on what they still say. *)
ManifestSound == CorrectionsReconciledButOvertaken /\ ManifestWhole

(* memory.ts, reconcileCorrectedMemory: correcting one observation leaves an
   active entry, every required source of which has its row, the rows of all
   observations that a person approved and whose text still says it, also of
   those whose file is not current now.  (Where the corrected source has no row
   the others are not loaded, and the rows of non-current ones are deleted.) *)
SupportKept ==
    [][entry.status = "ACTIVE" /\ entry.required \subseteq entry.rows =>
         \A o \in entry.rows : Approved(o) /\ Supports(o) /\ review'[o].status = review[o].status
                                 => o \in entry'.rows]_memoryVars
=============================================================================
