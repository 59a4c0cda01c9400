-------------------------- MODULE ObservationProofs --------------------------
(***************************************************************************)
(* Proofs about observations, in two parts.                                *)
(*                                                                         *)
(* Memory, for any finite set of observations and any number of decisions, *)
(* failed builds, backfills and changes of the current files: a            *)
(* retrievable entry rests on all of its sources and on what they still    *)
(* say, but for those a backfill attached from a text that was replaced,   *)
(* and correcting one observation keeps the support of the others.         *)
(*                                                                         *)
(* ScanProcessing, for any files and requests and any number of deaths,    *)
(* expiries and retries: no file carries two live observations, a batch is *)
(* prepared on files nobody is changing, suggestions that were invalidated *)
(* do not come back, and a session completed by a full batch has           *)
(* suggestions for all of its ready files.                                 *)
(***************************************************************************)
EXTENDS Memory, ScanProcessing, FiniteSetTheorems, TLAPS

-----------------------------------------------------------------------------
(* Memory: the inductive invariant. *)

Entries == [status : {"NONE", "ACTIVE", "ARCHIVED"}, required : SUBSET Observations,
            rows : SUBSET Observations, complete : BOOLEAN, count : 0..Cardinality(Observations),
            checked : BOOLEAN]

Sources(e) == e.required \cup e.rows

Whole(e) == e.complete => e.required \subseteq e.rows /\ e.count = Cardinality(e.rows)

(* A source whose text no longer says what the active entry says is one whose
   correction has not been built, or one a backfill attached too late: also a
   required one that has no row yet, which a later build may attach. *)
SourcesReviewed ==
    entry.status = "ACTIVE" =>
        \A o \in Sources(entry) : Supports(o) \/ review[o].memory # "COMPLETED" \/ o \in overtaken

(* What a backfill read and no decision replaced is what the text still says. *)
FoundSupports == \A o \in Observations : found[o] = "READ" => Supports(o)

Findings == [Observations -> {"NONE", "READ", "STALE"}]

(* Every failure that is remembered used up an event. *)
RetryCounted == \A o \in Observations : retry[o] <= used.events

MemoryInv ==
    /\ MemoryTypeOK /\ RetryCounted
    /\ entry.status = "NONE" => entry.rows = {}
    /\ Whole(entry)
    /\ SourcesReviewed /\ FoundSupports

-----------------------------------------------------------------------------
(* What the steps of a build compute. *)

(* The number of sources fits the type, whatever they are. *)
LEMMA CountTyped ==
    /\ Cardinality(Observations) \in Nat
    /\ \A S \in SUBSET Observations : Cardinality(S) \in 0..Cardinality(Observations)
<1>1. Cardinality(Observations) \in Nat
  BY MemoryAssumption, FS_CardinalityType
<1>2. ASSUME NEW S \in SUBSET Observations PROVE Cardinality(S) \in 0..Cardinality(Observations)
  <2>1. IsFiniteSet(S) /\ Cardinality(S) <= Cardinality(Observations)
    BY MemoryAssumption, FS_Subset
  <2>2. Cardinality(S) \in Nat
    BY <2>1, FS_CardinalityType
  <2> QED
    BY <1>1, <2>1, <2>2
<1> QED
  BY <1>1, <1>2

(* attachMemorySources keeps every row, attaches only sources the entry
   requires, and calls it complete only with all of them. *)
LEMMA AttachedFacts ==
    ASSUME NEW e \in Entries, e.status = "ACTIVE", NEW c \in SUBSET Observations
    PROVE  /\ Attached(e, c) \in Entries /\ Attached(e, c).status = "ACTIVE"
           /\ Attached(e, c).required = e.required \cup c
           /\ e.rows \subseteq Attached(e, c).rows
           /\ Attached(e, c).rows \subseteq e.rows \cup e.required \cup c
           /\ Whole(Attached(e, c))
<1> DEFINE ids == e.required \cup c
           covered == {p \in ids : CurrentSource(p)}
           rows == e.rows \cup covered
           complete == /\ ids # {} /\ ids \subseteq covered
                       /\ \A p \in rows : CurrentSource(p)
                       /\ Cardinality(rows) >= e.count
           n == IF complete \/ Cardinality(rows) > e.count THEN Cardinality(rows) ELSE e.count
           a == [e EXCEPT !.required = ids, !.rows = rows, !.complete = complete, !.count = n]
<1>1. Attached(e, c) = a
  BY DEF Attached
<1>2. ids \in SUBSET Observations /\ rows \in SUBSET Observations
  BY DEF Entries
<1>3. complete \in BOOLEAN /\ (complete => ids \subseteq rows)
  OBVIOUS
<1>4. n \in 0..Cardinality(Observations) /\ (complete => n = Cardinality(rows))
  BY <1>2, CountTyped DEF Entries
<1>5. e.rows \subseteq rows /\ rows \subseteq e.rows \cup ids
  OBVIOUS
<1> HIDE DEF ids, rows, complete, n
<1>6. a \in Entries
  BY <1>2, <1>3, <1>4 DEF Entries
<1>7. a.status = e.status /\ a.required = ids /\ a.rows = rows /\ a.complete = complete /\ a.count = n
  BY DEF Entries
<1> HIDE DEF a
<1>8. Whole(a)
  BY <1>3, <1>4, <1>7 DEF Whole
<1> QED
  BY <1>1, <1>5, <1>6, <1>7, <1>8 DEF ids

(* termCandidatesForSession: a candidate rests on what its sources say. *)
LEMMA CandidateFacts ==
    ASSUME NEW o \in Observations, NEW S \in SUBSET Observations
    PROVE  /\ Candidate(o, S) \in SUBSET Observations
           /\ \A p \in Candidate(o, S) : Supports(p)
           /\ Supports(o) /\ review[o].status # "REJECTED" => o \in Candidate(o, S)
           /\ ~Supports(o) => Candidate(o, S) = {}
  BY DEF Candidate

(* reconcileCorrectedMemory leaves an active entry only the support it computed. *)
LEMMA ReconciledFacts ==
    ASSUME MemoryInv, NEW o \in Observations
    PROVE  /\ Reconciled(o) \in Entries /\ Whole(Reconciled(o))
           /\ \/ Reconciled(o) = entry
              \/ Reconciled(o).status = "ARCHIVED"
              \/ /\ Reconciled(o).status = "ACTIVE" /\ entry.status = "ACTIVE"
                 /\ \A p \in Sources(Reconciled(o)) : Supports(p)
           /\ ~Supports(o) /\ Reconciled(o).status = "ACTIVE" => o \notin Sources(Reconciled(o))
<1> DEFINE sessions == ApprovedSessions(o)
           sources == entry.required \cup entry.rows
           support == Candidate(o, sessions)
                        \cup UNION {Candidate(p, sessions) : p \in (sources \ {o}) \cap sessions}
           left == [entry EXCEPT !.required = support, !.rows = @ \cap support, !.complete = FALSE, !.count = 0]
<1>1. entry \in Entries /\ Whole(entry)
  BY DEF MemoryInv, MemoryTypeOK, Entries
<1>2. sources \in SUBSET Observations /\ sessions \in SUBSET Observations
  BY <1>1 DEF Entries, ApprovedSessions
<1> HIDE DEF sessions
<1>3. /\ support \in SUBSET Observations
      /\ \A p \in support : Supports(p)
  <2>1. \A p \in Observations : Candidate(p, sessions) \in SUBSET Observations
                                  /\ \A q \in Candidate(p, sessions) : Supports(q)
    BY <1>2, CandidateFacts
  <2> QED
    BY <1>2, <2>1
<1> HIDE DEF support
<1>4. CASE entry.status # "ACTIVE" \/ o \notin sources
  <2>1. Reconciled(o) = entry
    BY <1>4 DEF Reconciled
  <2> QED
    BY <1>1, <1>4, <2>1 DEF Sources
<1>5. CASE entry.status = "ACTIVE" /\ o \in sources /\ support = {}
  <2> DEFINE archived == [entry EXCEPT !.status = "ARCHIVED", !.complete = FALSE, !.checked = TRUE]
  <2>1. Reconciled(o) = archived
    BY <1>5 DEF Reconciled, support, sessions
  <2>2. archived \in Entries /\ archived.status = "ARCHIVED" /\ archived.complete = FALSE
    BY <1>1 DEF Entries
  <2> HIDE DEF archived
  <2> QED
    BY <2>1, <2>2 DEF Whole
<1>6. CASE entry.status = "ACTIVE" /\ o \in sources /\ support # {} /\ entry.complete /\ support = sources
  <2>1. Reconciled(o) = entry
    BY <1>6 DEF Reconciled, support, sessions
  <2> QED
    BY <1>1, <1>3, <1>6, <2>1
<1>7. CASE entry.status = "ACTIVE" /\ o \in sources /\ support # {} /\ ~(entry.complete /\ support = sources)
  <2>1. Reconciled(o) = Attached(left, support)
    BY <1>7 DEF Reconciled, support, sessions
  <2>2. left \in Entries /\ left.status = "ACTIVE" /\ left.required = support /\ left.rows \subseteq support
    <3>1. 0 \in 0..Cardinality(Observations)
      BY CountTyped
    <3> QED
      BY <1>1, <1>3, <1>7, <3>1 DEF Entries
  <2> HIDE DEF left
  <2>3. /\ Attached(left, support) \in Entries /\ Attached(left, support).status = "ACTIVE"
        /\ Whole(Attached(left, support))
        /\ Sources(Attached(left, support)) \subseteq support
    BY <1>3, <2>2, AttachedFacts DEF Sources
  <2> QED
    BY <1>3, <1>7, <2>1, <2>3
<1> QED
  BY <1>4, <1>5, <1>6, <1>7

(* upsertMemoryCandidate: an entry that was not active starts from the
   candidate alone. *)
LEMMA UpsertedFacts ==
    ASSUME NEW e \in Entries, e.status = "NONE" => e.rows = {}, NEW c \in SUBSET Observations
    PROVE  /\ Upserted(e, c) \in Entries /\ Upserted(e, c).status = "ACTIVE"
           /\ e.status = "ACTIVE" => Upserted(e, c).rows = e.rows /\ Sources(Upserted(e, c)) = Sources(e) \cup c
           /\ e.status # "ACTIVE" => Sources(Upserted(e, c)) = c
<1>1. CASE e.status = "NONE"
  <2> DEFINE u == [e EXCEPT !.status = "ACTIVE", !.required = c]
  <2>1. Upserted(e, c) = u
    BY <1>1 DEF Upserted
  <2>2. u \in Entries /\ u.status = "ACTIVE" /\ u.required = c /\ u.rows = {}
    BY <1>1 DEF Entries
  <2> QED
    BY <1>1, <2>1, <2>2 DEF Sources
<1>2. CASE e.status = "ARCHIVED"
  <2> DEFINE u == [e EXCEPT !.status = "ACTIVE", !.required = c, !.rows = {}, !.complete = FALSE, !.count = 0]
  <2>1. Upserted(e, c) = u
    BY <1>2 DEF Upserted
  <2>2. u \in Entries /\ u.status = "ACTIVE" /\ u.required = c /\ u.rows = {}
    <3>1. 0 \in 0..Cardinality(Observations)
      BY CountTyped
    <3> QED
      BY <3>1 DEF Entries
  <2> QED
    BY <1>2, <2>1, <2>2 DEF Sources
<1>3. CASE e.status = "ACTIVE"
  <2> DEFINE whole == e.complete /\ c \subseteq e.required
             ids == e.required \cup c
             u == [e EXCEPT !.required = ids, !.complete = whole]
  <2>1. Upserted(e, c) = u
    BY <1>3 DEF Upserted
  <2>2. whole \in BOOLEAN /\ ids \in SUBSET Observations
    BY DEF Entries
  <2> HIDE DEF whole, ids
  <2>3. u \in Entries /\ u.status = "ACTIVE" /\ u.required = ids /\ u.rows = e.rows
    BY <1>3, <2>2 DEF Entries
  <2> HIDE DEF u
  <2> QED
    BY <1>3, <2>1, <2>3 DEF Sources, ids
<1> QED
  BY <1>1, <1>2, <1>3 DEF Entries

(* buildMemoryInTransaction: what it leaves is whole, and its sources say it
   or were sources before; the built observation itself says it. *)
LEMMA BuiltFacts ==
    ASSUME MemoryInv, NEW o \in Observations, review[o].status \in Reviewed
    PROVE  /\ Built(o) \in Entries /\ Whole(Built(o))
           /\ Built(o).status = "NONE" => Built(o).rows = {}
           /\ Built(o).status = "ACTIVE" =>
                \A p \in Sources(Built(o)) :
                    Supports(p) \/ (p # o /\ entry.status = "ACTIVE" /\ p \in Sources(entry))
<1> DEFINE candidate == Candidate(o, ApprovedSessions(o))
           kept == IF Corrected(o) THEN Reconciled(o) ELSE entry
<1>1. entry \in Entries /\ Whole(entry) /\ (entry.status = "NONE" => entry.rows = {})
  BY DEF MemoryInv, MemoryTypeOK, Entries
<1>2. ApprovedSessions(o) \in SUBSET Observations
  BY <1>1 DEF Entries, ApprovedSessions
<1>3. /\ candidate \in SUBSET Observations
      /\ \A p \in candidate : Supports(p)
  BY <1>2, CandidateFacts
<1>4. ~Supports(o) => Corrected(o)
  BY DEF Supports, Corrected
<1>5. /\ kept \in Entries /\ Whole(kept)
      /\ kept.status = "NONE" => kept.rows = {}
      /\ kept.status = "ACTIVE" =>
           \A p \in Sources(kept) : Supports(p) \/ (p # o /\ entry.status = "ACTIVE" /\ p \in Sources(entry))
  BY <1>1, <1>4, ReconciledFacts
<1>6. Built(o) = IF candidate = {} THEN kept ELSE Attached(Upserted(kept, candidate), candidate)
  BY DEF Built
<1> HIDE DEF candidate, kept
<1>7. CASE candidate = {}
  BY <1>5, <1>6, <1>7
<1>8. CASE candidate # {}
  <2> DEFINE u == Upserted(kept, candidate)
  <2>1. /\ u \in Entries /\ u.status = "ACTIVE"
        /\ Sources(u) \subseteq (IF kept.status = "ACTIVE" THEN Sources(kept) \cup candidate ELSE candidate)
    BY <1>3, <1>5, UpsertedFacts
  <2> HIDE DEF u
  <2>2. /\ Attached(u, candidate) \in Entries /\ Attached(u, candidate).status = "ACTIVE"
        /\ Whole(Attached(u, candidate))
        /\ Sources(Attached(u, candidate)) \subseteq Sources(u) \cup candidate
    BY <1>3, <2>1, AttachedFacts DEF Sources
  <2>3. Built(o) = Attached(u, candidate)
    BY <1>6, <1>8 DEF u
  <2> QED
    BY <1>3, <1>5, <2>1, <2>2, <2>3
<1> QED
  BY <1>7, <1>8

-----------------------------------------------------------------------------
(* The steps. *)

Reviews == [status : Reviewed \cup {"OBSERVED"}, corrected : BOOLEAN, edited : BOOLEAN,
            memory : {"NONE", "PENDING", "COMPLETED"}]

(* The invariant without the bookkeeping, of the entry a step leaves. *)
EntryKept == entry' \in Entries /\ (entry'.status = "NONE" => entry'.rows = {}) /\ Whole(entry')

(* A review decision keeps the invariant. *)
LEMMA DecideStep ==
    ASSUME MemoryInv, NEW o \in Observations, NEW status \in Reviewed, NEW edited \in BOOLEAN, Decide(o, status, edited)
    PROVE  MemoryInv'
<1> USE MemoryAssumption
<1>1. entry \in Entries /\ Whole(entry) /\ (entry.status = "NONE" => entry.rows = {}) /\ SourcesReviewed
      /\ review \in [Observations -> Reviews] /\ retry \in [Observations -> 0..MaxIncidents]
      /\ used \in [decisions : 0..MaxDecisions, events : 0..MaxIncidents] /\ present \subseteq Observations
      /\ found \in Findings /\ overtaken \subseteq Observations /\ FoundSupports
  BY DEF MemoryInv, MemoryTypeOK, Entries, Reviews, Findings
<1> DEFINE corrected == review[o].corrected \/ status # "APPROVED"
           r == [status |-> status, edited |-> edited, memory |-> "PENDING", corrected |-> corrected]
<1>2. review' = [review EXCEPT ![o] = r] /\ retry' = [retry EXCEPT ![o] = 0] /\ present' = present
      /\ (entry' = entry \/ entry' = Invalidated(o)) /\ used.decisions < MaxDecisions
      /\ used' = [used EXCEPT !.decisions = @ + 1] /\ overtaken' = overtaken
      /\ found' = [found EXCEPT ![o] = IF @ = "READ" THEN "STALE" ELSE @]
  BY DEF Decide, Decided
<1>3. corrected \in BOOLEAN
  OBVIOUS
<1> HIDE DEF corrected
<1>4. r \in Reviews /\ r.memory = "PENDING"
  BY <1>3 DEF Reviews
<1> HIDE DEF r
<1>5. review' \in [Observations -> Reviews] /\ review'[o].memory = "PENDING"
      /\ \A p \in Observations \ {o} : review'[p] = review[p]
  BY <1>1, <1>2, <1>4
<1>6. retry' \in [Observations -> 0..MaxIncidents] /\ used' \in [decisions : 0..MaxDecisions, events : 0..MaxIncidents]
  BY <1>1, <1>2
<1>7. EntryKept /\ entry'.required = entry.required /\ entry'.rows = entry.rows /\ entry'.status = entry.status
  <2>1. CASE entry' = entry
    BY <1>1, <2>1 DEF EntryKept
  <2>2. CASE entry' = [entry EXCEPT !.complete = FALSE, !.checked = TRUE]
    <3> DEFINE e == [entry EXCEPT !.complete = FALSE, !.checked = TRUE]
    <3>1. /\ e \in Entries /\ e.complete = FALSE /\ e.required = entry.required /\ e.rows = entry.rows
          /\ e.status = entry.status
      BY <1>1 DEF Entries
    <3> HIDE DEF e
    <3> QED
      BY <1>1, <2>2, <3>1 DEF EntryKept, Whole, e
  <2> QED
    BY <1>2, <2>1, <2>2 DEF Invalidated
<1>8. SourcesReviewed'
  <2>1. \A p \in Sources(entry) : p \in Observations
    BY <1>1 DEF Sources, Entries
  <2>2. \A p \in Observations \ {o} : Supports(p)' = Supports(p)
    BY <1>5 DEF Supports
  <2>3. Sources(entry)' = Sources(entry)
    BY <1>7 DEF Sources
  <2> QED
    BY <1>1, <1>2, <1>5, <1>7, <2>1, <2>2, <2>3 DEF SourcesReviewed
<1>9. found' \in Findings /\ found'[o] # "READ" /\ \A p \in Observations \ {o} : found'[p] = found[p]
  BY <1>1, <1>2 DEF Findings
<1>10. FoundSupports'
  BY <1>1, <1>5, <1>9 DEF FoundSupports, Supports
<1>11. MemoryTypeOK'
  BY <1>1, <1>2, <1>5, <1>6, <1>7, <1>9 DEF MemoryTypeOK, Reviews, Entries, EntryKept, Findings
<1>12. RetryCounted'
  BY <1>1, <1>2 DEF MemoryInv, RetryCounted
<1> QED
  BY <1>7, <1>8, <1>10, <1>11, <1>12 DEF MemoryInv, EntryKept

(* So does building the memory of an observation. *)
LEMMA BuildStep == ASSUME MemoryInv, NEW o \in Observations, BuildMemory(o) PROVE MemoryInv'
<1> USE MemoryAssumption
<1>1. /\ SourcesReviewed /\ review \in [Observations -> Reviews] /\ retry \in [Observations -> 0..MaxIncidents]
      /\ used \in [decisions : 0..MaxDecisions, events : 0..MaxIncidents] /\ present \subseteq Observations
      /\ found \in Findings /\ overtaken \subseteq Observations /\ FoundSupports
  BY DEF MemoryInv, MemoryTypeOK, Reviews, Findings
<1>2. /\ entry' = Built(o) /\ review[o].status \in Reviewed /\ UNCHANGED <<present, found, used>>
      /\ overtaken' = overtaken \ {o}
      /\ review' = review \/ review' = [review EXCEPT ![o].memory = "COMPLETED"]
      /\ retry' = retry \/ retry' = [retry EXCEPT ![o] = 0]
  BY DEF BuildMemory
<1>3. /\ EntryKept
      /\ entry'.status = "ACTIVE" =>
           \A p \in Sources(entry') : Supports(p) \/ (p # o /\ entry.status = "ACTIVE" /\ p \in Sources(entry))
  BY <1>2, BuiltFacts DEF EntryKept
<1>4. retry' \in [Observations -> 0..MaxIncidents]
  BY <1>1, <1>2
<1>5. /\ review' \in [Observations -> Reviews]
      /\ \A p \in Observations : review'[p].status = review[p].status /\ review'[p].edited = review[p].edited
      /\ \A p \in Observations \ {o} : review'[p] = review[p]
  <2> DEFINE r == [review[o] EXCEPT !.memory = "COMPLETED"]
  <2>1. r \in Reviews /\ r.status = review[o].status /\ r.edited = review[o].edited
    BY <1>1 DEF Reviews
  <2>2. review' = review \/ review' = [review EXCEPT ![o] = r]
    BY <1>2
  <2> HIDE DEF r
  <2> QED
    BY <1>1, <2>1, <2>2
<1>6. SourcesReviewed'
  <2>1. \A p \in Observations : Supports(p)' = Supports(p)
    BY <1>5 DEF Supports
  <2>2. \A p \in Sources(entry') : p \in Observations
    BY <1>3 DEF EntryKept, Entries, Sources
  <2> QED
    BY <1>1, <1>2, <1>3, <1>5, <2>1, <2>2 DEF SourcesReviewed
<1>7. MemoryTypeOK'
  BY <1>1, <1>2, <1>3, <1>4, <1>5 DEF MemoryTypeOK, Reviews, Entries, EntryKept, Findings
<1>8. RetryCounted' /\ FoundSupports'
  BY <1>1, <1>2, <1>5 DEF MemoryInv, RetryCounted, FoundSupports, Supports
<1> QED
  BY <1>3, <1>6, <1>7, <1>8 DEF MemoryInv, EntryKept

(* A backfill that attaches what it read leaves whole what it attaches it to,
   and marks the source whose text was replaced meanwhile. *)
LEMMA AttachStep == ASSUME MemoryInv, NEW o \in Observations, AttachFound(o) PROVE MemoryInv'
<1>1. /\ entry \in Entries /\ SourcesReviewed /\ FoundSupports /\ Whole(entry)
      /\ entry.status = "NONE" => entry.rows = {}
      /\ found \in Findings /\ overtaken \subseteq Observations
  BY DEF MemoryInv, MemoryTypeOK, Entries, Findings
<1>2. /\ entry' = [Attached(entry, {o}) EXCEPT !.checked = TRUE] /\ UNCHANGED <<review, present, retry, used>>
      /\ found' = [found EXCEPT ![o] = "NONE"] /\ found[o] # "NONE"
      /\ overtaken' = IF found[o] = "STALE" THEN overtaken \cup {o} ELSE overtaken
  BY DEF AttachFound
<1> DEFINE a == Attached(entry, {o})
<1>3. /\ a \in Entries /\ a.status = entry.status /\ Whole(a) /\ (a.status = "NONE" => a.rows = {})
      /\ entry.status = "ACTIVE" => Sources(a) \subseteq Sources(entry) \cup {o}
  <2>1. CASE entry.status = "ACTIVE"
    BY <1>1, <2>1, AttachedFacts DEF Sources
  <2>2. CASE entry.status # "ACTIVE"
    <3>1. a = entry
      BY <2>2 DEF Attached
    <3> QED
      BY <1>1, <2>2, <3>1
  <2> QED
    BY <2>1, <2>2
<1> HIDE DEF a
<1>4. /\ entry' \in Entries /\ entry'.status = a.status /\ entry'.required = a.required /\ entry'.rows = a.rows
      /\ entry'.complete = a.complete /\ entry'.count = a.count
  <2>1. entry' = [a EXCEPT !.checked = TRUE]
    BY <1>2 DEF a
  <2> QED
    BY <1>3, <2>1 DEF Entries
<1>5. EntryKept
  BY <1>3, <1>4 DEF EntryKept, Whole
<1>6. Supports(o) \/ o \in overtaken'
  BY <1>1, <1>2 DEF Findings, FoundSupports
<1>7. SourcesReviewed'
  BY <1>1, <1>2, <1>3, <1>4, <1>6 DEF SourcesReviewed, Sources, Supports
<1>8. found' \in Findings /\ overtaken' \subseteq Observations /\ FoundSupports'
  BY <1>1, <1>2 DEF FoundSupports, Supports, Findings
<1>9. MemoryTypeOK' /\ RetryCounted'
  BY <1>2, <1>4, <1>8 DEF MemoryInv, MemoryTypeOK, Entries, RetryCounted, Findings
<1> QED
  BY <1>5, <1>7, <1>8, <1>9 DEF MemoryInv, EntryKept

(* A backfill that reads a source, or dismisses the entry, changes no source. *)
LEMMA FindStep == ASSUME MemoryInv, NEW o \in Observations, FindSource(o) PROVE MemoryInv'
<1>1. /\ found' = [found EXCEPT ![o] = "READ"] /\ Supports(o)
      /\ UNCHANGED <<review, present, entry, retry, overtaken, used>>
  BY DEF FindSource
<1>2. found \in Findings
  BY DEF MemoryInv, MemoryTypeOK, Findings
<1>3. found' \in Findings /\ \A p \in Observations \ {o} : found'[p] = found[p]
  BY <1>1, <1>2 DEF Findings
<1>4. FoundSupports'
  BY <1>1, <1>3 DEF MemoryInv, FoundSupports, Supports
<1> QED
  BY <1>1, <1>3, <1>4 DEF MemoryInv, MemoryTypeOK, RetryCounted, SourcesReviewed, Supports, Findings

LEMMA DismissStep == ASSUME MemoryInv, DismissEntry PROVE MemoryInv'
<1>1. entry' = [entry EXCEPT !.checked = TRUE] /\ UNCHANGED <<review, present, retry, found, overtaken, used>>
  BY DEF DismissEntry
<1>2. entry \in Entries
  BY DEF MemoryInv, MemoryTypeOK, Entries
<1>3. /\ entry' \in Entries /\ entry'.status = entry.status /\ entry'.required = entry.required
      /\ entry'.rows = entry.rows /\ entry'.complete = entry.complete /\ entry'.count = entry.count
  BY <1>1, <1>2 DEF Entries
<1> QED
  BY <1>1, <1>3 DEF MemoryInv, MemoryTypeOK, RetryCounted, SourcesReviewed, FoundSupports, Supports, Sources, Whole, Entries

(* Every step keeps the invariant. *)
LEMMA MemoryInvStep == ASSUME MemoryInv, [MemoryNext]_memoryVars PROVE MemoryInv'
<1>1. CASE UNCHANGED <<review, entry, found, overtaken>> /\ MemoryTypeOK' /\ RetryCounted'
  BY <1>1 DEF MemoryInv, SourcesReviewed, FoundSupports, Supports
<1>2. CASE UNCHANGED memoryVars
  BY <1>1, <1>2 DEF memoryVars, MemoryInv, MemoryTypeOK, RetryCounted
<1>3. ASSUME NEW o \in Observations, Approve(o) \/ Modify(o) \/ Reject(o) PROVE MemoryInv'
  BY <1>3, DecideStep DEF Approve, Modify, Reject, Reviewed
<1>4. ASSUME NEW o \in Observations, BuildFails(o) PROVE MemoryInv'
  <2>1. /\ retry' = [retry EXCEPT ![o] = @ + 1] /\ used' = [used EXCEPT !.events = @ + 1]
        /\ used.events < MaxIncidents /\ UNCHANGED <<review, present, entry, found, overtaken>>
    BY <1>4 DEF BuildFails, Incident
  <2>2. /\ retry \in [Observations -> 0..MaxIncidents] /\ \A p \in Observations : retry[p] <= used.events
        /\ used \in [decisions : 0..MaxDecisions, events : 0..MaxIncidents]
    BY DEF MemoryInv, MemoryTypeOK, RetryCounted
  <2>3. retry[o] + 1 \in 0..MaxIncidents /\ used.events + 1 \in 0..MaxIncidents
    BY <2>1, <2>2, MemoryAssumption
  <2>4. /\ retry' \in [Observations -> 0..MaxIncidents] /\ used'.events = used.events + 1
        /\ used' \in [decisions : 0..MaxDecisions, events : 0..MaxIncidents]
    BY <2>1, <2>2, <2>3
  <2>5. RetryCounted'
    BY <2>1, <2>2, <2>4, MemoryAssumption DEF RetryCounted
  <2>6. MemoryTypeOK'
    BY <2>1, <2>4 DEF MemoryInv, MemoryTypeOK
  <2> QED
    BY <1>1, <2>1, <2>5, <2>6
<1>5. ASSUME NEW o \in Observations, ChangeSource(o) PROVE MemoryInv'
  <2>1. /\ used' = [used EXCEPT !.events = @ + 1] /\ used.events < MaxIncidents
        /\ UNCHANGED <<review, entry, retry, found, overtaken>> /\ present' \subseteq present \cup {o}
    BY <1>5 DEF ChangeSource, Incident
  <2>2. MemoryTypeOK'
    BY <2>1, MemoryAssumption DEF MemoryInv, MemoryTypeOK
  <2>3. RetryCounted'
    BY <2>1, MemoryAssumption DEF MemoryInv, MemoryTypeOK, RetryCounted
  <2> QED
    BY <1>1, <2>1, <2>2, <2>3
<1> QED
  BY <1>2, <1>3, <1>4, <1>5, BuildStep, FindStep, AttachStep, DismissStep DEF MemoryNext

(* It holds before the first decision, also with an entry that has no source yet. *)
LEMMA MemoryInvInit == MemoryInit => MemoryInv
<1> SUFFICES ASSUME MemoryInit PROVE MemoryInv
  OBVIOUS
<1>1. 0 \in 0..Cardinality(Observations) /\ 0 \in 0..MaxIncidents /\ 0 \in 0..MaxDecisions
  BY CountTyped, MemoryAssumption
<1>2. PICK old \in SUBSET Observations :
          /\ review = [o \in Observations |-> [status |-> IF o \in old THEN "APPROVED" ELSE "OBSERVED",
                                               corrected |-> FALSE, edited |-> FALSE, memory |-> "NONE"]]
          /\ entry = [status |-> IF old = {} THEN "NONE" ELSE "ACTIVE", required |-> {}, rows |-> {},
                      complete |-> FALSE, count |-> 0, checked |-> FALSE]
  BY DEF MemoryInit
<1>3. entry \in Entries /\ entry.rows = {} /\ entry.required = {} /\ entry.complete = FALSE
  BY <1>1, <1>2 DEF Entries
<1>4. review \in [Observations -> Reviews]
  BY <1>2 DEF Reviews, Reviewed
<1>5. /\ present = Observations /\ retry = [o \in Observations |-> 0] /\ overtaken = {}
      /\ found = [o \in Observations |-> "NONE"] /\ used = [decisions |-> 0, events |-> 0]
  BY DEF MemoryInit
<1>6. MemoryTypeOK
  BY <1>1, <1>3, <1>4, <1>5 DEF MemoryTypeOK, Entries, Reviews
<1>7. RetryCounted /\ FoundSupports
  BY <1>5 DEF RetryCounted, FoundSupports
<1> QED
  BY <1>3, <1>6, <1>7 DEF MemoryInv, Whole, SourcesReviewed, Sources

-----------------------------------------------------------------------------
(* The theorems. *)

(* The invariant holds in every reachable state. *)
THEOREM MemoryInvariance == MemorySpec => []MemoryInv
<1>1. MemoryInit => MemoryInv
  BY MemoryInvInit
<1>2. MemoryInv /\ [MemoryNext]_memoryVars => MemoryInv'
  BY MemoryInvStep
<1> QED
  BY <1>1, <1>2, PTL DEF MemorySpec

(* Reviews, the entry and its manifest count stay well formed. *)
THEOREM MemoryTypeCorrect == MemorySpec => []MemoryTypeOK
<1>1. MemoryInv => MemoryTypeOK
  BY DEF MemoryInv
<1> QED
  BY <1>1, MemoryInvariance, PTL

(* attachMemorySources and reconcileCorrectedMemory: a complete entry has a row
   for every source it requires, and a retrievable one whose corrections were
   built has no source whose reviewed text no longer says it, but for one that a
   backfill attached after a decision replaced the text it had read. *)
THEOREM ManifestIsSound == MemorySpec => []ManifestSound
<1>1. MemoryInv => ManifestSound
  <2> SUFFICES ASSUME MemoryInv PROVE CorrectionsReconciledButOvertaken /\ ManifestWhole
    BY DEF ManifestSound
  <2>1. ManifestWhole
    BY DEF MemoryInv, Whole, ManifestWhole
  <2>2. CorrectionsReconciledButOvertaken
    BY DEF MemoryInv, SourcesReviewed, Sources, CorrectionsReconciledButOvertaken, Retrievable
  <2> QED
    BY <2>1, <2>2
<1> QED
  BY <1>1, MemoryInvariance, PTL

(* What SupportKept says of one step. *)
KeepsSupport ==
    entry.status = "ACTIVE" /\ entry.required \subseteq entry.rows =>
      \A o \in entry.rows : Approved(o) /\ Supports(o) /\ review'[o].status = review[o].status => o \in entry'.rows

(* reconcileCorrectedMemory computes its support from every approved row of the
   entry, also of one that is not current now. *)
LEMMA ReconciledKeeps ==
    ASSUME MemoryInv, NEW o \in Observations, Corrected(o), entry.status = "ACTIVE", entry.required \subseteq entry.rows,
           NEW p \in entry.rows, Approved(p), Supports(p)
    PROVE  Reconciled(o).status = "ACTIVE" /\ p \in Reconciled(o).rows
<1> DEFINE sessions == ApprovedSessions(o)
           sources == entry.required \cup entry.rows
           support == Candidate(o, sessions)
                        \cup UNION {Candidate(q, sessions) : q \in (sources \ {o}) \cap sessions}
           left == [entry EXCEPT !.required = support, !.rows = @ \cap support, !.complete = FALSE, !.count = 0]
<1>1. entry \in Entries /\ p \in Observations /\ review[p].status # "REJECTED"
  BY DEF MemoryInv, MemoryTypeOK, Entries, Approved
<1>2. sources \in SUBSET Observations /\ sessions \in SUBSET Observations
  BY <1>1 DEF Entries, ApprovedSessions
<1>3. CASE o \notin sources
  BY <1>3 DEF Reconciled
<1>4. CASE o \in sources
  <2>1. p \in sessions
    BY <1>4 DEF ApprovedSessions
  <2> HIDE DEF sessions
  <2>2. p \in Candidate(p, sessions)
    BY <1>1, <1>2, CandidateFacts
  <2>3. p \in support
    BY <2>1, <2>2
  <2>4. support \in SUBSET Observations
    BY <1>2, CandidateFacts
  <2>5. Reconciled(o) = entry \/ Reconciled(o) = Attached(left, support)
    BY <1>4, <2>3 DEF Reconciled, sessions
  <2> HIDE DEF support
  <2>6. left \in Entries /\ left.status = "ACTIVE" /\ left.rows = entry.rows \cap support
    <3>1. 0 \in 0..Cardinality(Observations)
      BY CountTyped
    <3> QED
      BY <1>1, <2>4, <3>1 DEF Entries
  <2> HIDE DEF left
  <2>7. Attached(left, support).status = "ACTIVE" /\ left.rows \subseteq Attached(left, support).rows
    BY <2>4, <2>6, AttachedFacts
  <2> QED
    BY <2>3, <2>5, <2>6, <2>7
<1> QED
  BY <1>3, <1>4

(* No step takes the support of a published memory away. *)
LEMMA SupportStep == ASSUME MemoryInv, [MemoryNext]_memoryVars PROVE KeepsSupport
<1>1. CASE entry.rows \subseteq entry'.rows
  BY <1>1 DEF KeepsSupport
<1>2. CASE UNCHANGED entry
  BY <1>1, <1>2
<1>3. entry \in Entries
  BY DEF MemoryInv, MemoryTypeOK, Entries
<1>4. ASSUME NEW o \in Observations, Approve(o) \/ Modify(o) \/ Reject(o) PROVE KeepsSupport
  <2>1. entry' = entry \/ entry' = [entry EXCEPT !.complete = FALSE, !.checked = TRUE]
    BY <1>4 DEF Approve, Modify, Reject, Decide, Invalidated
  <2>2. entry'.rows = entry.rows
    BY <1>3, <2>1 DEF Entries
  <2> QED
    BY <1>1, <2>2
<1>5. ASSUME NEW o \in Observations, BuildMemory(o) PROVE KeepsSupport
  <2> SUFFICES ASSUME entry.status = "ACTIVE", entry.required \subseteq entry.rows,
                      NEW p \in entry.rows, Approved(p), Supports(p)
               PROVE  p \in entry'.rows
    BY DEF KeepsSupport
  <2> DEFINE candidate == Candidate(o, ApprovedSessions(o))
             kept == IF Corrected(o) THEN Reconciled(o) ELSE entry
  <2>1. kept \in Entries /\ kept.status = "ACTIVE" /\ p \in kept.rows
    BY <1>3, ReconciledKeeps, ReconciledFacts
  <2>2. candidate \in SUBSET Observations
    <3>1. ApprovedSessions(o) \in SUBSET Observations
      BY <1>3 DEF Entries, ApprovedSessions
    <3> QED
      BY <3>1, CandidateFacts
  <2>3. entry' = IF candidate = {} THEN kept ELSE Attached(Upserted(kept, candidate), candidate)
    BY <1>5 DEF BuildMemory, Built
  <2> HIDE DEF candidate, kept
  <2>4. Upserted(kept, candidate) \in Entries /\ Upserted(kept, candidate).status = "ACTIVE"
        /\ Upserted(kept, candidate).rows = kept.rows
    BY <2>1, <2>2, UpsertedFacts
  <2>5. kept.rows \subseteq Attached(Upserted(kept, candidate), candidate).rows
    BY <2>2, <2>4, AttachedFacts
  <2> QED
    BY <2>1, <2>3, <2>5
<1>6. ASSUME NEW o \in Observations, AttachFound(o) PROVE KeepsSupport
  <2> SUFFICES ASSUME entry.status = "ACTIVE" PROVE entry.rows \subseteq entry'.rows
    BY <1>1 DEF KeepsSupport
  <2> DEFINE a == Attached(entry, {o})
  <2>1. entry' = [a EXCEPT !.checked = TRUE]
    BY <1>6 DEF AttachFound
  <2>2. a \in Entries /\ entry.rows \subseteq a.rows
    BY <1>3, AttachedFacts
  <2> HIDE DEF a
  <2>3. entry'.rows = a.rows
    BY <2>1, <2>2 DEF Entries
  <2> QED
    BY <2>2, <2>3
<1>7. ASSUME NEW o \in Observations, BuildFails(o) \/ ChangeSource(o) \/ FindSource(o) PROVE KeepsSupport
  BY <1>2, <1>7 DEF BuildFails, ChangeSource, FindSource
<1>8. CASE UNCHANGED memoryVars
  BY <1>2, <1>8 DEF memoryVars
<1>9. CASE DismissEntry
  BY <1>1, <1>3, <1>9 DEF DismissEntry, Entries
<1> QED
  BY <1>4, <1>5, <1>6, <1>7, <1>8, <1>9 DEF MemoryNext

(* Correcting one observation keeps the rows of every other observation that a
   person approved and whose text still says what the entry says. *)
THEOREM SupportIsKept == MemorySpec => SupportKept
<1>1. MemoryInv /\ [MemoryNext]_memoryVars => KeepsSupport
  BY SupportStep
<1>2. MemorySpec => [][KeepsSupport]_memoryVars
  BY <1>1, MemoryInvariance, PTL DEF MemorySpec
<1> QED
  BY <1>2 DEF SupportKept, KeepsSupport

-----------------------------------------------------------------------------
(* ScanProcessing: the inductive invariant. *)

(* What a request carries; one that works on a file names it. *)
OfFile == {"claim", "fail", "reuse", "store", "read", "ask", "asked", "examine", "observe", "expire", "close"}
Requests == [pc : OfFile \cup {"idle", "batch", "recommend"}, file : Files \cup {None},
             batch : Nat, todo : SUBSET Files, full : BOOLEAN, asked : BOOLEAN]
FileRows == [stage : Stages, claim : Workers \cup {None, Orphan}, rev : Nat,
             expired : BOOLEAN, obs : Nat, rec : Nat]
SessionRows == [status : {"READING", "GENERATING", "COMPLETED", "FAILED"},
                batch : Nat, owner : BOOLEAN, lease : BOOLEAN, full : BOOLEAN,
                cut : Nat, regenerating : BOOLEAN]
RequestsTyped ==
    /\ local \in [Workers -> Requests]
    /\ \A w \in Workers : local[w].pc \in OfFile => local[w].file \in Files

(* A batch that may still be written for: its lease can come back only while a
   paired Mac polls, and there a regeneration ends the preparation. *)
Live == session.status = "GENERATING" /\ (session.lease \/ root.device)

(* A request that recommends has a batch of its own, no newer than the
   session's; the one of the batch in preparation leaves no file it is done
   with without suggestions.  That batch began after the last invalidation. *)
Preparing(w) == local[w].pc = "recommend" /\ Live /\ local[w].batch = session.batch
Marked(S) ==
    \A f \in Files : file[f].stage = "READY" /\ Usable(f) /\ f \notin S => file[f].rec # 0
BatchInv ==
    /\ \A w \in Workers : local[w].pc = "recommend" => local[w].batch <= session.batch
    /\ \A v, w \in Workers : v # w /\ local[v].pc = "recommend" /\ local[w].pc = "recommend"
                                => local[v].batch # local[w].batch
    /\ \A w \in Workers : Preparing(w) /\ local[w].full => Marked(local[w].todo)
    /\ session.cut <= session.batch /\ (Live => session.cut < session.batch)

ProcessingInv ==
    TypeOK /\ RequestsTyped /\ ObservedOnce /\ BatchInv /\ BatchCoherent

-----------------------------------------------------------------------------

(* A request ends, or goes on with another step. *)
LEMMA IdleRequest == Idle \in Requests /\ Idle.pc = "idle"
  BY DEF Idle, Requests, OfFile

(* Of finishing, going on and beginning, what each request carries stays typed. *)
LEMMA FinishTyped ==
    ASSUME RequestsTyped, NEW w \in Workers, Finish(w) PROVE RequestsTyped'
  BY IdleRequest DEF Finish, RequestsTyped, OfFile

(* A request that goes on with a step on a file still names the file. *)
LEMMA GotoTyped ==
    ASSUME RequestsTyped, NEW w \in Workers, NEW p \in OfFile \cup {"batch"}, Goto(w, p),
           p \in OfFile => local[w].file \in Files
    PROVE  RequestsTyped'
  BY DEF Goto, RequestsTyped, Requests

(* A new request for a file, or for the batch. *)
LEMMA BeginTyped ==
    ASSUME RequestsTyped, NEW w \in Workers, NEW p \in OfFile, NEW f \in Files,
           local' = [local EXCEPT ![w] = [Idle EXCEPT !.pc = p, !.file = f]]
    PROVE  RequestsTyped'
<1>1. [Idle EXCEPT !.pc = p, !.file = f] \in Requests /\ [Idle EXCEPT !.pc = p, !.file = f].file = f
  BY DEF Idle, Requests
<1> QED
  BY <1>1 DEF RequestsTyped

(* A new request for the batch names no file. *)
LEMMA AskTyped ==
    ASSUME RequestsTyped, NEW w \in Workers, local' = [local EXCEPT ![w] = [Idle EXCEPT !.pc = "batch"]]
    PROVE  RequestsTyped'
<1>1. [Idle EXCEPT !.pc = "batch"] \in Requests /\ [Idle EXCEPT !.pc = "batch"].pc = "batch"
  BY DEF Idle, Requests
<1> QED
  BY <1>1 DEF RequestsTyped, OfFile

(* StartBatch: the request gets the next batch, and a full one all files that
   can have a recommendation. *)
LEMMA StartTyped ==
    ASSUME RequestsTyped, session \in SessionRows, root.recommend \in BOOLEAN, NEW w \in Workers,
           StartBatch(w)
    PROVE  /\ RequestsTyped' /\ \A v \in Workers : v # w => local'[v] = local[v]
           /\ local'[w].pc = "recommend" /\ local'[w].batch = session.batch + 1
           /\ local'[w].full => local'[w].todo = {f \in Files : Recommendable(f)}
<1> DEFINE r == [local[w] EXCEPT !.pc = "recommend", !.batch = session.batch + 1,
                    !.todo = IF root.recommend THEN {f \in Files : Recommendable(f)} ELSE {},
                    !.full = root.recommend]
<1>1. local' = [local EXCEPT ![w] = r]
  BY DEF StartBatch
<1>2. session.batch + 1 \in Nat
  BY DEF SessionRows
<1>3. /\ r \in Requests /\ r.pc = "recommend" /\ r.batch = session.batch + 1
      /\ r.full => r.todo = {f \in Files : Recommendable(f)}
  BY <1>2 DEF RequestsTyped, Requests
<1> HIDE DEF r
<1> QED
  BY <1>1, <1>3 DEF RequestsTyped, OfFile

-----------------------------------------------------------------------------

(* Steps that neither begin a batch nor write for one: the session stays in its
   batch or leaves it, a file becomes neither READY nor usable while READY,
   nobody claims a file of a batch in preparation, and no request begins to
   recommend. *)
Quiet ==
    /\ session'.batch = session.batch /\ session'.full = session.full /\ session'.cut = session.cut
    /\ session'.status \in {"GENERATING", "COMPLETED"} => session'.status = session.status
    /\ Live' => Live
    /\ \A f \in Files :
          /\ file'[f].rec = file[f].rec
          /\ file'[f].stage = "READY" => file[f].stage = "READY" /\ (file'[f].obs > 0 => file[f].obs > 0)
          /\ session'.status = "GENERATING" /\ file[f].claim = None => file'[f].claim = None
    /\ \A w \in Workers : local'[w] = local[w] \/ local'[w].pc # "recommend"

(* A quiet step leaves what batches wrote as it is. *)
LEMMA QuietKeeps ==
    ASSUME BatchInv, BatchCoherent, Quiet
    PROVE  BatchInv' /\ BatchCoherent'
<1>1. BatchUndisturbed'
  BY DEF BatchCoherent, BatchUndisturbed, Quiet, Free
<1>2. \A S : Marked(S) => Marked(S)'
  BY DEF Marked, Usable, Quiet
<1>3. SuggestionsCurrent'
  BY DEF BatchCoherent, SuggestionsCurrent, Usable, Quiet
<1>4. /\ \A w \in Workers : local'[w].pc = "recommend" => local'[w].batch <= session'.batch
      /\ \A v, w \in Workers : v # w /\ local'[v].pc = "recommend" /\ local'[w].pc = "recommend"
                                  => local'[v].batch # local'[w].batch
      /\ session'.cut <= session'.batch /\ (Live' => session'.cut < session'.batch)
  BY DEF Quiet, BatchInv
<1>5. ASSUME NEW w \in Workers, Preparing(w)', local'[w].full PROVE Marked(local[w].todo)' /\ local'[w] = local[w]
  <2>1. local'[w] = local[w] /\ Preparing(w) /\ local[w].full
    BY <1>5 DEF Quiet, Preparing
  <2>2. Marked(local[w].todo)
    BY <2>1 DEF BatchInv
  <2> QED
    BY <1>2, <2>1, <2>2
<1> QED
  BY <1>1, <1>3, <1>4, <1>5 DEF BatchInv, BatchCoherent, Marked

-----------------------------------------------------------------------------

(* The other parts of a typed state. *)
RootRows == [device : BOOLEAN, readable : BOOLEAN, rev : Nat, recommend : BOOLEAN, superseded : BOOLEAN]
Commands == [Files -> {"NONE", "OPEN", "DUE", "CLOSED"}]
CountRows == [events : 0..MaxEvents, requests : 0..MaxRequests]

(* The type invariant, by the names of its parts. *)
LEMMA Types ==
    TypeOK <=> /\ root \in RootRows /\ session \in SessionRows /\ file \in [Files -> FileRows]
               /\ command \in Commands /\ counts \in CountRows
  BY DEF TypeOK, RootRows, SessionRows, FileRows, Commands, CountRows

(* They hold with the invariant. *)
LEMMA Parts ==
    ASSUME ProcessingInv
    PROVE  /\ root \in RootRows /\ session \in SessionRows /\ file \in [Files -> FileRows]
           /\ command \in Commands /\ counts \in CountRows /\ RequestsTyped
  BY Types DEF ProcessingInv

(* What a step does to one file, if to any. *)
FileStep ==
    /\ file' \in [Files -> FileRows]
    /\ \A f \in Files :
          /\ file'[f].rec = file[f].rec
          /\ file'[f].stage = "READY" => file[f].stage = "READY" /\ (file'[f].obs > 0 => file[f].obs > 0)
          /\ file'[f].obs <= 1
          /\ session.status = "GENERATING" /\ file[f].claim = None => file'[f].claim = None

(* A step that writes no file. *)
LEMMA Unchanged == ASSUME ProcessingInv, file' = file PROVE FileStep
  BY Types DEF ProcessingInv, ObservedOnce, FileStep

(* The bounds are used one at a time. *)
LEMMA BoundTyped ==
    ASSUME ProcessingInv, Event \/ Request \/ UNCHANGED counts PROVE counts' \in CountRows
  BY Types, ProcessingAssumption DEF ProcessingInv, CountRows, Event, Request

(* Closing commands keeps them typed. *)
LEMMA CloseTyped == ASSUME command \in Commands, NEW S PROVE Close(S) \in Commands
  BY DEF Commands, Close

(* No file is claimed anew, and its stage is kept or one short of READY. *)
LEMMA GentleStep ==
    ASSUME ProcessingInv, file' \in [Files -> FileRows],
           \A g \in Files : /\ file'[g].rec = file[g].rec /\ file'[g].obs = file[g].obs
                            /\ file'[g].stage = file[g].stage \/ file'[g].stage # "READY"
                            /\ file[g].claim = None => file'[g].claim = None
    PROVE  FileStep
<1>1. \A g \in Files : file[g].obs <= 1
  BY DEF ProcessingInv, ObservedOnce
<1> SUFFICES ASSUME NEW g \in Files
             PROVE  /\ file'[g].rec = file[g].rec /\ file'[g].obs <= 1
                    /\ file'[g].stage = "READY" => file[g].stage = "READY" /\ (file'[g].obs > 0 => file[g].obs > 0)
                    /\ file[g].claim = None => file'[g].claim = None
  BY DEF FileStep
<1> QED
  BY <1>1

(* The same of a step that writes the row of one file. *)
LEMMA GentleWrite ==
    ASSUME ProcessingInv, NEW f \in Files, NEW x \in FileRows, file' = [file EXCEPT ![f] = x],
           x.rec = file[f].rec, x.obs = file[f].obs,
           x.stage = file[f].stage \/ x.stage # "READY", file[f].claim = None => x.claim = None
    PROVE  FileStep
<1>1. file \in [Files -> FileRows]
  BY Parts
<1>2. file' \in [Files -> FileRows] /\ file'[f] = x /\ \A g \in Files : g # f => file'[g] = file[g]
  BY <1>1
<1> QED
  BY <1>2, GentleStep

(* The first observation of a file: it gives up the claim and leaves EXAMINED. *)
LEMMA FirstObservation ==
    ASSUME ProcessingInv, NEW f \in Files, file[f].obs = 0,
           file' = [file EXCEPT ![f] = [file[f] EXCEPT !.stage = "EXAMINED", !.claim = None, !.obs = 1]]
    PROVE  FileStep
<1> DEFINE x == [file[f] EXCEPT !.stage = "EXAMINED", !.claim = None, !.obs = 1]
<1>1. file \in [Files -> FileRows] /\ \A g \in Files : file[g].obs <= 1
  BY Parts DEF ProcessingInv, ObservedOnce
<1>2. x \in FileRows /\ x.rec = file[f].rec /\ x.stage = "EXAMINED" /\ x.claim = None /\ x.obs = 1
  BY <1>1 DEF FileRows, Stages
<1>3. file' \in [Files -> FileRows] /\ file'[f] = x /\ \A g \in Files : g # f => file'[g] = file[g]
  BY <1>1, <1>2
<1> HIDE DEF x
<1>4. ASSUME NEW g \in Files
      PROVE  /\ file'[g].rec = file[g].rec /\ file'[g].obs <= 1
             /\ file'[g].stage = "READY" => file[g].stage = "READY" /\ (file'[g].obs > 0 => file[g].obs > 0)
             /\ file[g].claim = None => file'[g].claim = None
  <2>1. CASE g = f
    BY <1>2, <1>3, <2>1
  <2>2. CASE g # f
    BY <1>1, <1>3, <2>2
  <2> QED
    BY <2>1, <2>2
<1> QED
  BY <1>3, <1>4 DEF FileStep

(* releaseObservationLease: a request gives up its own claim. *)
LEMMA ReleasedStep == ASSUME ProcessingInv, NEW w, NEW f \in Files, file' = Released(w, f) PROVE FileStep
<1>1. file \in [Files -> FileRows]
  BY Parts
<1>2. CASE file' = file
  BY <1>2, Unchanged
<1>3. CASE file' = [file EXCEPT ![f].claim = None, ![f].expired = FALSE]
  <2>1. [file[f] EXCEPT !.claim = None, !.expired = FALSE] \in FileRows
    BY <1>1 DEF FileRows
  <2>2. file' = [file EXCEPT ![f] = [file[f] EXCEPT !.claim = None, !.expired = FALSE]]
    BY <1>1, <1>3
  <2> QED
    BY <1>1, <2>1, <2>2, GentleWrite DEF FileRows
<1> QED
  BY <1>2, <1>3 DEF Released

(* A request that ends and leaves its claim behind. *)
LEMMA LeftStep == ASSUME ProcessingInv, NEW w \in Workers, NEW f \in Files, file' = Left(w, f) PROVE FileStep
<1>1. file \in [Files -> FileRows]
  BY Parts
<1>2. CASE file' = file
  BY <1>2, Unchanged
<1>3. CASE file[f].claim = w /\ file' = [file EXCEPT ![f].claim = Orphan]
  <2> DEFINE x == [file[f] EXCEPT !.claim = Orphan]
  <2>1. x \in FileRows /\ x.rec = file[f].rec /\ x.obs = file[f].obs /\ x.stage = file[f].stage
    BY <1>1 DEF FileRows
  <2>2. file' = [file EXCEPT ![f] = x]
    BY <1>1, <1>3
  <2>3. file[f].claim # None
    BY <1>3, ProcessingAssumption
  <2> QED
    BY <2>1, <2>2, <2>3, GentleWrite
<1> QED
  BY <1>2, <1>3 DEF Left

(* A file that fails with its claim. *)
LEMMA FailsStep ==
    ASSUME ProcessingInv, NEW f \in Files, file' = [file EXCEPT ![f].stage = "FAILED", ![f].claim = None]
    PROVE  FileStep
<1> DEFINE x == [file[f] EXCEPT !.stage = "FAILED", !.claim = None]
<1>1. file \in [Files -> FileRows]
  BY Parts
<1>2. x \in FileRows /\ x.rec = file[f].rec /\ x.obs = file[f].obs /\ x.stage # "READY" /\ x.claim = None
  BY <1>1 DEF FileRows, Stages
<1>3. file' = [file EXCEPT ![f] = x]
  BY <1>1
<1> QED
  BY <1>2, <1>3, GentleWrite

(* markFileFailure. *)
LEMMA MarkedStep == ASSUME ProcessingInv, NEW w \in Workers, NEW f \in Files, file' = MarkedFailed(w, f) PROVE FileStep
  BY LeftStep, FailsStep DEF MarkedFailed

(* claimObservationLease: not while a batch is in preparation. *)
LEMMA ClaimStep ==
    ASSUME ProcessingInv, NEW w \in Workers, NEW f \in Files, Claimable(f), file' = ClaimTaken(w, f)
    PROVE  FileStep
<1>1. file \in [Files -> FileRows] /\ root.rev \in Nat
  BY Parts DEF RootRows
<1>2. /\ file' = [file EXCEPT ![f].claim = w, ![f].rev = root.rev, ![f].expired = FALSE]
      /\ session.status # "GENERATING"
  BY DEF ClaimTaken, Claimable
<1>3. file' \in [Files -> FileRows]
  <2> DEFINE x == [file[f] EXCEPT !.claim = w, !.rev = root.rev, !.expired = FALSE]
  <2>1. x \in FileRows
    BY <1>1 DEF FileRows
  <2>2. file' = [file EXCEPT ![f] = x]
    BY <1>1, <1>2
  <2> QED
    BY <1>1, <2>1, <2>2
<1>4. \A g \in Files : /\ file'[g].rec = file[g].rec /\ file'[g].stage = file[g].stage
                       /\ file'[g].obs = file[g].obs
  BY <1>1, <1>2 DEF FileRows
<1> QED
  BY <1>2, <1>3, <1>4 DEF FileStep, ProcessingInv, ObservedOnce

(* markRemoteReadFailure: no file becomes READY by it. *)
LEMMA FailedStep ==
    ASSUME ProcessingInv, NEW f \in Files, file' = Failed(f) PROVE FileStep
<1> USE DEF ProcessingInv, ObservedOnce, FileStep, Failed
<1>1. file \in [Files -> FileRows]
  BY Types
<1> QED
  BY <1>1 DEF FileRows, Stages

-----------------------------------------------------------------------------

(* What becomes of the request that steps, and of the others. *)
Moves == RequestsTyped' /\ \A w \in Workers : local'[w] = local[w] \/ local'[w].pc # "recommend"

(* No request moves. *)
LEMMA StayMoves == ASSUME RequestsTyped, UNCHANGED local PROVE Moves
  BY DEF Moves, RequestsTyped

(* A request ends. *)
LEMMA FinishMoves == ASSUME RequestsTyped, NEW w \in Workers, Finish(w) PROVE Moves
<1>1. \A v \in Workers : local'[v] = local[v] \/ local'[v].pc # "recommend"
  BY IdleRequest DEF Finish, RequestsTyped
<1> QED
  BY <1>1, FinishTyped DEF Moves

(* A request goes on with another step. *)
LEMMA GotoMoves ==
    ASSUME RequestsTyped, NEW w \in Workers, NEW p \in OfFile \cup {"batch"}, Goto(w, p),
           p \in OfFile => local[w].file \in Files
    PROVE  Moves
<1>1. \A v \in Workers : local'[v] = local[v] \/ local'[v].pc # "recommend"
  BY DEF Goto, RequestsTyped, Requests, OfFile
<1> QED
  BY <1>1, GotoTyped DEF Moves

(* A request begins, for a file. *)
LEMMA BeginMoves ==
    ASSUME RequestsTyped, NEW w \in Workers, NEW p \in OfFile, NEW f \in Files,
           local' = [local EXCEPT ![w] = [Idle EXCEPT !.pc = p, !.file = f]]
    PROVE  Moves
<1>1. \A v \in Workers : local'[v] = local[v] \/ local'[v].pc # "recommend"
  BY DEF RequestsTyped, Idle, OfFile
<1> QED
  BY <1>1, BeginTyped DEF Moves

(* A request begins, for the batch. *)
LEMMA AskMoves ==
    ASSUME RequestsTyped, NEW w \in Workers, local' = [local EXCEPT ![w] = [Idle EXCEPT !.pc = "batch"]]
    PROVE  Moves
<1>1. \A v \in Workers : local'[v] = local[v] \/ local'[v].pc # "recommend"
  BY DEF RequestsTyped, Idle
<1> QED
  BY <1>1, AskTyped DEF Moves

(* The session stays in its batch, or leaves it for good. *)
SessionStep ==
    /\ session' \in SessionRows
    /\ session'.batch = session.batch /\ session'.full = session.full /\ session'.cut = session.cut
    /\ session'.status \in {"GENERATING", "COMPLETED"} => session'.status = session.status
    /\ session'.status = "GENERATING" /\ session'.lease => session.lease \/ root.device

(* A quiet step, put together. *)
LEMMA StepKeeps ==
    ASSUME ProcessingInv, FileStep, Moves, session' = session \/ SessionStep,
           root' \in RootRows, root'.device = root.device, command' \in Commands, counts' \in CountRows
    PROVE  ProcessingInv'
<1>1. SessionStep
  BY Types DEF ProcessingInv, SessionStep
<1>2. TypeOK'
  <2>1. root' \in RootRows /\ session' \in SessionRows /\ file' \in [Files -> FileRows]
        /\ command' \in Commands /\ counts' \in CountRows
    BY <1>1 DEF SessionStep, FileStep
  <2> QED
    BY <2>1 DEF TypeOK, RootRows, SessionRows, FileRows, Commands, CountRows
<1>3. Quiet
  BY <1>1 DEF SessionStep, FileStep, Moves, Quiet, Live
<1>4. BatchInv' /\ BatchCoherent'
  BY <1>3, QuietKeeps DEF ProcessingInv
<1>5. RequestsTyped' /\ ObservedOnce'
  BY DEF Moves, FileStep, ObservedOnce
<1> QED
  BY <1>2, <1>4, <1>5 DEF ProcessingInv

-----------------------------------------------------------------------------

(* Reads of a paired Mac. *)
LEMMA ReadsKeep ==
    ASSUME ProcessingInv, NEW w \in Workers,
           FailRead(w) \/ ClaimObservation(w) \/ ReuseRead(w) \/ StoreRead(w) \/ ExpireRead(w)
             \/ CloseExpired(w)
    PROVE  ProcessingInv'
<1> DEFINE f == local[w].file
<1>1. /\ root \in RootRows /\ file \in [Files -> FileRows] /\ command \in Commands /\ counts \in CountRows
      /\ RequestsTyped
  BY Parts
<1>2. local[w].pc \in OfFile /\ f \in Files
  BY <1>1 DEF FailRead, ClaimObservation, ReuseRead, StoreRead, ExpireRead, CloseExpired, OfFile, RequestsTyped
<1>3. \A p \in OfFile \cup {"batch"} : Goto(w, p) => Moves
  BY <1>1, <1>2, GotoMoves
<1>4. Finish(w) => Moves
  BY <1>1, FinishMoves
<1> HIDE DEF f
<1>5. CASE FailRead(w)
  <2>1. FileStep
    BY <1>2, <1>5, FailedStep, Unchanged DEF FailRead, f
  <2>2. Moves /\ UNCHANGED <<root, session, command, counts>>
    BY <1>3, <1>4, <1>5 DEF FailRead
  <2> QED
    BY <1>1, <2>1, <2>2, StepKeeps
<1>6. CASE ClaimObservation(w)
  <2>1. FileStep
    BY <1>2, <1>6, ClaimStep, Unchanged DEF ClaimObservation, f
  <2>2. Moves /\ UNCHANGED <<root, session, command, counts>>
    BY <1>3, <1>4, <1>6 DEF ClaimObservation, OfFile
  <2> QED
    BY <1>1, <2>1, <2>2, StepKeeps
<1>7. CASE StoreRead(w)
  <2>1. FileStep
    <3>1. CASE ~Owns(w, f)
      BY <1>2, <1>7, <3>1, ReleasedStep DEF StoreRead, f
    <3>2. CASE Owns(w, f)
      <4> DEFINE x == [file[f] EXCEPT !.stage = "READ"]
      <4>1. file' = [file EXCEPT ![f] = x]
        BY <1>1, <1>2, <1>7, <3>2 DEF StoreRead, f
      <4>2. /\ x \in FileRows /\ x.rec = file[f].rec /\ x.obs = file[f].obs
            /\ x.stage = "READ" /\ x.claim = file[f].claim
        BY <1>1, <1>2 DEF FileRows, Stages
      <4> QED
        BY <1>2, <4>1, <4>2, GentleWrite
    <3> QED
      BY <3>1, <3>2
  <2>2. Moves /\ UNCHANGED <<root, session, command, counts>>
    BY <1>3, <1>4, <1>7 DEF StoreRead, OfFile
  <2> QED
    BY <1>1, <2>1, <2>2, StepKeeps
<1>8. CASE ExpireRead(w)
  <2>1. FileStep
    BY <1>2, <1>8, FailedStep, Unchanged DEF ExpireRead, f
  <2>2. Moves /\ UNCHANGED <<root, session, command, counts>>
    BY <1>3, <1>4, <1>8 DEF ExpireRead, OfFile
  <2> QED
    BY <1>1, <2>1, <2>2, StepKeeps
<1>9. CASE CloseExpired(w)
  <2>1. FileStep /\ Moves
    BY <1>1, <1>9, Unchanged, AskMoves DEF CloseExpired
  <2>2. command' \in Commands /\ UNCHANGED <<root, session, counts>>
    BY <1>1, <1>9, CloseTyped DEF CloseExpired
  <2> QED
    BY <1>1, <2>1, <2>2, StepKeeps
<1>10. CASE ReuseRead(w)
  <2>1. FileStep
    <3>1. CASE Owns(w, f) /\ Usable(f)
      <4> DEFINE stage == IF file[f].stage = "READY" THEN "READY" ELSE "EXAMINED"
                 x == [file[f] EXCEPT !.stage = stage, !.claim = None]
      <4>1. file' = [file EXCEPT ![f] = x]
        BY <1>1, <1>2, <1>10, <3>1 DEF ReuseRead, f
      <4>2. stage \in Stages /\ (stage = file[f].stage \/ stage # "READY")
        BY DEF Stages
      <4> HIDE DEF stage
      <4>3. /\ x \in FileRows /\ x.rec = file[f].rec /\ x.obs = file[f].obs
            /\ x.stage = stage /\ x.claim = None
        BY <1>1, <1>2, <4>2 DEF FileRows
      <4> QED
        BY <1>2, <4>1, <4>2, <4>3, GentleWrite
    <3>2. CASE ~(Owns(w, f) /\ Usable(f))
      BY <1>2, <1>10, <3>2, LeftStep DEF ReuseRead, f
    <3> QED
      BY <3>1, <3>2
  <2>2. Moves /\ UNCHANGED <<root, session, command, counts>>
    BY <1>3, <1>4, <1>10 DEF ReuseRead
  <2> QED
    BY <1>1, <2>1, <2>2, StepKeeps
<1> QED
  BY <1>5, <1>6, <1>7, <1>8, <1>9, <1>10

(* Reports that arrive, and the commands that expire. *)
LEMMA ReportsKeep ==
    ASSUME ProcessingInv, NEW w \in Workers, NEW f \in Files,
           ReportRead(w, f) \/ ReportFailure(w, f) \/ SelectExpired(w, f)
    PROVE  ProcessingInv'
<1>1. root \in RootRows /\ command \in Commands /\ counts \in CountRows /\ RequestsTyped
  BY Parts
<1>2. UNCHANGED <<root, session, file, command>> /\ counts' \in CountRows
  BY <1>1, BoundTyped DEF ReportRead, ReportFailure, SelectExpired
<1>3. Moves
  BY <1>1, BeginMoves DEF ReportRead, ReportFailure, SelectExpired, OfFile
<1> QED
  BY <1>1, <1>2, <1>3, Unchanged, StepKeeps

(* Commands that are queued, expire or are recovered. *)
LEMMA QueueKeeps == ASSUME ProcessingInv, QueueReads PROVE ProcessingInv'
<1>1. root \in RootRows /\ file \in [Files -> FileRows] /\ command \in Commands /\ counts \in CountRows
      /\ RequestsTyped
  BY Parts
<1>2. PICK S : /\ command' = [f \in Files |-> IF f \in S THEN "OPEN" ELSE command[f]]
               /\ file' = [f \in Files |-> IF f \in S THEN [file[f] EXCEPT !.stage = "READING"] ELSE file[f]]
  BY DEF QueueReads
<1>3. FileStep
  BY <1>1, <1>2 DEF FileStep, FileRows, Stages, ProcessingInv, ObservedOnce
<1>4. command' \in Commands
  BY <1>1, <1>2 DEF Commands
<1>5. UNCHANGED <<root, session, counts>> /\ Moves
  BY <1>1, StayMoves DEF QueueReads
<1> QED
  BY <1>1, <1>3, <1>4, <1>5, StepKeeps

(* Observations: of the next file of a folder on this computer, or of the file
   a person asks for. *)
LEMMA NextKeeps == ASSUME ProcessingInv, NEW w \in Workers, ProcessNext(w) PROVE ProcessingInv'
<1>1. /\ root \in RootRows /\ session \in SessionRows /\ file \in [Files -> FileRows]
      /\ command \in Commands /\ counts \in CountRows /\ RequestsTyped
  BY Parts
<1>2. counts' \in CountRows /\ UNCHANGED <<root, session, command>>
  BY <1>1, BoundTyped DEF ProcessNext
<1>3. PICK again \in BOOLEAN :
         IF ProcessingPage(again) = {}
         THEN local' = [local EXCEPT ![w] = [Idle EXCEPT !.pc = "batch"]] /\ UNCHANGED file
         ELSE \E f \in ProcessingPage(again) :
                 /\ Claimable(f) /\ file' = ClaimTaken(w, f)
                 /\ local' = [local EXCEPT ![w] = [Idle EXCEPT !.pc = "read", !.file = f]]
  BY DEF ProcessNext
<1>4. CASE ProcessingPage(again) = {}
  BY <1>1, <1>2, <1>3, <1>4, AskMoves, Unchanged, StepKeeps
<1>5. CASE ProcessingPage(again) # {}
  <2>1. PICK f \in Files :
           /\ Claimable(f) /\ file' = ClaimTaken(w, f)
           /\ local' = [local EXCEPT ![w] = [Idle EXCEPT !.pc = "read", !.file = f]]
    BY <1>3, <1>5 DEF ProcessingPage
  <2>2. Moves
    BY <1>1, <2>1, BeginMoves DEF OfFile
  <2> QED
    BY <1>1, <1>2, <2>1, <2>2, ClaimStep, StepKeeps
<1> QED
  BY <1>4, <1>5

(* The observation a person asks for: its file is claimed, read and claimed again. *)
LEMMA AskedKeeps ==
    ASSUME ProcessingInv, NEW w \in Workers, NEW f \in Files, ObserveFile(w, f) PROVE ProcessingInv'
<1> DEFINE m == [Idle EXCEPT !.pc = "ask", !.file = f, !.asked = TRUE]
<1>1. /\ root \in RootRows /\ session \in SessionRows /\ file \in [Files -> FileRows]
      /\ command \in Commands /\ counts \in CountRows /\ RequestsTyped
  BY Parts
<1>2. counts' \in CountRows /\ UNCHANGED <<root, session, command>> /\ local' = [local EXCEPT ![w] = m]
  BY <1>1, BoundTyped DEF ObserveFile
<1>3. m \in Requests /\ m.pc = "ask" /\ m.file = f
  BY DEF Idle, Requests, OfFile
<1> HIDE DEF m
<1>4. Moves
  BY <1>1, <1>2, <1>3 DEF Moves, RequestsTyped
<1> QED
  BY <1>1, <1>2, <1>4, ClaimStep, StepKeeps DEF ObserveFile

LEMMA AskedOwnedKeeps ==
    ASSUME ProcessingInv, NEW w \in Workers, ReadAsked(w) \/ ClaimAsked(w) PROVE ProcessingInv'
<1> DEFINE f == local[w].file
<1>1. /\ root \in RootRows /\ session \in SessionRows /\ file \in [Files -> FileRows]
      /\ command \in Commands /\ counts \in CountRows /\ RequestsTyped
  BY Parts
<1>2. local[w].pc \in OfFile /\ f \in Files
  BY <1>1 DEF ReadAsked, ClaimAsked, OfFile, RequestsTyped
<1>3. \A p \in OfFile \cup {"batch"} : Goto(w, p) => Moves
  BY <1>1, <1>2, GotoMoves
<1>4. Finish(w) => Moves
  BY <1>1, FinishMoves
<1> HIDE DEF f
<1>5. Moves /\ UNCHANGED <<root, session, command, counts>>
  BY <1>3, <1>4 DEF ReadAsked, ClaimAsked, OfFile
<1>6. CASE ReadAsked(w)
  <2> DEFINE x == [file[f] EXCEPT !.stage = "READ", !.claim = None]
  <2>1. file' = [file EXCEPT ![f] = x]
    BY <1>1, <1>2, <1>6 DEF ReadAsked, f
  <2>2. /\ x \in FileRows /\ x.rec = file[f].rec /\ x.obs = file[f].obs
        /\ x.stage = "READ" /\ x.claim = None
    BY <1>1, <1>2 DEF FileRows, Stages
  <2>3. FileStep
    BY <1>2, <2>1, <2>2, GentleWrite
  <2> QED
    BY <1>1, <1>5, <2>3, StepKeeps
<1>7. CASE ClaimAsked(w)
  <2>1. FileStep
    BY <1>2, <1>7, ClaimStep, Unchanged DEF ClaimAsked, f
  <2> QED
    BY <1>1, <1>5, <2>1, StepKeeps
<1> QED
  BY <1>6, <1>7

(* What the owner of a claim writes: nobody owns a file of a batch in
   preparation, and the second observation of a file is never written. *)
LEMMA OwnedKeeps ==
    ASSUME ProcessingInv, NEW w \in Workers, ReadLocal(w) \/ Examine(w) \/ CommitObservation(w)
    PROVE  ProcessingInv'
<1> DEFINE f == local[w].file
<1>1. /\ root \in RootRows /\ session \in SessionRows /\ file \in [Files -> FileRows]
      /\ command \in Commands /\ counts \in CountRows /\ RequestsTyped
  BY Parts
<1>2. local[w].pc \in OfFile /\ f \in Files
  BY <1>1 DEF ReadLocal, Examine, CommitObservation, OfFile, RequestsTyped
<1>3. (\A p \in OfFile \cup {"batch"} : Goto(w, p) => Moves) /\ (Finish(w) => Moves)
  BY <1>1, <1>2, GotoMoves, FinishMoves
<1> HIDE DEF f
<1>4. CASE ReadLocal(w)
  <2>1. FileStep
    <3> DEFINE done == [file[f] EXCEPT !.stage = "EXAMINED", !.claim = None]
               read == [file[f] EXCEPT !.stage = "READ"]
    <3>1. CASE Usable(f)
      <4>1. file' = [file EXCEPT ![f] = done]
        BY <1>1, <1>2, <1>4, <3>1 DEF ReadLocal, f
      <4>2. /\ done \in FileRows /\ done.rec = file[f].rec /\ done.obs = file[f].obs
            /\ done.stage = "EXAMINED" /\ done.claim = None
        BY <1>1, <1>2 DEF FileRows, Stages
      <4> QED
        BY <1>2, <4>1, <4>2, GentleWrite
    <3>2. CASE ~Usable(f)
      <4>1. file' = [file EXCEPT ![f] = read]
        BY <1>1, <1>2, <1>4, <3>2 DEF ReadLocal, f
      <4>2. /\ read \in FileRows /\ read.rec = file[f].rec /\ read.obs = file[f].obs
            /\ read.stage = "READ" /\ read.claim = file[f].claim
        BY <1>1, <1>2 DEF FileRows, Stages
      <4> QED
        BY <1>2, <4>1, <4>2, GentleWrite
    <3> QED
      BY <3>1, <3>2
  <2>2. Moves /\ UNCHANGED <<root, command, counts>>
    BY <1>3, <1>4 DEF ReadLocal, OfFile
  <2>3. SessionStep
    BY <1>1, <1>4 DEF ReadLocal, SessionStep, SessionRows
  <2> QED
    BY <1>1, <2>1, <2>2, <2>3, StepKeeps
<1>5. CASE Examine(w)
  <2>1. FileStep
    <3> DEFINE x == [file[f] EXCEPT !.stage = "EXAMINING"]
    <3>1. file' = [file EXCEPT ![f] = x]
      BY <1>1, <1>2, <1>5 DEF Examine, f
    <3>2. x \in FileRows /\ x.rec = file[f].rec /\ x.obs = file[f].obs
          /\ x.stage = "EXAMINING" /\ x.claim = file[f].claim
      BY <1>1, <1>2 DEF FileRows, Stages
    <3> QED
      BY <1>2, <3>1, <3>2, GentleWrite
  <2>2. Moves /\ UNCHANGED <<root, session, command, counts>>
    BY <1>3, <1>5 DEF Examine, OfFile
  <2> QED
    BY <1>1, <2>1, <2>2, StepKeeps
<1>6. CASE CommitObservation(w)
  <2>1. file[f].obs = 0
    <3>1. file[f].obs \in Nat
      BY <1>1, <1>2 DEF FileRows
    <3>2. ~Usable(f)
      BY <1>6 DEF CommitObservation, f
    <3> QED
      BY <3>1, <3>2 DEF Usable
  <2>2. FileStep
    <3>1. file' = [file EXCEPT ![f] = [file[f] EXCEPT !.stage = "EXAMINED", !.claim = None, !.obs = 1]]
      BY <1>1, <1>2, <1>6, <2>1 DEF CommitObservation, f, FileRows
    <3> QED
      BY <1>2, <2>1, <3>1, FirstObservation
  <2>3. Moves /\ UNCHANGED <<root, session, command, counts>>
    BY <1>3, <1>6 DEF CommitObservation, OfFile
  <2> QED
    BY <1>1, <2>2, <2>3, StepKeeps
<1> QED
  BY <1>4, <1>5, <1>6

(* An observation that is refused or fails, and a request that dies. *)
LEMMA GivenUpKeeps ==
    ASSUME ProcessingInv, NEW w \in Workers,
           ObservationRefused(w) \/ ObservationFails(w) \/ WorkerDies(w)
    PROVE  ProcessingInv'
<1> DEFINE f == local[w].file
<1>1. /\ root \in RootRows /\ session \in SessionRows /\ file \in [Files -> FileRows]
      /\ command \in Commands /\ counts \in CountRows /\ RequestsTyped
  BY Parts
<1>2. Finish(w) \/ UNCHANGED local => Moves
  BY <1>1, FinishMoves, StayMoves
<1>3. Observing(w) => f \in Files
  BY <1>1 DEF Observing, OfFile, RequestsTyped
<1>4. UNCHANGED <<root, session, command>> /\ counts' \in CountRows /\ Moves
  <2>1. Goto(w, "batch") => Moves
    BY <1>1, GotoMoves DEF OfFile
  <2> QED
    BY <1>1, <1>2, <2>1, BoundTyped DEF ObservationRefused, ObservationFails, WorkerDies
<1> HIDE DEF f
<1>5. CASE ObservationRefused(w)
  <2>1. f \in Files /\ (file' = Released(w, f) \/ file' = MarkedFailed(w, f))
    BY <1>3, <1>5 DEF ObservationRefused, f
  <2> QED
    BY <1>1, <1>4, <2>1, ReleasedStep, MarkedStep, StepKeeps
<1>6. CASE ObservationFails(w)
  <2>1. /\ f \in Files
        /\ \/ file' = Released(w, f) \/ file' = MarkedFailed(w, f)
           \/ file' = [file EXCEPT ![f].stage = "FAILED", ![f].claim = None]
    BY <1>3, <1>6 DEF ObservationFails, f
  <2> QED
    BY <1>1, <1>4, <2>1, ReleasedStep, MarkedStep, FailsStep, StepKeeps
<1>7. CASE WorkerDies(w)
  <2>1. FileStep
    BY <1>1, <1>7, ProcessingAssumption DEF WorkerDies, FileStep, FileRows, ProcessingInv, ObservedOnce
  <2> QED
    BY <1>1, <1>4, <2>1, StepKeeps
<1> QED
  BY <1>5, <1>6, <1>7

(* Deadlines and recovery. *)
LEMMA DeadlinesKeep ==
    ASSUME ProcessingInv, NEW f \in Files, CommandDue(f) \/ ClaimExpires(f) PROVE ProcessingInv'
<1>1. /\ root \in RootRows /\ session \in SessionRows /\ file \in [Files -> FileRows]
      /\ command \in Commands /\ counts \in CountRows /\ RequestsTyped
  BY Parts
<1>2. UNCHANGED <<root, session>> /\ Moves /\ counts' \in CountRows
  BY <1>1, BoundTyped, StayMoves DEF CommandDue, ClaimExpires
<1>3. command' \in Commands
  BY <1>1 DEF CommandDue, ClaimExpires, Commands
<1>4. FileStep
  <2>1. CASE file' = file
    BY <2>1, Unchanged
  <2>2. CASE file' = [file EXCEPT ![f].expired = TRUE]
    <3>1. /\ file' \in [Files -> FileRows]
          /\ \A g \in Files : /\ file'[g].rec = file[g].rec /\ file'[g].obs = file[g].obs
                              /\ file'[g].stage = file[g].stage /\ file'[g].claim = file[g].claim
      BY <1>1, <2>2 DEF FileRows
    <3> QED
      BY <3>1, GentleStep
  <2> QED
    BY <2>1, <2>2 DEF CommandDue, ClaimExpires
<1> QED
  BY <1>1, <1>2, <1>3, <1>4, StepKeeps

(* Recovery of an abandoned file keeps it. *)
LEMMA RecoverKeeps ==
    ASSUME ProcessingInv, NEW w \in Workers, NEW f \in Files, RecoverAbandoned(w, f) PROVE ProcessingInv'
<1>1. /\ root \in RootRows /\ session \in SessionRows /\ file \in [Files -> FileRows]
      /\ command \in Commands /\ counts \in CountRows /\ RequestsTyped
  BY Parts
<1>2. Moves
  BY <1>1, AskMoves, StayMoves DEF RecoverAbandoned
<1>3. UNCHANGED <<root, session, counts>> /\ command' \in Commands
  BY <1>1, CloseTyped DEF RecoverAbandoned
<1>4. FileStep
  <2>1. PICK stage \in {"EXAMINED", "DISCOVERED"} :
           file' = [file EXCEPT ![f].claim = None, ![f].expired = FALSE, ![f].stage = stage]
    BY DEF RecoverAbandoned
  <2> DEFINE x == [file[f] EXCEPT !.claim = None, !.expired = FALSE, !.stage = stage]
  <2>2. x \in FileRows /\ file' = [file EXCEPT ![f] = x]
    <3>1. stage \in Stages
      BY DEF Stages
    <3>2. x \in FileRows
      BY <1>1, <3>1 DEF FileRows
    <3> QED
      BY <1>1, <2>1, <3>2
  <2>3. x.rec = file[f].rec /\ x.obs = file[f].obs /\ x.stage # "READY" /\ x.claim = None
    BY <1>1 DEF FileRows
  <2> QED
    BY <2>2, <2>3, GentleWrite
<1> QED
  BY <1>1, <1>2, <1>3, <1>4, StepKeeps

(* What a person asks for, and a lease that ends. *)
LEMMA AskKeeps ==
    ASSUME ProcessingInv,
           LeaseExpires \/ DelayBatch \/ TogglePermission \/ Reconnect \/ PhysicalOutcome
             \/ \E f \in Files : RetryRead(f) \/ RejectObservation(f)
    PROVE  ProcessingInv'
<1>1. /\ root \in RootRows /\ session \in SessionRows /\ file \in [Files -> FileRows]
      /\ command \in Commands /\ counts \in CountRows /\ RequestsTyped
  BY Parts
<1>2. UNCHANGED local /\ (Event \/ Request \/ UNCHANGED counts)
  BY DEF LeaseExpires, DelayBatch, TogglePermission, Reconnect, PhysicalOutcome, RetryRead, RejectObservation
<1>3. Moves /\ counts' \in CountRows
  BY <1>1, <1>2, BoundTyped, StayMoves
<1>4. root' \in RootRows /\ root'.device = root.device
  <2>1. \/ root' = root
        \/ \E v \in BOOLEAN : root' = [root EXCEPT !.recommend = v] \/ root' = [root EXCEPT !.superseded = v]
        \/ root' = [root EXCEPT !.rev = root.rev + 1]
    BY <1>1
    DEF LeaseExpires, DelayBatch, TogglePermission, Reconnect, PhysicalOutcome, RetryRead, RejectObservation, RootRows
  <2> QED
    BY <1>1, <2>1 DEF RootRows
<1>5. command' \in Commands
  <2>1. CASE \E f \in Files : RetryRead(f)
    BY <1>1, <2>1 DEF RetryRead, Commands
  <2>2. CASE ~ \E f \in Files : RetryRead(f)
    BY <1>1, <2>2, CloseTyped
    DEF LeaseExpires, DelayBatch, TogglePermission, Reconnect, PhysicalOutcome, RejectObservation
  <2> QED
    BY <2>1, <2>2
<1>6. FileStep
  <2>1. CASE file' = file
    BY <2>1, Unchanged
  <2>2. CASE file' # file
    <3>1. PICK f \in Files : RetryRead(f) \/ RejectObservation(f)
      BY <2>2 DEF LeaseExpires, DelayBatch, TogglePermission, Reconnect, PhysicalOutcome
    <3> QED
      BY <1>1, <3>1 DEF RetryRead, RejectObservation, FileStep, FileRows, Stages, ProcessingInv, ObservedOnce
  <2> QED
    BY <2>1, <2>2
<1>7. session' = session \/ SessionStep
  <2>1. \/ session' = session
        \/ session' = [session EXCEPT !.lease = FALSE]
        \/ session' = [session EXCEPT !.lease = TRUE] /\ root.device
        \/ session' = [session EXCEPT !.status = "READING", !.owner = FALSE, !.lease = FALSE]
        \/ session' = Retired
    BY DEF LeaseExpires, DelayBatch, TogglePermission, Reconnect, PhysicalOutcome, RetryRead, RejectObservation
  <2> QED
    BY <1>1, <2>1 DEF Retired, SessionStep, SessionRows
<1> QED
  BY <1>1, <1>3, <1>4, <1>5, <1>6, <1>7, StepKeeps

-----------------------------------------------------------------------------
(* Batches. *)

(* A new batch is newer than every request's, and no file is claimed when it
   begins. *)
LEMMA StartKeeps ==
    ASSUME ProcessingInv, NEW w \in Workers, NEW explicit \in BOOLEAN, ClaimableBatch(explicit),
           session' = BatchClaimed, StartBatch(w), UNCHANGED <<root, file, command>>,
           counts' \in CountRows
    PROVE  ProcessingInv'
<1>1. /\ root \in RootRows /\ session \in SessionRows /\ file \in [Files -> FileRows]
      /\ command \in Commands /\ counts \in CountRows /\ RequestsTyped
  BY Parts
<1>2. /\ session' \in SessionRows /\ session'.batch = session.batch + 1 /\ session'.status = "GENERATING"
      /\ session'.cut = session.cut /\ session.batch \in Nat /\ session.cut \in Nat
  <2>1. session.batch \in Nat /\ session.cut \in Nat /\ session.batch + 1 \in Nat
    BY <1>1 DEF SessionRows
  <2>2. session' = [session EXCEPT !.status = "GENERATING", !.batch = session.batch + 1,
                                   !.owner = TRUE, !.lease = TRUE]
    BY DEF BatchClaimed
  <2> QED
    BY <1>1, <2>1, <2>2 DEF SessionRows
<1>3. /\ RequestsTyped' /\ \A v \in Workers : v # w => local'[v] = local[v]
      /\ local'[w].pc = "recommend" /\ local'[w].batch = session.batch + 1
      /\ local'[w].full => local'[w].todo = {f \in Files : Recommendable(f)}
  BY <1>1, StartTyped DEF RootRows
<1>4. TypeOK'
  BY <1>1, <1>2 DEF TypeOK, RootRows, SessionRows, FileRows, Commands, CountRows
<1>5. \A v \in Workers : local[v].pc = "recommend" => local[v].batch \in Nat /\ local[v].batch <= session.batch
  BY <1>1 DEF ProcessingInv, BatchInv, RequestsTyped, Requests
<1>6. /\ \A v \in Workers : local'[v].pc = "recommend" => local'[v].batch <= session'.batch
      /\ \A u, v \in Workers : u # v /\ local'[u].pc = "recommend" /\ local'[v].pc = "recommend"
                                  => local'[u].batch # local'[v].batch
  <2>1. \A v \in Workers \ {w} : local'[v].pc = "recommend"
                                  => local'[v].batch = local[v].batch /\ local[v].batch < session.batch + 1
    BY <1>2, <1>3, <1>5
  <2>2. \A u, v \in Workers \ {w} : u # v /\ local'[u].pc = "recommend" /\ local'[v].pc = "recommend"
                                  => local'[u].batch # local'[v].batch
    BY <1>3 DEF ProcessingInv, BatchInv
  <2> QED
    BY <1>2, <1>3, <1>5, <2>1, <2>2
<1>7. \A v \in Workers : Preparing(v)' => v = w
  BY <1>2, <1>3, <1>5 DEF Preparing
<1>8. local'[w].full => Marked(local[w].todo)'
  BY <1>3 DEF Marked, Recommendable, Usable
<1>9. BatchInv'
  <2>1. session.cut <= session.batch
    BY DEF ProcessingInv, BatchInv
  <2>2. session'.cut <= session'.batch /\ session'.cut < session'.batch
    BY <1>2, <2>1
  <2> QED
    BY <1>6, <1>7, <1>8, <2>2 DEF BatchInv, Marked
<1>10. BatchCoherent'
  <2>1. \A f \in Files : file[f].claim = None
    BY DEF ClaimableBatch, Understood, Free
  <2> QED
    BY <1>2, <2>1 DEF ProcessingInv, BatchCoherent, BatchUndisturbed, Free, SuggestionsCurrent
<1> QED
  BY <1>3, <1>4, <1>9, <1>10 DEF ProcessingInv, ObservedOnce

(* The claim of a batch at the end of a request, or by one of its own. *)
LEMMA TryKeeps ==
    ASSUME ProcessingInv, NEW w \in Workers, TryBatch(w) \/ StartOwnBatch(w) PROVE ProcessingInv'
<1>1. /\ root \in RootRows /\ session \in SessionRows /\ file \in [Files -> FileRows]
      /\ command \in Commands /\ counts \in CountRows /\ RequestsTyped
  BY Parts
<1>2. counts' \in CountRows
  BY <1>1, BoundTyped DEF TryBatch, StartOwnBatch
<1>3. CASE session' = BatchClaimed /\ StartBatch(w) /\ UNCHANGED command
           /\ (ClaimableBatch(FALSE) \/ ClaimableBatch(TRUE))
  <2>1. UNCHANGED <<root, file, command>>
    BY <1>3 DEF TryBatch, StartOwnBatch
  <2> QED
    BY <1>2, <1>3, <2>1, StartKeeps
<1>4. CASE TryBatch(w) /\ ~ClaimableBatch(FALSE)
  <2>1. session' = session /\ Finish(w) /\ command' = Acknowledge(w) /\ UNCHANGED <<root, file>>
    BY <1>4 DEF TryBatch
  <2>2. command' \in Commands /\ Moves
    BY <1>1, <2>1, CloseTyped, FinishMoves DEF Acknowledge
  <2> QED
    BY <1>1, <1>2, <2>1, <2>2, Unchanged, StepKeeps
<1> QED
  BY <1>3, <1>4 DEF TryBatch, StartOwnBatch

(* Only the batch in preparation writes a recommendation. *)
LEMMA RecommendKeeps == ASSUME ProcessingInv, NEW w \in Workers, RecommendFile(w) PROVE ProcessingInv'
<1>1. /\ root \in RootRows /\ session \in SessionRows /\ file \in [Files -> FileRows]
      /\ command \in Commands /\ counts \in CountRows /\ RequestsTyped
  BY Parts
<1>2. PICK f \in local[w].todo :
         /\ local' = [local EXCEPT ![w].todo = local[w].todo \ {f}]
         /\ \/ file' = Suggested(w, f) /\ UNCHANGED counts
            \/ Event /\ file' = [file EXCEPT ![f].stage = "FAILED"]
  BY DEF RecommendFile
<1>3. /\ local[w].pc = "recommend" /\ OwnsBatch(w) /\ UNCHANGED <<root, session, command>>
      /\ session.status = "GENERATING" /\ session.batch = local[w].batch /\ f \in Files
      /\ local[w].batch \in Nat /\ local[w].todo \subseteq Files /\ Preparing(w)
      /\ session.cut < local[w].batch /\ session.cut \in Nat
  BY <1>1 DEF RecommendFile, OwnsBatch, RequestsTyped, Requests, ProcessingInv, BatchInv, SessionRows, Preparing, Live
<1>4. counts' \in CountRows
  BY <1>1, <1>2, BoundTyped
<1>5. /\ RequestsTyped'
      /\ \A v \in Workers : /\ local'[v].pc = local[v].pc /\ local'[v].batch = local[v].batch
                            /\ local'[v].full = local[v].full
                            /\ v # w => local'[v].todo = local[v].todo
      /\ local'[w].todo = local[w].todo \ {f}
  BY <1>1, <1>2, <1>3 DEF RequestsTyped, Requests
<1>6. /\ file' \in [Files -> FileRows]
      /\ \A g \in Files : /\ file'[g].obs = file[g].obs /\ file'[g].claim = file[g].claim
                          /\ g # f => file'[g] = file[g]
      /\ file'[f].rec # 0 => file'[f].rec = file[f].rec \/ file'[f].rec = session.batch
      /\ file'[f].stage = "READY" => file'[f].rec # 0
  <2> DEFINE rec == IF file[f].rec = 0 THEN local[w].batch ELSE file[f].rec
             x == [file[f] EXCEPT !.stage = "READY", !.rec = rec]
             y == [file[f] EXCEPT !.stage = "FAILED"]
  <2>1. file' = [file EXCEPT ![f] = x] \/ file' = [file EXCEPT ![f] = y]
    BY <1>1, <1>2, <1>3 DEF Suggested
  <2>2. file[f] \in FileRows /\ file[f].rec \in Nat
    BY <1>1, <1>3 DEF FileRows
  <2>3. rec \in Nat /\ rec # 0 /\ (rec = file[f].rec \/ rec = session.batch)
    BY <1>3, <2>2
  <2> HIDE DEF rec
  <2>4. /\ x \in FileRows /\ x.obs = file[f].obs /\ x.claim = file[f].claim /\ x.rec = rec
        /\ y \in FileRows /\ y.obs = file[f].obs /\ y.claim = file[f].claim /\ y.rec = file[f].rec
        /\ y.stage # "READY"
    BY <2>2, <2>3 DEF FileRows, Stages
  <2> HIDE DEF x, y
  <2> QED
    BY <1>1, <1>3, <2>1, <2>3, <2>4
<1>7. TypeOK'
  BY <1>1, <1>3, <1>4, <1>6 DEF TypeOK, RootRows, SessionRows, FileRows, Commands, CountRows
<1>8. BatchInv'
  <2>1. /\ \A v \in Workers : local'[v].pc = "recommend" => local'[v].batch <= session'.batch
        /\ \A u, v \in Workers : u # v /\ local'[u].pc = "recommend" /\ local'[v].pc = "recommend"
                                    => local'[u].batch # local'[v].batch
        /\ session'.cut <= session'.batch /\ (Live' => session'.cut < session'.batch)
    BY <1>3, <1>5 DEF ProcessingInv, BatchInv, Live
  <2>2. ASSUME NEW v \in Workers, Preparing(v)', local'[v].full PROVE Marked(local[v].todo)'
    <3>1. v = w /\ local[w].full
      BY <1>3, <1>5, <2>2 DEF Preparing, ProcessingInv, BatchInv
    <3>2. Marked(local[w].todo)
      BY <1>3, <3>1 DEF ProcessingInv, BatchInv
    <3>3. ASSUME NEW g \in Files, file'[g].stage = "READY", file'[g].obs > 0, g \notin local'[v].todo
          PROVE  file'[g].rec # 0
      <4>1. CASE g = f
        BY <1>6, <3>3, <4>1
      <4>2. CASE g # f
        <5>1. file'[g] = file[g] /\ g \notin local[w].todo
          BY <1>5, <1>6, <3>1, <3>3, <4>2
        <5> QED
          BY <3>2, <3>3, <5>1 DEF Marked, Usable
      <4> QED
        BY <4>1, <4>2
    <3> QED
      BY <3>3 DEF Marked, Usable
  <2> QED
    BY <2>1, <2>2 DEF BatchInv, Marked
<1>9. session' = session /\ session.status = "GENERATING"
  BY <1>3
<1>10. BatchUndisturbed'
  BY <1>6, <1>9 DEF ProcessingInv, BatchCoherent, BatchUndisturbed, Free
<1>11. SuggestionsCurrent'
  <2>1. ASSUME NEW g \in Files, file'[g].rec # 0 PROVE file'[g].rec > session.cut
    <3>1. file[g].rec # 0 => file[g].rec > session.cut
      BY DEF ProcessingInv, BatchCoherent, SuggestionsCurrent
    <3>2. file'[g].rec = file[g].rec \/ file'[g].rec = session.batch
      BY <1>6, <2>1
    <3> QED
      BY <1>3, <2>1, <3>1, <3>2
  <2> QED
    BY <1>9, <2>1 DEF SuggestionsCurrent
<1>12. ObservedOnce'
  BY <1>6 DEF ProcessingInv, ObservedOnce
<1> QED
  BY <1>5, <1>7, <1>8, <1>10, <1>11, <1>12 DEF ProcessingInv, BatchCoherent

(* A batch that is done has marked every file it recommended. *)
LEMMA CompleteKeeps ==
    ASSUME ProcessingInv, NEW w \in Workers, CompleteSession(w) \/ BatchRefused(w)
    PROVE  ProcessingInv'
<1>1. /\ root \in RootRows /\ session \in SessionRows /\ file \in [Files -> FileRows]
      /\ command \in Commands /\ counts \in CountRows /\ RequestsTyped
  BY Parts
<1>2. Moves /\ UNCHANGED <<root, file, counts>>
  BY <1>1, FinishMoves DEF CompleteSession, BatchRefused
<1>3. CASE UNCHANGED <<session, command>>
  BY <1>1, <1>2, <1>3, Unchanged, StepKeeps
<1>4. CASE CompleteSession(w) /\ ~UNCHANGED <<session, command>>
  <2>1. /\ session' = [session EXCEPT !.status = "COMPLETED", !.owner = FALSE, !.lease = FALSE,
                                      !.full = local[w].full, !.regenerating = FALSE]
        /\ command' = Acknowledge(w) /\ local[w].todo = {} /\ Preparing(w)
    BY <1>4 DEF CompleteSession, OwnsBatch, Preparing, Live
  <2>2. /\ session' \in SessionRows /\ session'.status = "COMPLETED" /\ session'.batch = session.batch
        /\ session'.full = local[w].full /\ session'.cut = session.cut
    BY <1>1, <2>1 DEF SessionRows, RequestsTyped, Requests
  <2>3. command' \in Commands
    BY <1>1, <2>1, CloseTyped DEF Acknowledge
  <2>4. TypeOK'
    BY <1>1, <1>2, <2>2, <2>3 DEF TypeOK, RootRows, SessionRows, FileRows, Commands, CountRows
  <2>5. local[w].full => Marked({})
    BY <2>1 DEF ProcessingInv, BatchInv
  <2>6. BatchCoherent'
    BY <1>2, <2>2, <2>5
    DEF ProcessingInv, BatchCoherent, BatchUndisturbed, SuggestionsCurrent, Marked, Usable
  <2>7. BatchInv'
    <3>1. ~Live' /\ \A v \in Workers : ~Preparing(v)'
      BY <2>2 DEF Preparing, Live
    <3>2. /\ \A v \in Workers : local'[v].pc = "recommend" => local'[v].batch <= session'.batch
          /\ \A u, v \in Workers : u # v /\ local'[u].pc = "recommend" /\ local'[v].pc = "recommend"
                                      => local'[u].batch # local'[v].batch
          /\ session'.cut <= session'.batch
      BY <1>2, <2>2 DEF Moves, ProcessingInv, BatchInv
    <3> QED
      BY <3>1, <3>2 DEF BatchInv
  <2> QED
    BY <1>2, <2>4, <2>6, <2>7 DEF ProcessingInv, Moves, ObservedOnce
<1> QED
  BY <1>3, <1>4 DEF CompleteSession, BatchRefused

(* A regeneration takes the session out of every batch; one that invalidates all
   suggestions leaves none, and one that does not invalidates none. *)
LEMMA RegenerateKeeps == ASSUME ProcessingInv, Regenerate PROVE ProcessingInv'
<1>1. /\ root \in RootRows /\ session \in SessionRows /\ file \in [Files -> FileRows]
      /\ command \in Commands /\ counts \in CountRows /\ RequestsTyped
  BY Parts
<1>2. PICK all \in BOOLEAN :
         /\ file' = [f \in Files |->
                    [file[f] EXCEPT !.rec = IF all THEN 0 ELSE @,
                                    !.stage = IF f \in {g \in Files : file[g].stage # "FAILED"
                                                                      /\ (all \/ file[g].rec = 0)}
                                              THEN "DISCOVERED" ELSE @]]
         /\ session' = [session EXCEPT !.status = "READING", !.owner = FALSE, !.regenerating = TRUE,
                                       !.cut = IF all THEN session.batch ELSE @]
  BY Zenon DEF Regenerate
<1> DEFINE again == {g \in Files : file[g].stage # "FAILED" /\ (all \/ file[g].rec = 0)}
<1>3. UNCHANGED <<root, command, local>> /\ counts' \in CountRows
  BY <1>1, BoundTyped DEF Regenerate, MayRegenerate
<1>4. /\ session' \in SessionRows /\ session'.status = "READING" /\ session'.batch = session.batch
      /\ session'.cut = IF all THEN session.batch ELSE session.cut
      /\ session.cut <= session.batch /\ session.batch \in Nat
  <2> DEFINE cut == IF all THEN session.batch ELSE session.cut
  <2>1. cut \in Nat
    BY <1>1 DEF SessionRows
  <2>2. session' = [session EXCEPT !.status = "READING", !.owner = FALSE, !.regenerating = TRUE, !.cut = cut]
    BY <1>1, <1>2 DEF SessionRows
  <2> HIDE DEF cut
  <2>3. /\ session' \in SessionRows /\ session'.status = "READING" /\ session'.batch = session.batch
        /\ session'.cut = cut
    BY <1>1, <2>1, <2>2 DEF SessionRows
  <2> QED
    BY <1>1, <2>3 DEF cut, ProcessingInv, BatchInv, SessionRows
<1>5. /\ file' \in [Files -> FileRows]
      /\ \A f \in Files : file'[f].obs = file[f].obs /\ file'[f].rec = IF all THEN 0 ELSE file[f].rec
  <2>1. ASSUME NEW f \in Files
        PROVE  file'[f] \in FileRows /\ file'[f].obs = file[f].obs /\ file'[f].rec = IF all THEN 0 ELSE file[f].rec
    <3> DEFINE rec == IF all THEN 0 ELSE file[f].rec
               stage == IF f \in again THEN "DISCOVERED" ELSE file[f].stage
    <3>1. file[f] \in FileRows /\ rec \in Nat /\ stage \in Stages
      BY <1>1 DEF FileRows, Stages
    <3>2. file'[f] = [file[f] EXCEPT !.rec = rec, !.stage = stage]
      BY <1>2
    <3> HIDE DEF rec, stage
    <3>3. file'[f] \in FileRows /\ file'[f].obs = file[f].obs /\ file'[f].rec = rec
      BY <3>1, <3>2 DEF FileRows
    <3> QED
      BY <3>3 DEF rec
  <2> QED
    BY <1>2, <2>1
<1>6. TypeOK'
  BY <1>1, <1>3, <1>4, <1>5 DEF TypeOK, RootRows, SessionRows, FileRows, Commands, CountRows
<1>7. SuggestionsCurrent'
  <2>1. ASSUME NEW f \in Files, file'[f].rec # 0 PROVE file'[f].rec > session'.cut
    BY <1>4, <1>5, <2>1 DEF ProcessingInv, BatchCoherent, SuggestionsCurrent
  <2> QED
    BY <1>4, <2>1 DEF SuggestionsCurrent
<1>8. BatchInv' /\ BatchUndisturbed' /\ ObservedOnce' /\ RequestsTyped'
  <2>1. session'.cut <= session'.batch
    BY <1>4
  <2> QED
    BY <1>3, <1>4, <1>5, <2>1
    DEF ProcessingInv, BatchInv, Preparing, Live, BatchUndisturbed, ObservedOnce, RequestsTyped
<1> QED
  BY <1>6, <1>7, <1>8 DEF ProcessingInv, BatchCoherent

(* On a local folder all suggestions go, and no batch may be written for. *)
LEMMA RegenerateLocalKeeps == ASSUME ProcessingInv, RegenerateLocal PROVE ProcessingInv'
<1>1. /\ root \in RootRows /\ session \in SessionRows /\ file \in [Files -> FileRows]
      /\ command \in Commands /\ counts \in CountRows /\ RequestsTyped
  BY Parts
<1>2. /\ UNCHANGED <<root, command, local>> /\ counts' \in CountRows /\ ~root.device /\ ~session.lease
      /\ session' = [session EXCEPT !.cut = session.batch, !.full = FALSE]
      /\ file' = [f \in Files |-> [file[f] EXCEPT !.rec = 0]]
  BY <1>1, BoundTyped DEF RegenerateLocal, MayRegenerate
<1>3. /\ session' \in SessionRows /\ session'.status = session.status /\ session'.batch = session.batch
      /\ session'.cut = session.batch /\ session'.full = FALSE /\ session'.lease = session.lease
      /\ session.batch \in Nat
  BY <1>1, <1>2 DEF SessionRows
<1>4. /\ file' \in [Files -> FileRows]
      /\ \A f \in Files : file'[f].obs = file[f].obs /\ file'[f].rec = 0 /\ file'[f].claim = file[f].claim
  BY <1>1, <1>2 DEF FileRows
<1>5. TypeOK'
  BY <1>1, <1>2, <1>3, <1>4 DEF TypeOK, RootRows, SessionRows, FileRows, Commands, CountRows
<1>6. ~Live' /\ session'.cut <= session'.batch
  BY <1>2, <1>3 DEF Live
<1>7. BatchInv' /\ RequestsTyped' /\ ObservedOnce'
  BY <1>2, <1>3, <1>4, <1>6 DEF ProcessingInv, BatchInv, Preparing, ObservedOnce, RequestsTyped
<1>8. BatchCoherent'
  BY <1>3, <1>4 DEF ProcessingInv, BatchCoherent, BatchUndisturbed, SuggestionsCurrent, Free
<1> QED
  BY <1>5, <1>7, <1>8 DEF ProcessingInv

-----------------------------------------------------------------------------

(* Every step keeps the invariant. *)
LEMMA ProcessingStep == ASSUME ProcessingInv, [Next]_vars PROVE ProcessingInv'
<1>1. ASSUME UNCHANGED vars PROVE ProcessingInv'
  <2>1. UNCHANGED <<root, session, file, command, local, counts>>
    BY <1>1 DEF vars
  <2>2. FileStep /\ Moves
    BY <2>1, Unchanged, StayMoves DEF ProcessingInv
  <2> QED
    BY <2>1, <2>2, StepKeeps, Types DEF ProcessingInv
<1>2. ASSUME NEW w \in Workers, WorkerStep(w) PROVE ProcessingInv'
  BY <1>2, ReadsKeep, AskedOwnedKeeps, OwnedKeeps, GivenUpKeeps, TryKeeps, RecommendKeeps, CompleteKeeps
  DEF WorkerStep
<1>3. ASSUME NEW w \in Workers, Poll(w) PROVE ProcessingInv'
  BY <1>3, RecoverKeeps, TryKeeps, NextKeeps DEF Poll
<1> QED
  BY <1>1, <1>2, <1>3, QueueKeeps, AskKeeps, RegenerateKeeps, RegenerateLocalKeeps, ReportsKeep, AskedKeeps,
     GivenUpKeeps, DeadlinesKeep
  DEF Next

(* It holds before the first read. *)
LEMMA ProcessingInit == ASSUME Init PROVE ProcessingInv
<1> USE DEF Init
<1>1. TypeOK
  <2>1. root \in RootRows
    <3>1. PICK d \in BOOLEAN :
             root = [device |-> d, readable |-> TRUE, rev |-> 0, recommend |-> TRUE, superseded |-> FALSE]
      BY Zenon
    <3> QED
      BY <3>1, SMT DEF RootRows
  <2>2. session \in SessionRows /\ file \in [Files -> FileRows] /\ command \in Commands
    BY DEF SessionRows, FileRows, Stages, Commands
  <2>3. counts \in CountRows
    BY ProcessingAssumption DEF CountRows
  <2> QED
    BY <2>1, <2>2, <2>3, Types
<1>2. \A w \in Workers : local[w] = Idle
  OBVIOUS
<1>3. RequestsTyped /\ BatchInv
  BY <1>2, IdleRequest DEF RequestsTyped, BatchInv, OfFile, Preparing, Live
<1>4. ObservedOnce /\ BatchCoherent
  BY DEF ObservedOnce, BatchCoherent, BatchUndisturbed, SuggestionsCurrent
<1> QED
  BY <1>1, <1>3, <1>4 DEF ProcessingInv

(* The invariant holds in every reachable state of the scan. *)
THEOREM ScanInvariance == Spec => []ProcessingInv
<1>1. Init => ProcessingInv
  BY ProcessingInit
<1>2. ProcessingInv /\ [Next]_vars => ProcessingInv'
  BY ProcessingStep
<1> QED
  BY <1>1, <1>2, PTL DEF Spec

(* Root, session, files, commands and bounds of a scan stay well formed. *)
THEOREM ScanTypeCorrect == Spec => []TypeOK
<1>1. ProcessingInv => TypeOK
  BY DEF ProcessingInv
<1> QED
  BY <1>1, ScanInvariance, PTL

(* withOwnedObservationLease: however reports, retries, recoveries and the
   person's own requests overlap, no file carries two live observations. *)
THEOREM FileObservedOnce == Spec => []ObservedOnce
<1>1. ProcessingInv => ObservedOnce
  BY DEF ProcessingInv
<1> QED
  BY <1>1, ScanInvariance, PTL

(* claimBatch, lockRecommendationBatch, persistDrafts and completeSession: a batch
   works on files nobody is changing, suggestions that were invalidated do not
   come back, and a session completed by a full batch has suggestions for every
   ready file, whoever lost the lease before. *)
THEOREM BatchIsCoherent == Spec => []BatchCoherent
<1>1. ProcessingInv => BatchCoherent
  BY DEF ProcessingInv
<1> QED
  BY <1>1, ScanInvariance, PTL

-----------------------------------------------------------------------------
(* The claims of the files. *)

(* A request in the steps from its claim to its observation. *)
Busy(l) == l.pc \in {"reuse", "store", "read", "ask", "examine", "observe"}
Late(f) == file[f].claim # None /\ file[f].expired

(* A claim of a live request is the claim of the file it works on. *)
ClaimInv == \A w \in Workers, f \in Files : file[f].claim = w => Busy(local[w]) /\ local[w].file = f

(* What the contract sees of a file or of a request is as before. *)
RowKept(f) ==
    file'[f].claim = file[f].claim /\ file'[f].obs = file[f].obs /\ (Late(f)' <=> Late(f))
RequestKept(w) ==
    (Busy(local'[w]) <=> Busy(local[w])) /\ (Busy(local[w]) => local'[w].file = local[w].file)

(* A request's step to m, and what it leaves of the others. *)
LEMMA RequestMoved ==
    ASSUME RequestsTyped, NEW w \in Workers, NEW m, local' = [local EXCEPT ![w] = m]
    PROVE  local'[w] = m /\ \A v \in Workers : v # w => local'[v] = local[v] /\ RequestKept(v)
  BY DEF RequestsTyped, RequestKept

(* A request that is kept believes what it believed. *)
LEMMA BeliefKept == ASSUME NEW w \in Workers, RequestKept(w) PROVE Beliefs'[w] = Beliefs[w]
  BY DEF RequestKept, Beliefs, Working, Busy

(* A step that keeps every request, or every row. *)
LEMMA BeliefsKept == ASSUME \A w \in Workers : RequestKept(w) PROVE Beliefs' = Beliefs
<1>1. \A w \in Workers : Beliefs'[w] = Beliefs[w]
  BY BeliefKept
<1> QED
  BY <1>1 DEF Beliefs

LEMMA RowsKept == ASSUME \A f \in Files : RowKept(f) PROVE Held' = Held /\ Lapsed' = Lapsed /\ Products' = Products
  BY DEF RowKept, Late, Held, Lapsed, Products

(* The contract sees nothing of a step that keeps both. *)
LEMMA NothingSeen ==
    ASSUME ClaimInv, \A f \in Files : RowKept(f), \A w \in Workers : RequestKept(w)
    PROVE  UNCHANGED Claims!vars /\ ClaimInv'
<1>1. Held' = Held /\ Lapsed' = Lapsed /\ Products' = Products /\ Beliefs' = Beliefs
  BY RowsKept, BeliefsKept
<1>2. UNCHANGED Claims!vars
  BY <1>1 DEF Claims!vars
<1>3. ClaimInv'
  BY DEF ClaimInv, RowKept, RequestKept
<1> QED
  BY <1>2, <1>3

(* Nor of one that leaves rows and requests alone. *)
LEMMA NothingDone == ASSUME ClaimInv, UNCHANGED <<file, local>> PROVE UNCHANGED Claims!vars /\ ClaimInv'
<1>1. (\A f \in Files : RowKept(f)) /\ \A w \in Workers : RequestKept(w)
  BY DEF RowKept, RequestKept, Late
<1> QED
  BY <1>1, NothingSeen

(* The rows of the other files, and the step on one. *)
Given(f, claim, obs) ==
    /\ file'[f].claim = claim /\ ~Late(f)' /\ file'[f].obs = obs
    /\ \A g \in Files : g # f => RowKept(g)

(* What the contract sees of it. *)
LEMMA GivenSeen ==
    ASSUME NEW f \in Files, NEW claim, NEW obs, Given(f, claim, obs)
    PROVE  /\ Held' = [Held EXCEPT ![f] = claim] /\ Products' = [Products EXCEPT ![f] = obs]
           /\ Lapsed' = Lapsed \ {f}
<1>1. Held' = [Held EXCEPT ![f] = claim]
  BY DEF Given, RowKept, Held
<1>2. Products' = [Products EXCEPT ![f] = obs]
  BY DEF Given, RowKept, Products
<1>3. Lapsed' = Lapsed \ {f}
  BY DEF Given, RowKept, Lapsed, Late
<1> QED
  BY <1>1, <1>2, <1>3

(* A claim and an observation that stay as they are leave the mapped rows alone. *)
LEMMA SameSeen ==
    ASSUME NEW f \in Files PROVE [Held EXCEPT ![f] = file[f].claim] = Held /\ [Products EXCEPT ![f] = file[f].obs] = Products
  BY DEF Held, Products

(* The request that moves believes in its file from its claim to its end. *)
LEMMA BeliefMoved ==
    ASSUME RequestsTyped, NEW w \in Workers, NEW m, local' = [local EXCEPT ![w] = m]
    PROVE  Beliefs' = [Beliefs EXCEPT ![w] = IF Busy(m) THEN m.file ELSE None]
<1>1. local'[w] = m /\ \A v \in Workers : v # w => Beliefs'[v] = Beliefs[v]
  BY RequestMoved, BeliefKept
<1>2. Beliefs'[w] = IF Busy(m) THEN m.file ELSE None
  BY <1>1 DEF Beliefs, Working, Busy
<1> QED
  BY <1>1, <1>2 DEF Beliefs

-----------------------------------------------------------------------------

(* A request that works on no file goes on without one. *)
LEMMA IdleStep ==
    ASSUME RequestsTyped, ClaimInv, NEW w \in Workers, NEW m, local' = [local EXCEPT ![w] = m],
           ~Busy(local[w]), ~Busy(m), \A f \in Files : RowKept(f)
    PROVE  UNCHANGED Claims!vars /\ ClaimInv'
<1>1. \A v \in Workers : RequestKept(v)
  BY RequestMoved DEF RequestKept
<1> QED
  BY <1>1, NothingSeen

(* claimObservationLease takes a file nobody holds, or whose holder is late. *)
LEMMA TakesIt ==
    ASSUME RequestsTyped, ClaimInv, NEW w \in Workers, NEW f \in Files, NEW m,
           local' = [local EXCEPT ![w] = m], ~Busy(local[w]), Busy(m), m.file = f,
           Reclaimable(f), Given(f, w, file[f].obs)
    PROVE  Claims!Take(w, f) /\ ClaimInv'
<1>1. Beliefs[w] = None /\ Beliefs' = [Beliefs EXCEPT ![w] = f]
  BY BeliefMoved DEF Beliefs, Working, Busy
<1>2. \A g \in Files : Held[g] # w
  BY DEF ClaimInv, Held
<1>3. Held[f] = None \/ f \in Lapsed
  BY DEF Reclaimable, Held, Lapsed
<1>4. Held' = [Held EXCEPT ![f] = w] /\ Products' = Products /\ Lapsed' = Lapsed \ {f}
  BY GivenSeen, SameSeen
<1>5. Claims!Take(w, f)
  BY <1>1, <1>2, <1>3, <1>4 DEF Claims!Take
<1>6. ClaimInv'
  <2> SUFFICES ASSUME NEW v \in Workers, NEW g \in Files, file'[g].claim = v
               PROVE  Busy(local'[v]) /\ local'[v].file = g
    BY DEF ClaimInv
  <2>1. CASE g = f
    BY <2>1, RequestMoved DEF Given
  <2>2. CASE g # f
    <3>1. file[g].claim = v /\ Busy(local[v]) /\ local[v].file = g
      BY <2>2 DEF ClaimInv, Given, RowKept
    <3> QED
      BY <3>1, RequestMoved
  <2> QED
    BY <2>1, <2>2
<1> QED
  BY <1>5, <1>6

(* The holder gives up its claim, with an observation or without, and ends or
   goes on not knowing it. *)
LEMMA GivesUp ==
    ASSUME ProcessingInv, ClaimInv, NEW w \in Workers, NEW f \in Files, NEW obs,
           Busy(local[w]), local[w].file = f, file[f].claim = w, Given(f, None, obs),
           \/ local' = local
           \/ \E m : local' = [local EXCEPT ![w] = m] /\ ~Busy(m)
    PROVE  /\ obs = file[f].obs => Claims!Release(w, f)
           /\ file[f].obs = 0 /\ obs = 1 /\ local' # local => Claims!Make(w, f)
           /\ ClaimInv'
<1>1. RequestsTyped
  BY Parts
<1>2. Beliefs[w] = f /\ Held[f] = w
  BY DEF Beliefs, Working, Busy, Held
<1>3. Held' = [Held EXCEPT ![f] = None] /\ Lapsed' = Lapsed \ {f} /\ Products' = [Products EXCEPT ![f] = obs]
  BY GivenSeen
<1>4. local' = local \/ Beliefs' = [Beliefs EXCEPT ![w] = None]
  BY <1>1, BeliefMoved
<1>5. local' = local => Beliefs' = Beliefs
  BY BeliefsKept DEF RequestKept
<1>6. obs = file[f].obs => Claims!Release(w, f)
  <2> SUFFICES ASSUME obs = file[f].obs PROVE Claims!Release(w, f)
    OBVIOUS
  <2>1. Products' = Products
    BY <1>3, SameSeen
  <2> QED
    BY <1>2, <1>3, <1>4, <1>5, <2>1 DEF Claims!Release
<1>7. file[f].obs = 0 /\ obs = 1 /\ local' # local => Claims!Make(w, f)
  <2> SUFFICES ASSUME file[f].obs = 0, obs = 1, local' # local PROVE Claims!Make(w, f)
    OBVIOUS
  <2>1. Products[f] = 0
    BY DEF Products
  <2> QED
    BY <1>2, <1>3, <1>4, <2>1 DEF Claims!Make
<1>8. None # w
  BY ProcessingAssumption
<1>9. ClaimInv'
  <2> SUFFICES ASSUME NEW v \in Workers, NEW g \in Files, file'[g].claim = v
               PROVE  Busy(local'[v]) /\ local'[v].file = g
    BY DEF ClaimInv
  <2>1. g # f /\ file[g].claim = v
    BY ProcessingAssumption DEF Given, RowKept
  <2>2. Busy(local[v]) /\ local[v].file = g
    BY <2>1 DEF ClaimInv
  <2>3. v # w
    BY <2>1, <2>2
  <2>4. local'[v] = local[v]
    BY <1>1, <2>3, RequestMoved
  <2> QED
    BY <2>2, <2>4
<1> QED
  BY <1>6, <1>7, <1>9

(* A request finds that its claim is gone. *)
LEMMA LosesIt ==
    ASSUME RequestsTyped, ClaimInv, NEW w \in Workers, NEW f \in Files, NEW m,
           local' = [local EXCEPT ![w] = m], Busy(local[w]), local[w].file = f, ~Busy(m),
           file[f].claim # w, file' = file
    PROVE  Claims!Lose(w, f) /\ ClaimInv'
<1>1. Beliefs[w] = f /\ Beliefs' = [Beliefs EXCEPT ![w] = None]
  BY BeliefMoved DEF Beliefs, Working, Busy
<1>2. \A g \in Files : file[g].claim # w
  BY DEF ClaimInv
<1>3. Held' = Held /\ Lapsed' = Lapsed /\ Products' = Products
  BY DEF Held, Lapsed, Products
<1>4. Claims!Lose(w, f)
  <2>1. \A g \in Files : Held[g] # w
    BY <1>2 DEF Held
  <2> QED
    BY <1>1, <1>3, <2>1 DEF Claims!Lose
<1>5. ClaimInv'
  BY <1>2, RequestMoved DEF ClaimInv
<1> QED
  BY <1>4, <1>5

-----------------------------------------------------------------------------

(* A write that leaves claim and observations of a file alone. *)
LEMMA OtherFields ==
    ASSUME file \in [Files -> FileRows], NEW f \in Files, NEW x, file' = [file EXCEPT ![f] = x],
           x.claim = file[f].claim, x.obs = file[f].obs, x.expired = file[f].expired
    PROVE  \A g \in Files : RowKept(g)
<1>1. file'[f] = x /\ \A g \in Files : g # f => file'[g] = file[g]
  OBVIOUS
<1> QED
  BY <1>1 DEF RowKept, Late

(* Every stage is such a write. *)
LEMMA StageOnly ==
    ASSUME file \in [Files -> FileRows], NEW f \in Files, NEW x,
           file' = [file EXCEPT ![f].stage = x]
    PROVE  \A g \in Files : RowKept(g)
<1> DEFINE r == [file[f] EXCEPT !.stage = x]
<1>1. file' = [file EXCEPT ![f] = r] /\ r.claim = file[f].claim /\ r.obs = file[f].obs /\ r.expired = file[f].expired
  BY DEF FileRows
<1> HIDE DEF r
<1> QED
  BY <1>1, OtherFields

LEMMA SameRows == ASSUME file' = file PROVE \A g \in Files : RowKept(g)
  BY DEF RowKept, Late

(* markRemoteReadFailure writes a stage, if anything. *)
LEMMA FailedRows ==
    ASSUME file \in [Files -> FileRows], NEW f \in Files, file' = Failed(f) \/ file' = file
    PROVE  \A g \in Files : RowKept(g)
<1>1. CASE file' = file
  BY <1>1, SameRows
<1>2. CASE file' = [file EXCEPT ![f].stage = "FAILED"]
  BY <1>2, StageOnly
<1> QED
  BY <1>1, <1>2 DEF Failed

-----------------------------------------------------------------------------

(* Reports, deadlines and batches: the request holds no file. *)
AtNoClaim(w) ==
    \/ FailRead(w) \/ ExpireRead(w) \/ CloseExpired(w)
    \/ TryBatch(w) \/ StartOwnBatch(w) \/ RecommendFile(w) \/ BatchRefused(w) \/ CompleteSession(w)
    \/ \E f \in Files : ReportRead(w, f) \/ ReportFailure(w, f) \/ SelectExpired(w, f)

(* Such a step takes the request to one that holds none. *)
Unclaimed(w) == ~Busy(local[w]) /\ (\A f \in Files : RowKept(f)) /\ \E m : local' = [local EXCEPT ![w] = m] /\ ~Busy(m)

LEMMA ReportsUnclaimed ==
    ASSUME ProcessingInv, NEW w \in Workers,
           \/ FailRead(w) \/ ExpireRead(w) \/ CloseExpired(w)
           \/ \E f \in Files : ReportRead(w, f) \/ ReportFailure(w, f) \/ SelectExpired(w, f)
    PROVE  Unclaimed(w)
<1>1. file \in [Files -> FileRows] /\ RequestsTyped /\ local[w] \in Requests
  BY Parts DEF RequestsTyped
<1>2. ~Busy(Idle)
  BY DEF Idle, Busy
<1>3. CASE FailRead(w)
  <2> DEFINE f == local[w].file
             m == [local[w] EXCEPT !.pc = "batch"]
  <2>1. local[w].pc = "fail" /\ (file' = Failed(f) \/ file' = file)
        /\ (local' = [local EXCEPT ![w] = m] \/ local' = [local EXCEPT ![w] = Idle])
    BY <1>3 DEF FailRead, Goto, Finish
  <2>2. f \in Files
    BY <1>1, <2>1 DEF RequestsTyped, OfFile
  <2>3. ~Busy(local[w]) /\ ~Busy(m)
    BY <1>1, <2>1 DEF Busy, Requests
  <2>4. \A g \in Files : RowKept(g)
    BY <1>1, <2>1, <2>2, FailedRows
  <2> QED
    BY <1>2, <2>1, <2>3, <2>4 DEF Unclaimed
<1>4. CASE ExpireRead(w)
  <2> DEFINE f == local[w].file
             m == [local[w] EXCEPT !.pc = "close"]
  <2>1. local[w].pc = "expire" /\ (file' = Failed(f) \/ file' = file)
        /\ (local' = [local EXCEPT ![w] = m] \/ local' = [local EXCEPT ![w] = Idle])
    BY <1>4 DEF ExpireRead, Goto, Finish
  <2>2. f \in Files
    BY <1>1, <2>1 DEF RequestsTyped, OfFile
  <2>3. ~Busy(local[w]) /\ ~Busy(m)
    BY <1>1, <2>1 DEF Busy, Requests
  <2>4. \A g \in Files : RowKept(g)
    BY <1>1, <2>1, <2>2, FailedRows
  <2> QED
    BY <1>2, <2>1, <2>3, <2>4 DEF Unclaimed
<1>5. CASE CloseExpired(w)
  <2> DEFINE m == [Idle EXCEPT !.pc = "batch"]
  <2>1. local[w].pc = "close" /\ file' = file /\ local' = [local EXCEPT ![w] = m]
    BY <1>5 DEF CloseExpired
  <2>2. ~Busy(local[w]) /\ ~Busy(m)
    BY <2>1 DEF Busy, Idle
  <2> QED
    BY <2>1, <2>2, SameRows DEF Unclaimed
<1>6. ASSUME NEW f \in Files, ReportRead(w, f) \/ ReportFailure(w, f) \/ SelectExpired(w, f) PROVE Unclaimed(w)
  <2>1. PICK p \in {"claim", "fail", "expire"} :
            local[w].pc = "idle" /\ file' = file /\ local' = [local EXCEPT ![w] = [Idle EXCEPT !.pc = p, !.file = f]]
    BY <1>6 DEF ReportRead, ReportFailure, SelectExpired
  <2>2. ~Busy(local[w]) /\ ~Busy([Idle EXCEPT !.pc = p, !.file = f])
    BY <2>1 DEF Busy, Idle
  <2> QED
    BY <2>1, <2>2, SameRows DEF Unclaimed
<1> QED
  BY <1>3, <1>4, <1>5, <1>6

LEMMA BatchesUnclaimed ==
    ASSUME ProcessingInv, NEW w \in Workers,
           TryBatch(w) \/ StartOwnBatch(w) \/ RecommendFile(w) \/ BatchRefused(w) \/ CompleteSession(w)
    PROVE  Unclaimed(w)
<1>1. file \in [Files -> FileRows] /\ RequestsTyped /\ local[w] \in Requests
  BY Parts DEF RequestsTyped
<1>2. CASE RecommendFile(w)
  <2>1. PICK f \in local[w].todo :
            /\ local' = [local EXCEPT ![w].todo = @ \ {f}]
            /\ file' = Suggested(w, f) \/ file' = [file EXCEPT ![f].stage = "FAILED"]
    BY <1>2 DEF RecommendFile
  <2>2. f \in Files
    BY <1>1 DEF Requests
  <2> DEFINE m == [local[w] EXCEPT !.todo = @ \ {f}]
             r == [file[f] EXCEPT !.stage = "READY", !.rec = IF @ = 0 THEN local[w].batch ELSE @]
  <2>3. local' = [local EXCEPT ![w] = m] /\ local[w].pc = "recommend"
    BY <1>1, <1>2, <2>1 DEF RecommendFile, RequestsTyped
  <2>4. ~Busy(local[w]) /\ ~Busy(m)
    BY <1>1, <2>3 DEF Busy, Requests
  <2>5. CASE file' = Suggested(w, f)
    <3>1. file' = [file EXCEPT ![f] = r] /\ r.claim = file[f].claim /\ r.obs = file[f].obs /\ r.expired = file[f].expired
      BY <1>1, <2>2, <2>5 DEF FileRows, Suggested
    <3> HIDE DEF r, m
    <3>2. \A g \in Files : RowKept(g)
      BY <1>1, <2>2, <3>1, OtherFields
    <3> QED
      BY <2>3, <2>4, <3>2 DEF Unclaimed
  <2>6. CASE file' = [file EXCEPT ![f].stage = "FAILED"]
    <3>1. \A g \in Files : RowKept(g)
      BY <1>1, <2>2, <2>6, StageOnly
    <3> QED
      BY <2>3, <2>4, <3>1 DEF Unclaimed
  <2> QED
    BY <2>1, <2>5, <2>6
<1>3. CASE TryBatch(w) \/ StartOwnBatch(w) \/ BatchRefused(w) \/ CompleteSession(w)
  <2> DEFINE m == [local[w] EXCEPT !.pc = "recommend", !.batch = session.batch + 1,
                      !.todo = IF root.recommend THEN {f \in Files : Recommendable(f)} ELSE {},
                      !.full = root.recommend]
  <2>1. /\ file' = file /\ local[w].pc \in {"batch", "idle", "recommend"}
        /\ local' = [local EXCEPT ![w] = Idle] \/ local' = [local EXCEPT ![w] = m]
    BY <1>3 DEF TryBatch, StartOwnBatch, BatchRefused, CompleteSession, Finish, StartBatch
  <2>2. ~Busy(local[w]) /\ ~Busy(Idle) /\ ~Busy(m)
    BY <1>1, <2>1 DEF Busy, Idle, Requests
  <2> QED
    BY <2>1, <2>2, SameRows DEF Unclaimed
<1> QED
  BY <1>2, <1>3

(* The contract sees nothing of either. *)
LEMMA UnclaimedSeen ==
    ASSUME ProcessingInv, ClaimInv, NEW w \in Workers, AtNoClaim(w) PROVE UNCHANGED Claims!vars /\ ClaimInv'
<1>1. RequestsTyped /\ Unclaimed(w)
  BY Parts, ReportsUnclaimed, BatchesUnclaimed DEF AtNoClaim
<1> QED
  BY <1>1, IdleStep DEF Unclaimed

(* What a person or the queue writes on files touches no claim. *)
LEMMA AskedSeen ==
    ASSUME ProcessingInv, ClaimInv,
           QueueReads \/ Regenerate \/ RegenerateLocal \/ \E f \in Files : RetryRead(f)
    PROVE  UNCHANGED Claims!vars /\ ClaimInv'
<1>1. file \in [Files -> FileRows] /\ local' = local
  BY Parts DEF QueueReads, Regenerate, RegenerateLocal, RetryRead
<1>2. CASE QueueReads
  <2>1. PICK S : file' = [f \in Files |-> IF f \in S THEN [file[f] EXCEPT !.stage = "READING"] ELSE file[f]]
    BY <1>2 DEF QueueReads
  <2>2. ASSUME NEW f \in Files PROVE RowKept(f)
    <3> DEFINE r == [file[f] EXCEPT !.stage = "READING"]
    <3>1. file'[f] = r \/ file'[f] = file[f]
      BY <2>1
    <3>2. r.claim = file[f].claim /\ r.obs = file[f].obs /\ r.expired = file[f].expired
      BY <1>1 DEF FileRows
    <3> HIDE DEF r
    <3> QED
      BY <3>1, <3>2 DEF RowKept, Late
  <2> QED
    BY <1>1, <2>2, NothingSeen DEF RequestKept
<1>3. CASE Regenerate
  <2> DEFINE again(all) == {f \in Files : file[f].stage # "FAILED" /\ (all \/ file[f].rec = 0)}
             r(all, f) == [file[f] EXCEPT !.rec = IF all THEN 0 ELSE @,
                                          !.stage = IF f \in again(all) THEN "DISCOVERED" ELSE @]
  <2>1. PICK all \in BOOLEAN : file' = [f \in Files |-> r(all, f)]
    BY <1>3 DEF Regenerate
  <2>2. ASSUME NEW f \in Files PROVE RowKept(f)
    <3>1. r(all, f).claim = file[f].claim /\ r(all, f).obs = file[f].obs /\ r(all, f).expired = file[f].expired
      BY <1>1 DEF FileRows
    <3> HIDE DEF r
    <3>2. file'[f] = r(all, f)
      BY <2>1
    <3> QED
      BY <3>1, <3>2 DEF RowKept, Late
  <2> QED
    BY <1>1, <2>2, NothingSeen DEF RequestKept
<1>4. ASSUME NEW f \in Files, RetryRead(f) PROVE UNCHANGED Claims!vars /\ ClaimInv'
  <2>1. \A g \in Files : RowKept(g)
    BY <1>1, <1>4, StageOnly DEF RetryRead
  <2> QED
    BY <1>1, <2>1, NothingSeen DEF RequestKept
<1>5. CASE RegenerateLocal
  <2> DEFINE r(f) == [file[f] EXCEPT !.rec = 0]
  <2>1. ASSUME NEW f \in Files PROVE RowKept(f)
    <3>1. r(f).claim = file[f].claim /\ r(f).obs = file[f].obs /\ r(f).expired = file[f].expired
      BY <1>1 DEF FileRows
    <3>2. file'[f] = r(f)
      BY <1>5 DEF RegenerateLocal
    <3> HIDE DEF r
    <3> QED
      BY <3>1, <3>2 DEF RowKept, Late
  <2> QED
    BY <1>1, <2>1, NothingSeen DEF RequestKept
<1> QED
  BY <1>2, <1>3, <1>4, <1>5

-----------------------------------------------------------------------------

(* The row a claim leaves. *)
LEMMA ClaimRow ==
    ASSUME file \in [Files -> FileRows], NEW w \in Workers, NEW f \in Files, file' = ClaimTaken(w, f)
    PROVE  Given(f, w, file[f].obs)
<1> DEFINE x == [file[f] EXCEPT !.claim = w, !.rev = root.rev, !.expired = FALSE]
<1>1. file' = [file EXCEPT ![f] = x] /\ x.claim = w /\ x.obs = file[f].obs /\ x.expired = FALSE
  BY DEF ClaimTaken, FileRows
<1> HIDE DEF x
<1>2. file'[f] = x /\ \A g \in Files : g # f => file'[g] = file[g]
  BY <1>1
<1> QED
  BY <1>1, <1>2 DEF Given, RowKept, Late

(* The row that is left when its claim is given up, with obs observations. *)
LEMMA FreedRow ==
    ASSUME file \in [Files -> FileRows], NEW f \in Files, NEW x, file' = [file EXCEPT ![f] = x],
           x.claim = None
    PROVE  Given(f, None, x.obs)
<1>1. file'[f] = x /\ \A g \in Files : g # f => file'[g] = file[g]
  OBVIOUS
<1> QED
  BY <1>1 DEF Given, RowKept, Late

(* A claim is taken by a request that held none. *)
LEMMA ClaimsSeen ==
    ASSUME ProcessingInv, ClaimInv, NEW w \in Workers,
           ClaimObservation(w) \/ ClaimAsked(w) \/ ProcessNext(w) \/ \E f \in Files : ObserveFile(w, f)
    PROVE  [Claims!Next]_(Claims!vars) /\ ClaimInv'
<1>1. file \in [Files -> FileRows] /\ RequestsTyped /\ local[w] \in Requests
  BY Parts DEF RequestsTyped
<1>2. ASSUME NEW f \in Files, NEW m, local' = [local EXCEPT ![w] = m], ~Busy(local[w]), Busy(m), m.file = f,
             Claimable(f), file' = ClaimTaken(w, f)
      PROVE  [Claims!Next]_(Claims!vars) /\ ClaimInv'
  <2>1. Given(f, w, file[f].obs) /\ Reclaimable(f)
    BY <1>1, <1>2, ClaimRow DEF Claimable
  <2>2. Claims!Take(w, f) /\ ClaimInv'
    BY <1>1, <1>2, <2>1, TakesIt
  <2> QED
    BY <2>2 DEF Claims!Next
<1>3. ASSUME NEW m, local' = [local EXCEPT ![w] = m], ~Busy(local[w]), ~Busy(m), file' = file
      PROVE  [Claims!Next]_(Claims!vars) /\ ClaimInv'
  BY <1>1, <1>3, SameRows, IdleStep
<1>4. CASE ClaimObservation(w) \/ ClaimAsked(w)
  <2> DEFINE f == local[w].file
             m(p) == [local[w] EXCEPT !.pc = p]
  <2>1. /\ local[w].pc \in {"claim", "asked"}
        /\ \/ /\ Claimable(f) /\ file' = ClaimTaken(w, f)
              /\ \E p \in {"reuse", "store", "examine"} : local' = [local EXCEPT ![w] = m(p)]
           \/ file' = file /\ local' = [local EXCEPT ![w] = Idle]
    BY <1>4 DEF ClaimObservation, ClaimAsked, Goto, Finish
  <2>2. f \in Files /\ ~Busy(local[w]) /\ ~Busy(Idle)
    BY <1>1, <2>1 DEF RequestsTyped, OfFile, Busy, Idle
  <2>3. \A p \in {"reuse", "store", "examine"} : Busy(m(p)) /\ m(p).file = f
    BY <1>1 DEF Busy, Requests
  <2> QED
    BY <1>2, <1>3, <2>1, <2>2, <2>3
<1>5. CASE ProcessNext(w)
  <2> DEFINE m(f) == [Idle EXCEPT !.pc = "read", !.file = f]
             n == [Idle EXCEPT !.pc = "batch"]
  <2>1. /\ local[w].pc = "idle"
        /\ \/ local' = [local EXCEPT ![w] = n] /\ file' = file
           \/ \E f \in Files : Claimable(f) /\ file' = ClaimTaken(w, f) /\ local' = [local EXCEPT ![w] = m(f)]
    BY <1>5 DEF ProcessNext, ProcessingPage
  <2>2. ~Busy(local[w]) /\ ~Busy(n) /\ \A f \in Files : Busy(m(f)) /\ m(f).file = f
    BY <2>1 DEF Busy, Idle
  <2> QED
    BY <1>2, <1>3, <2>1, <2>2
<1>6. ASSUME NEW f \in Files, ObserveFile(w, f) PROVE [Claims!Next]_(Claims!vars) /\ ClaimInv'
  <2> DEFINE m == [Idle EXCEPT !.pc = "ask", !.file = f, !.asked = TRUE]
  <2>1. /\ local[w].pc = "idle" /\ Claimable(f) /\ file' = ClaimTaken(w, f) /\ local' = [local EXCEPT ![w] = m]
    BY <1>6 DEF ObserveFile
  <2>2. ~Busy(local[w]) /\ Busy(m) /\ m.file = f
    BY <2>1 DEF Busy, Idle
  <2> QED
    BY <1>2, <2>1, <2>2
<1> QED
  BY <1>4, <1>5, <1>6

(* releaseObservationLease: the holder gives its claim up, and one that lost it
   leaves the file alone. *)
LEMMA ReleasedSeen ==
    ASSUME ProcessingInv, ClaimInv, NEW w \in Workers, NEW f \in Files, NEW m,
           Busy(local[w]), local[w].file = f, file' = Released(w, f),
           local' = [local EXCEPT ![w] = m], ~Busy(m)
    PROVE  (Claims!Release(w, f) \/ Claims!Lose(w, f)) /\ ClaimInv'
<1>1. file \in [Files -> FileRows] /\ RequestsTyped
  BY Parts
<1> DEFINE x == [file[f] EXCEPT !.claim = None, !.expired = FALSE]
<1>2. CASE file[f].claim = w
  <2>1. file' = [file EXCEPT ![f] = x] /\ x.claim = None /\ x.obs = file[f].obs
    BY <1>1, <1>2 DEF Released, FileRows
  <2> HIDE DEF x
  <2>2. Given(f, None, file[f].obs)
    BY <1>1, <2>1, FreedRow
  <2> QED
    BY <1>2, <2>2, GivesUp
<1>3. CASE file[f].claim # w
  <2>1. file' = file
    BY <1>3 DEF Released
  <2> QED
    BY <1>1, <1>3, <2>1, LosesIt
<1> QED
  BY <1>2, <1>3

(* A request that ends and leaves its claim behind is one that dies. *)
LEMMA LeftSeen ==
    ASSUME ProcessingInv, ClaimInv, NEW w \in Workers, NEW f \in Files, NEW m,
           Busy(local[w]), local[w].file = f, file' = Left(w, f),
           local' = [local EXCEPT ![w] = m], ~Busy(m)
    PROVE  Claims!Die(w) /\ ClaimInv'
<1>1. file \in [Files -> FileRows] /\ RequestsTyped
  BY Parts
<1>2. None # w /\ Orphan # None /\ Orphan \notin Workers
  BY ProcessingAssumption
<1>3. \A g \in Files : file[g].claim = w => g = f
  BY DEF ClaimInv
<1>4. ASSUME NEW g \in Files
      PROVE  /\ file'[g].claim = IF file[g].claim = w THEN Orphan ELSE file[g].claim
             /\ file'[g].obs = file[g].obs /\ file'[g].expired = file[g].expired
  BY <1>1, <1>3 DEF Left, FileRows
<1>5. \A g \in Files : Late(g)' <=> Late(g)
  BY <1>2, <1>4 DEF Late
<1>6. Held' = [g \in Files |-> IF Held[g] = w THEN Orphan ELSE Held[g]]
  BY <1>4 DEF Held
<1>7. Lapsed' = Lapsed /\ Products' = Products
  BY <1>4, <1>5 DEF Lapsed, Products, Late
<1>8. Beliefs' = [Beliefs EXCEPT ![w] = None]
  BY <1>1, BeliefMoved
<1>9. ClaimInv'
  <2> SUFFICES ASSUME NEW v \in Workers, NEW g \in Files, file'[g].claim = v
               PROVE  Busy(local'[v]) /\ local'[v].file = g
    BY DEF ClaimInv
  <2>1. file[g].claim = v /\ v # w
    BY <1>2, <1>4
  <2> QED
    BY <1>1, <2>1, RequestMoved DEF ClaimInv
<1> QED
  BY <1>6, <1>7, <1>8, <1>9 DEF Claims!Die

(* A claim that ends with another stage: the file was observed before, or failed. *)
LEMMA StageFreed ==
    ASSUME ProcessingInv, ClaimInv, NEW w \in Workers, NEW f \in Files, NEW stage,
           Busy(local[w]), local[w].file = f, file[f].claim = w,
           file' = [file EXCEPT ![f].stage = stage, ![f].claim = None],
           \/ local' = local
           \/ \E m : local' = [local EXCEPT ![w] = m] /\ ~Busy(m)
    PROVE  Claims!Release(w, f) /\ ClaimInv'
<1>1. file \in [Files -> FileRows]
  BY Parts
<1> DEFINE x == [file[f] EXCEPT !.stage = stage, !.claim = None]
<1>2. file' = [file EXCEPT ![f] = x] /\ x.claim = None /\ x.obs = file[f].obs
  BY <1>1 DEF FileRows
<1> HIDE DEF x
<1>3. Given(f, None, file[f].obs)
  BY <1>1, <1>2, FreedRow
<1> QED
  BY <1>3, GivesUp

(* A request that holds its file goes on with it. *)
LEMMA StageSeen ==
    ASSUME ProcessingInv, ClaimInv, NEW w \in Workers, NEW f \in Files, NEW stage, NEW m,
           Busy(local[w]), local[w].file = f, file' = [file EXCEPT ![f].stage = stage],
           local' = [local EXCEPT ![w] = m], Busy(m), m.file = f
    PROVE  UNCHANGED Claims!vars /\ ClaimInv'
<1>1. file \in [Files -> FileRows] /\ RequestsTyped
  BY Parts
<1>2. \A g \in Files : RowKept(g)
  BY <1>1, StageOnly
<1>3. \A v \in Workers : RequestKept(v)
  BY <1>1, RequestMoved DEF RequestKept
<1> QED
  BY <1>2, <1>3, NothingSeen

(* A request that has its file: reading, examining and observing it. *)
OnFile(w) ==
    \/ ReuseRead(w) \/ StoreRead(w) \/ ReadLocal(w) \/ ReadAsked(w) \/ Examine(w)
    \/ CommitObservation(w) \/ ObservationRefused(w) \/ ObservationFails(w)

LEMMA OnFileBusy ==
    ASSUME ProcessingInv, NEW w \in Workers, OnFile(w)
    PROVE  Busy(local[w]) /\ local[w].file \in Files /\ local[w] \in Requests
<1>1. RequestsTyped /\ local[w] \in Requests
  BY Parts DEF RequestsTyped
<1>2. local[w].pc \in {"reuse", "store", "read", "ask", "examine", "observe"}
  BY DEF OnFile, ReuseRead, StoreRead, ReadLocal, ReadAsked, Examine, CommitObservation, ObservationRefused,
         ObservationFails, Observing
<1> QED
  BY <1>1, <1>2 DEF RequestsTyped, OfFile, Busy

LEMMA ReadingSeen ==
    ASSUME ProcessingInv, ClaimInv, NEW w \in Workers,
           ReuseRead(w) \/ StoreRead(w) \/ ReadLocal(w) \/ ReadAsked(w) \/ Examine(w)
    PROVE  [Claims!Next]_(Claims!vars) /\ ClaimInv'
<1>1. /\ file \in [Files -> FileRows] /\ RequestsTyped
      /\ Busy(local[w]) /\ local[w].file \in Files /\ local[w] \in Requests
  BY Parts, OnFileBusy DEF OnFile
<1>2. PICK f \in Files : f = local[w].file
  BY <1>1
<1> DEFINE m(p) == [local[w] EXCEPT !.pc = p]
<1>3. /\ ~Busy(Idle) /\ ~Busy(m("batch")) /\ ~Busy(m("asked")) /\ Busy(m("examine")) /\ Busy(m("observe"))
      /\ m("examine").file = f /\ m("observe").file = f
  BY <1>1, <1>2 DEF Busy, Idle, Requests
<1>4. ASSUME NEW stage, Owns(w, f), file' = [file EXCEPT ![f].stage = stage, ![f].claim = None],
             local' = [local EXCEPT ![w] = m("batch")] \/ local' = [local EXCEPT ![w] = m("asked")]
      PROVE  [Claims!Next]_(Claims!vars) /\ ClaimInv'
  <2>1. Claims!Release(w, f) /\ ClaimInv'
    BY <1>1, <1>2, <1>3, <1>4, StageFreed DEF Owns
  <2> QED
    BY <2>1 DEF Claims!Next
<1>5. ASSUME NEW stage, file' = [file EXCEPT ![f].stage = stage],
             \/ local' = [local EXCEPT ![w] = m("examine")]
             \/ local' = [local EXCEPT ![w] = m("observe")]
      PROVE  [Claims!Next]_(Claims!vars) /\ ClaimInv'
  BY <1>1, <1>2, <1>3, <1>5, StageSeen
<1>6. ASSUME file' = Released(w, f), local' = [local EXCEPT ![w] = Idle]
      PROVE  [Claims!Next]_(Claims!vars) /\ ClaimInv'
  <2>1. (Claims!Release(w, f) \/ Claims!Lose(w, f)) /\ ClaimInv'
    BY <1>1, <1>2, <1>3, <1>6, ReleasedSeen
  <2> QED
    BY <2>1 DEF Claims!Next
<1>7. CASE ReuseRead(w)
  <2> DEFINE stage == IF file[f].stage = "READY" THEN "READY" ELSE "EXAMINED"
  <2>1. CASE file' = Left(w, f) /\ local' = [local EXCEPT ![w] = Idle]
    <3>1. Claims!Die(w) /\ ClaimInv'
      BY <1>1, <1>2, <1>3, <2>1, LeftSeen
    <3> QED
      BY <3>1 DEF Claims!Next
  <2>2. \/ file' = Left(w, f) /\ local' = [local EXCEPT ![w] = Idle]
        \/ /\ Owns(w, f) /\ file' = [file EXCEPT ![f].stage = stage, ![f].claim = None]
           /\ local' = [local EXCEPT ![w] = m("batch")]
    BY <1>1, <1>2, <1>7 DEF ReuseRead, Goto, Finish
  <2> QED
    BY <1>4, <2>1, <2>2
<1>10. CASE StoreRead(w)
  <2>1. \/ file' = Released(w, f) /\ local' = [local EXCEPT ![w] = Idle]
        \/ file' = [file EXCEPT ![f].stage = "READ"] /\ local' = [local EXCEPT ![w] = m("examine")]
    BY <1>2, <1>10 DEF StoreRead, Goto, Finish
  <2> QED
    BY <1>5, <1>6, <2>1
<1>11. CASE ReadAsked(w)
  <2>1. /\ Owns(w, f) /\ file' = [file EXCEPT ![f].stage = "READ", ![f].claim = None]
        /\ local' = [local EXCEPT ![w] = m("asked")]
    BY <1>2, <1>11 DEF ReadAsked, Goto
  <2> QED
    BY <1>4, <2>1
<1>8. CASE ReadLocal(w)
  <2>1. /\ Owns(w, f)
        /\ \/ /\ file' = [file EXCEPT ![f].stage = "EXAMINED", ![f].claim = None]
              /\ local' = [local EXCEPT ![w] = m("batch")]
           \/ file' = [file EXCEPT ![f].stage = "READ"] /\ local' = [local EXCEPT ![w] = m("examine")]
    BY <1>2, <1>8 DEF ReadLocal, Goto
  <2> QED
    BY <1>4, <1>5, <2>1
<1>9. CASE Examine(w)
  <2>1. file' = [file EXCEPT ![f].stage = "EXAMINING"] /\ local' = [local EXCEPT ![w] = m("observe")]
    BY <1>2, <1>9 DEF Examine, Goto
  <2> QED
    BY <1>5, <2>1
<1> QED
  BY <1>7, <1>8, <1>9, <1>10, <1>11

(* The observation of a file, its refusal and its failure. *)
LEMMA ObservingSeen ==
    ASSUME ProcessingInv, ClaimInv, NEW w \in Workers,
           CommitObservation(w) \/ ObservationRefused(w) \/ ObservationFails(w)
    PROVE  Claims!Next /\ ClaimInv'
<1>1. /\ file \in [Files -> FileRows] /\ RequestsTyped
      /\ Busy(local[w]) /\ local[w].file \in Files /\ local[w] \in Requests
  BY Parts, OnFileBusy DEF OnFile
<1>2. PICK f \in Files : f = local[w].file
  BY <1>1
<1> DEFINE b == [local[w] EXCEPT !.pc = "batch"]
<1>3. ~Busy(Idle) /\ ~Busy(b)
  BY <1>1 DEF Busy, Idle, Requests
<1> HIDE DEF b
<1>4. CASE CommitObservation(w)
  <2> DEFINE x == [file[f] EXCEPT !.stage = "EXAMINED", !.claim = None, !.obs = @ + 1]
  <2>1. /\ Owns(w, f) /\ ~Usable(f)
        /\ local' = [local EXCEPT ![w] = Idle] \/ local' = [local EXCEPT ![w] = b]
        /\ file' = [file EXCEPT ![f].stage = "EXAMINED", ![f].claim = None, ![f].obs = @ + 1]
    BY <1>2, <1>4 DEF CommitObservation, Goto, Finish, b
  <2>2. file[f].obs = 0 /\ file[f].claim = w
    BY <1>1, <2>1 DEF Usable, Owns, FileRows
  <2>3. file' = [file EXCEPT ![f] = x] /\ x.claim = None /\ x.obs = 1
    BY <1>1, <2>1, <2>2 DEF FileRows
  <2> HIDE DEF x
  <2>4. local' # local
    BY <1>1, <1>3, <2>1 DEF RequestsTyped
  <2>5. Given(f, None, 1)
    BY <1>1, <2>3, FreedRow
  <2>6. Claims!Make(w, f) /\ ClaimInv'
    BY <1>1, <1>2, <1>3, <2>1, <2>2, <2>4, <2>5, GivesUp
  <2> QED
    BY <2>6 DEF Claims!Next
<1>5. ASSUME file' = Released(w, f), local' = [local EXCEPT ![w] = Idle] PROVE Claims!Next /\ ClaimInv'
  <2>1. (Claims!Release(w, f) \/ Claims!Lose(w, f)) /\ ClaimInv'
    BY <1>1, <1>2, <1>3, <1>5, ReleasedSeen
  <2> QED
    BY <2>1 DEF Claims!Next
<1>6. ASSUME Owns(w, f), file' = [file EXCEPT ![f].stage = "FAILED", ![f].claim = None],
             \/ local' = local
             \/ local' = [local EXCEPT ![w] = Idle]
             \/ local' = [local EXCEPT ![w] = b]
      PROVE  Claims!Next /\ ClaimInv'
  <2>1. Claims!Release(w, f) /\ ClaimInv'
    BY <1>1, <1>2, <1>3, <1>6, StageFreed DEF Owns
  <2> QED
    BY <2>1 DEF Claims!Next
<1>7. CASE ObservationRefused(w)
  <2>1. \/ file' = MarkedFailed(w, f) /\ local' = [local EXCEPT ![w] = b]
        \/ file' = Released(w, f) /\ local' = [local EXCEPT ![w] = Idle]
    BY <1>2, <1>7 DEF ObservationRefused, Goto, Finish, b
  <2>2. CASE file' = Left(w, f) /\ local' = [local EXCEPT ![w] = b]
    <3>1. Claims!Die(w) /\ ClaimInv'
      BY <1>1, <1>2, <1>3, <2>2, LeftSeen
    <3> QED
      BY <3>1 DEF Claims!Next
  <2> QED
    BY <1>5, <1>6, <2>1, <2>2 DEF MarkedFailed
<1>8. CASE ObservationFails(w)
  <2>1. /\ Owns(w, f)
        /\ \/ file' = Released(w, f) /\ local' = [local EXCEPT ![w] = Idle]
           \/ /\ file' = [file EXCEPT ![f].stage = "FAILED", ![f].claim = None]
              /\ \/ local' = local
                 \/ local' = [local EXCEPT ![w] = Idle]
                 \/ local' = [local EXCEPT ![w] = b]
    BY <1>2, <1>8 DEF ObservationFails, MarkedFailed, Goto, Finish, b
  <2> QED
    BY <1>5, <1>6, <2>1
<1> QED
  BY <1>4, <1>7, <1>8

-----------------------------------------------------------------------------

(* A request dies: its claim is nobody's to use, and as late as it was. *)
LEMMA DeathSeen ==
    ASSUME ProcessingInv, ClaimInv, NEW w \in Workers, WorkerDies(w) PROVE Claims!Die(w) /\ ClaimInv'
<1>1. /\ file \in [Files -> FileRows] /\ RequestsTyped /\ local' = [local EXCEPT ![w] = Idle]
      /\ file' = [f \in Files |-> IF file[f].claim = w THEN [file[f] EXCEPT !.claim = Orphan] ELSE file[f]]
  BY Parts DEF WorkerDies, Finish
<1>2. None # w /\ Orphan # None /\ Orphan \notin Workers
  BY ProcessingAssumption
<1>3. \A f \in Files : /\ file'[f].claim = IF file[f].claim = w THEN Orphan ELSE file[f].claim
                       /\ file'[f].obs = file[f].obs /\ file'[f].expired = file[f].expired
  BY <1>1 DEF FileRows
<1>4. \A f \in Files : Late(f)' <=> Late(f)
  BY <1>2, <1>3 DEF Late
<1>5. Held' = [f \in Files |-> IF Held[f] = w THEN Orphan ELSE Held[f]]
  BY <1>3 DEF Held
<1>6. Lapsed' = Lapsed /\ Products' = Products
  BY <1>3, <1>4 DEF Lapsed, Products, Late
<1>7. Beliefs' = [Beliefs EXCEPT ![w] = None]
  <2>1. ~Busy(Idle)
    BY DEF Busy, Idle
  <2> QED
    BY <1>1, <2>1, BeliefMoved
<1>8. ClaimInv'
  <2> SUFFICES ASSUME NEW v \in Workers, NEW g \in Files, file'[g].claim = v
               PROVE  Busy(local'[v]) /\ local'[v].file = g
    BY DEF ClaimInv
  <2>1. file[g].claim = v /\ v # w
    BY <1>2, <1>3
  <2> QED
    BY <1>1, <2>1, RequestMoved DEF ClaimInv
<1> QED
  BY <1>5, <1>6, <1>7, <1>8 DEF Claims!Die

(* Ten minutes pass: the holder stays until somebody takes over. *)
LEMMA ExpirySeen ==
    ASSUME ProcessingInv, ClaimInv, NEW f \in Files, ClaimExpires(f) PROVE Claims!Lapse(f) /\ ClaimInv'
<1>1. /\ file \in [Files -> FileRows] /\ local' = local /\ file[f].claim # None
      /\ file' = [file EXCEPT ![f].expired = TRUE]
  BY Parts DEF ClaimExpires, Free
<1>2. /\ file'[f].expired = TRUE
      /\ \A g \in Files : /\ file'[g].claim = file[g].claim /\ file'[g].obs = file[g].obs
                          /\ g # f => file'[g].expired = file[g].expired
  BY <1>1 DEF FileRows
<1>3. Held' = Held /\ Products' = Products /\ Lapsed' = Lapsed \cup {f}
  BY <1>1, <1>2 DEF Held, Products, Lapsed
<1>4. Beliefs' = Beliefs /\ Held[f] # None
  BY <1>1, BeliefsKept DEF RequestKept, Held
<1> QED
  BY <1>1, <1>2, <1>3, <1>4 DEF Claims!Lapse, ClaimInv

(* recoverAbandonedObservationFilesForDevice clears late claims only. *)
LEMMA RecoverySeen ==
    ASSUME ProcessingInv, ClaimInv, NEW w \in Workers, NEW f \in Files, RecoverAbandoned(w, f)
    PROVE  [Claims!Next]_(Claims!vars) /\ ClaimInv'
<1> DEFINE stage == IF Usable(f) /\ file[f].stage \in InFlight THEN "EXAMINED" ELSE "DISCOVERED"
           x == [file[f] EXCEPT !.claim = None, !.expired = FALSE, !.stage = stage]
           m == [Idle EXCEPT !.pc = "batch"]
<1>1. /\ file \in [Files -> FileRows] /\ RequestsTyped
      /\ file[f].claim = None \/ Late(f)
      /\ local[w].pc = "idle" /\ (local' = local \/ local' = [local EXCEPT ![w] = m])
      /\ file' = [file EXCEPT ![f].claim = None, ![f].expired = FALSE, ![f].stage = stage]
  BY Parts DEF RecoverAbandoned, Abandoned, Reclaimable, Free, Late
<1>2. file' = [file EXCEPT ![f] = x] /\ x.claim = None /\ x.obs = file[f].obs
  BY <1>1 DEF FileRows
<1>3. ~Busy(local[w]) /\ ~Busy(m)
  BY <1>1 DEF Busy, Idle
<1> HIDE DEF x, m
<1>4. Given(f, None, file[f].obs)
  BY <1>1, <1>2, FreedRow
<1>5. \A v \in Workers : RequestKept(v)
  BY <1>1, <1>3, RequestMoved DEF RequestKept
<1>6. CASE file[f].claim = None
  <2>1. \A g \in Files : RowKept(g)
    BY <1>4, <1>6 DEF Given, RowKept, Late
  <2> QED
    BY <1>5, <2>1, NothingSeen
<1>7. CASE Late(f)
  <2>1. f \in Lapsed /\ Held' = [Held EXCEPT ![f] = None] /\ Lapsed' = Lapsed \ {f} /\ Products' = Products
    <3>1. f \in Lapsed
      BY <1>7 DEF Lapsed, Late
    <3> QED
      BY <1>4, <3>1, GivenSeen, SameSeen
  <2>2. Claims!Clear(f)
    BY <1>5, <2>1, BeliefsKept DEF Claims!Clear
  <2>3. ClaimInv'
    BY <1>4, <1>5, ProcessingAssumption DEF ClaimInv, Given, RowKept, RequestKept
  <2> QED
    BY <2>2, <2>3 DEF Claims!Next
<1> QED
  BY <1>1, <1>6, <1>7

(* A rejected observation is withdrawn: the file may be observed again. *)
LEMMA RejectionSeen ==
    ASSUME ProcessingInv, ClaimInv, NEW f \in Files, RejectObservation(f) PROVE Claims!Discard(f) /\ ClaimInv'
<1>1. /\ file \in [Files -> FileRows] /\ local' = local /\ file[f].obs > 0 /\ file[f].obs <= 1
      /\ file' = [file EXCEPT ![f].obs = 0]
  BY Parts DEF RejectObservation, Usable, ProcessingInv, ObservedOnce
<1>2. file[f].obs = 1
  BY <1>1 DEF FileRows
<1>3. /\ file'[f].obs = 0
      /\ \A g \in Files : /\ file'[g].claim = file[g].claim /\ file'[g].expired = file[g].expired
                          /\ g # f => file'[g].obs = file[g].obs
  BY <1>1 DEF FileRows
<1>4. Held' = Held /\ Lapsed' = Lapsed /\ Products[f] = 1 /\ Products' = [Products EXCEPT ![f] = 0]
  BY <1>2, <1>3 DEF Held, Lapsed, Products
<1>5. Beliefs' = Beliefs
  BY <1>1, BeliefsKept DEF RequestKept
<1> QED
  BY <1>1, <1>3, <1>4, <1>5 DEF Claims!Discard, ClaimInv

-----------------------------------------------------------------------------

(* Every step is one of the contract or leaves its variables alone. *)
LEMMA WorkStep ==
    ASSUME ProcessingInv, ClaimInv, [Next]_vars PROVE [Claims!Next]_(Claims!vars) /\ ClaimInv'
<1>1. ASSUME NEW w \in Workers, AtNoClaim(w) PROVE [Claims!Next]_(Claims!vars) /\ ClaimInv'
  BY <1>1, UnclaimedSeen
<1>2. ASSUME NEW w \in Workers,
             ClaimObservation(w) \/ ClaimAsked(w) \/ ProcessNext(w) \/ \E f \in Files : ObserveFile(w, f)
      PROVE  [Claims!Next]_(Claims!vars) /\ ClaimInv'
  BY <1>2, ClaimsSeen
<1>3. ASSUME NEW w \in Workers, OnFile(w) PROVE [Claims!Next]_(Claims!vars) /\ ClaimInv'
  BY <1>3, ReadingSeen, ObservingSeen DEF OnFile
<1>4. ASSUME NEW w \in Workers, WorkerDies(w) PROVE [Claims!Next]_(Claims!vars) /\ ClaimInv'
  BY <1>4, DeathSeen DEF Claims!Next
<1>5. ASSUME NEW w \in Workers, NEW f \in Files, RecoverAbandoned(w, f)
      PROVE  [Claims!Next]_(Claims!vars) /\ ClaimInv'
  BY <1>5, RecoverySeen
<1>6. ASSUME NEW f \in Files, ClaimExpires(f) \/ RejectObservation(f)
      PROVE  [Claims!Next]_(Claims!vars) /\ ClaimInv'
  BY <1>6, ExpirySeen, RejectionSeen DEF Claims!Next
<1>7. CASE QueueReads \/ Regenerate \/ RegenerateLocal \/ \E f \in Files : RetryRead(f)
  BY <1>7, AskedSeen
<1>8. CASE UNCHANGED <<file, local>>
  BY <1>8, NothingDone
<1>9. \/ \E w \in Workers : \/ AtNoClaim(w) \/ OnFile(w) \/ WorkerDies(w)
                            \/ ClaimObservation(w) \/ ClaimAsked(w) \/ ProcessNext(w)
                            \/ \E f \in Files : ObserveFile(w, f)
                            \/ \E f \in Files : RecoverAbandoned(w, f)
      \/ \E f \in Files : ClaimExpires(f) \/ RejectObservation(f)
      \/ QueueReads \/ Regenerate \/ RegenerateLocal \/ \E f \in Files : RetryRead(f)
      \/ UNCHANGED <<file, local>>
  BY DEF Next, vars, WorkerStep, Poll, AtNoClaim, OnFile, LeaseExpires, DelayBatch, TogglePermission,
         Reconnect, PhysicalOutcome, CommandDue
<1> QED
  BY <1>1, <1>2, <1>3, <1>4, <1>5, <1>6, <1>7, <1>8, <1>9

(* claimObservationLease, withOwnedObservationLease and releaseObservationLease
   implement the contract of a claim: a file is observed by one request at a time
   and carries one observation until it is rejected, and a request that lost its
   file to a death, an expiry or a recovery changes nothing of it. *)
THEOREM ObservationImplementsOwnedWork == Spec => ImplementsOwnedWork
<1>1. Init => Claims!Init /\ ClaimInv
  <2> SUFFICES ASSUME Init PROVE Claims!Init /\ ClaimInv
    OBVIOUS
  <2>1. /\ \A f \in Files : file[f].claim = None /\ file[f].obs = 0
        /\ \A w \in Workers : ~Working(w) /\ None # w
    BY ProcessingAssumption DEF Init, Working, Idle
  <2>2. /\ Held = [f \in Files |-> None] /\ Lapsed = {}
        /\ Beliefs = [w \in Workers |-> None] /\ Products = [f \in Files |-> 0]
    BY <2>1 DEF Held, Lapsed, Beliefs, Products
  <2> QED
    BY <2>1, <2>2 DEF Claims!Init, ClaimInv
<1>2. ProcessingInv /\ ClaimInv /\ [Next]_vars => [Claims!Next]_(Claims!vars) /\ ClaimInv'
  BY WorkStep
<1> QED
  BY ScanInvariance, <1>1, <1>2, PTL DEF Spec, ImplementsOwnedWork, Claims!Spec
=============================================================================
