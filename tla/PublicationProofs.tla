-------------------------- MODULE PublicationProofs --------------------------
(***************************************************************************)
(* Proofs about Publication, for any finite set of workers and any number  *)
(* of scans, decisions, reviews and faults: what a current snapshot calls  *)
(* COMPLETED shows every decision it owes, a completed stage becomes work  *)
(* again by a human decision or by its scan completing anew and by nothing *)
(* else, and the work of an older scan never takes the search entry of the *)
(* current one.                                                            *)
(***************************************************************************)
EXTENDS Publication, FiniteSetTheorems, WellFoundedInduction, TLAPS

-----------------------------------------------------------------------------
(* The inductive invariant. *)

Scans == [gen : Nat, done : BOOLEAN, knowledge : StatusType, search : StatusType]
Seen == [expected : StatusType, authority : Nat, identity : Nat]
Locals == [pc : Pcs, task : {"publish", "prepare", "refresh", "identity"}, scan : 0..MaxScans,
           stage : {"knowledge", "search"}, seen : Seen, row : {"NONE", "INDEXED", "FAILED"}]

(* A busy request has a scan; what it read is not newer than the decisions; a
   stage is attempted from a status that is not COMPLETED. *)
LocalAt(l, n, h) ==
    /\ l.scan \in 0..n
    /\ l.pc # "idle" => l.scan # 0
    /\ l.pc = "stage" => l.stage = "search"
    /\ l.pc = "save" => l.row # "NONE"
    /\ l.seen.authority <= h.authority /\ l.seen.identity <= h.identity
    /\ l.pc \in {"tx", "failed"} => l.seen.expected # Done
LocalOK(l) == LocalAt(l, Len(scans), human)
LocalInv == local \in [Workers -> Locals] /\ \A w \in Workers : LocalOK(local[w])

(* Scans are in the order of their physical generations. *)
GenInv ==
    /\ Len(scans) >= 1
    /\ \A s \in 1..Len(scans) : scans[s].gen <= root.gen
    /\ \A s, t \in 1..Len(scans) : s <= t => scans[s].gen <= scans[t].gen

(* Publication transactions exclude each other. *)
LockInv ==
    /\ entry.scan <= Len(scans)
    /\ \A v, w \in Workers : InTx(v) /\ InTx(w) => v = w

(* A stage that is COMPLETED shows what its scan owes, whether the scan is done or
   open again; the entry of one that is done is of that scan or of a newer one. *)
ScanInv ==
    \A s \in 1..Len(scans) :
        /\ scans[s].search = Done => scans[s].knowledge = Done
        /\ scans[s].knowledge = Done => signals >= history[s].authority
        /\ scans[s].search = Done /\ Unprepared(s) =>
             /\ entry.authority >= history[s].authority /\ entry.identity >= history[s].identity
             /\ scans[s].done => entry.scan >= s

(* What an open transaction read is as new as all that is COMPLETED, no scan that
   is done and newer than its own has its Search COMPLETED, and it shows what its
   own scan owes or it will fail. *)
TxAt(l, new, past, touch) ==
    /\ \A s \in 1..Len(new) :
         /\ new[s].knowledge = Done => l.seen.authority >= past[s].authority
         /\ new[s].search = Done => l.seen.identity >= past[s].identity
         /\ s > l.scan /\ new[s].done => new[s].search # Done
    /\ l.pc = "tx" /\ ~touch =>
         /\ l.seen.authority >= past[l.scan].authority /\ l.seen.identity >= past[l.scan].identity
         /\ l.stage = "search" => new[l.scan].knowledge = Done
TxInv == \A w \in Workers : InTx(w) => TxAt(local[w], scans, history, touched)

Inv == TypeOK /\ LocalInv /\ GenInv /\ LockInv /\ ScanInv /\ TxInv

-----------------------------------------------------------------------------
(* Statuses, stamps and scans. *)

(* The image of a finite set is finite and no larger. *)
LEMMA FunImage ==
    ASSUME NEW S, IsFiniteSet(S), NEW f
    PROVE  /\ IsFiniteSet({f[x] : x \in S}) /\ Cardinality({f[x] : x \in S}) <= Cardinality(S)
           /\ Cardinality({f[x] : x \in S}) \in Nat
<1> DEFINE T == {f[x] : x \in S}
           g == [x \in S |-> f[x]]
<1>1. g \in Surjection(S, T)
  BY DEF Surjection
<1>2. IsFiniteSet(T) /\ Cardinality(T) <= Cardinality(S)
  BY <1>1, FS_Surjection
<1> QED
  BY <1>2, FS_CardinalityType

(* There is a stamp nobody holds: scans and workers hold fewer than there are. *)
LEMMA FreshTyped == ASSUME TypeOK PROVE Fresh \in Nat
<1> DEFINE M == 2 * MaxScans + Cardinality(Workers) + 1
           fk == [s \in 1..Len(scans) |-> scans[s].knowledge.stamp]
           fs == [s \in 1..Len(scans) |-> scans[s].search.stamp]
           fw == [w \in Workers |-> local[w].seen.expected.stamp]
           A == {fk[s] : s \in 1..Len(scans)}
           B == {fs[s] : s \in 1..Len(scans)}
           C == {fw[w] : w \in Workers}
<1>1. /\ Len(scans) \in Nat /\ Len(scans) <= MaxScans /\ MaxScans \in Nat
      /\ IsFiniteSet(Workers) /\ Cardinality(Workers) \in Nat
  BY PublicationAssumption, FS_CardinalityType DEF TypeOK
<1>2. IsFiniteSet(1..Len(scans)) /\ Cardinality(1..Len(scans)) = Len(scans)
  <2> DEFINE n == Len(scans)
  <2>1. 1 \in Int /\ n \in Int /\ (1 > n => n = 0)
    BY <1>1
  <2> HIDE DEF n
  <2>2. IsFiniteSet(1..n) /\ Cardinality(1..n) = IF 1 > n THEN 0 ELSE n - 1 + 1
    BY <2>1, FS_Interval
  <2> QED
    BY <2>1, <2>2 DEF n
<1>3. M \in Nat /\ IsFiniteSet(1..M) /\ Cardinality(1..M) = M
  <2>1. M \in Nat /\ M >= 1
    BY <1>1
  <2> HIDE DEF M
  <2> QED
    BY <2>1, FS_Interval
<1>4. /\ IsFiniteSet(A) /\ Cardinality(A) \in Nat /\ Cardinality(A) <= MaxScans
      /\ IsFiniteSet(B) /\ Cardinality(B) \in Nat /\ Cardinality(B) <= MaxScans
  <2>1. IsFiniteSet(A) /\ Cardinality(A) \in Nat /\ Cardinality(A) <= Len(scans)
    <3> HIDE DEF fk
    <3> QED
      BY <1>2, FunImage
  <2>2. IsFiniteSet(B) /\ Cardinality(B) \in Nat /\ Cardinality(B) <= Len(scans)
    <3> HIDE DEF fs
    <3> QED
      BY <1>2, FunImage
  <2> HIDE DEF A, B
  <2> QED
    BY <1>1, <2>1, <2>2
<1>5. IsFiniteSet(C) /\ Cardinality(C) \in Nat /\ Cardinality(C) <= Cardinality(Workers)
  <2> HIDE DEF fw
  <2> QED
    BY <1>1, FunImage
<1>6. \A n : InUse(n) => n \in (A \cup B) \cup C
  BY DEF InUse
<1> HIDE DEF A, B, C
<1>7. IsFiniteSet(A \cup B) /\ Cardinality(A \cup B) \in Nat /\ Cardinality(A \cup B) <= 2 * MaxScans
  <2>1. IsFiniteSet(A \cup B) /\ Cardinality(A \cup B) = Cardinality(A) + Cardinality(B) - Cardinality(A \cap B)
    BY <1>4, FS_Union
  <2>2. Cardinality(A \cap B) \in Nat /\ Cardinality(A \cup B) \in Nat
    <3>1. IsFiniteSet(A \cap B)
      BY <1>4, FS_Subset
    <3> QED
      BY <2>1, <3>1, FS_CardinalityType
  <2> QED
    BY <1>1, <1>4, <2>1, <2>2
<1>8. IsFiniteSet((A \cup B) \cup C) /\ Cardinality((A \cup B) \cup C) < M
  <2>1. /\ IsFiniteSet((A \cup B) \cup C)
        /\ Cardinality((A \cup B) \cup C) = Cardinality(A \cup B) + Cardinality(C) - Cardinality((A \cup B) \cap C)
    BY <1>5, <1>7, FS_Union
  <2>2. Cardinality((A \cup B) \cap C) \in Nat
    <3>1. IsFiniteSet((A \cup B) \cap C)
      BY <1>5, FS_Subset
    <3> QED
      BY <3>1, FS_CardinalityType
  <2> QED
    BY <1>1, <1>5, <1>7, <2>1, <2>2
<1>9. \E n \in 1..M : ~InUse(n)
  <2>1. SUFFICES ASSUME \A n \in 1..M : InUse(n) PROVE FALSE
    OBVIOUS
  <2>2. 1..M \in SUBSET ((A \cup B) \cup C)
    BY <1>6, <2>1
  <2>3. Cardinality(1..M) <= Cardinality((A \cup B) \cup C)
    BY <1>8, <2>2, FS_Subset
  <2>4. Cardinality((A \cup B) \cup C) \in Nat
    BY <1>8, FS_CardinalityType
  <2> HIDE DEF M
  <2> QED
    BY <1>3, <1>8, <2>3, <2>4
<1>10. Fresh \in 1..M
  BY <1>9 DEF Fresh
<1> HIDE DEF M
<1> QED
  BY <1>3, <1>10

(* Only COMPLETED is Done, and every status written is typed. *)
LEMMA StatusFacts ==
    /\ Done \in StatusType /\ Done.word = "COMPLETED"
    /\ \A word \in Words : Status(word) \in StatusType /\ Status(word).word = word
    /\ TypeOK => \A word \in Words : Stamped(word) \in StatusType /\ Stamped(word).word = word
<1>1. \A word \in Words, n \in Nat : [word |-> word, stamp |-> n] \in StatusType
  BY DEF StatusType
<1>2. 0 \in Nat /\ "COMPLETED" \in Words
  BY DEF Words
<1>3. TypeOK => Fresh \in Nat
  BY FreshTyped
<1> QED
  BY <1>1, <1>2, <1>3 DEF Done, Status, Stamped

(* Writing the row of one scan. *)
Written(new, s, d, k, q) ==
    /\ new \in Seq(Scans) /\ Len(new) = Len(scans)
    /\ \A t \in 1..Len(scans) : t # s => new[t] = scans[t]
    /\ new[s].gen = scans[s].gen /\ new[s].done = d /\ new[s].knowledge = k /\ new[s].search = q

(* What the updates of a scan write and leave alone. *)
LEMMA WrittenFacts ==
    ASSUME scans \in Seq(Scans), NEW s \in 1..Len(scans), NEW k \in StatusType, NEW q \in StatusType,
           NEW d \in BOOLEAN
    PROVE  /\ Written([scans EXCEPT ![s].knowledge = k], s, scans[s].done, k, scans[s].search)
           /\ Written([scans EXCEPT ![s].search = q], s, scans[s].done, scans[s].knowledge, q)
           /\ Written([scans EXCEPT ![s].knowledge = k, ![s].search = q], s, scans[s].done, k, q)
           /\ Written([scans EXCEPT ![s].done = d], s, d, scans[s].knowledge, scans[s].search)
           /\ Written([scans EXCEPT ![s].done = d, ![s].knowledge = k, ![s].search = q], s, d, k, q)
<1>1. scans[s] \in Scans /\ Len(scans) \in Nat
  OBVIOUS
<1>2. ASSUME NEW e \in Scans, e.gen = scans[s].gen
      PROVE  Written([scans EXCEPT ![s] = e], s, e.done, e.knowledge, e.search)
  BY <1>1, <1>2 DEF Written
<1> DEFINE a == [scans[s] EXCEPT !.knowledge = k]
           b == [scans[s] EXCEPT !.search = q]
           c == [scans[s] EXCEPT !.knowledge = k, !.search = q]
           e == [scans[s] EXCEPT !.done = d]
           f == [scans[s] EXCEPT !.done = d, !.knowledge = k, !.search = q]
<1>3. a \in Scans /\ a.gen = scans[s].gen /\ a.done = scans[s].done /\ a.knowledge = k /\ a.search = scans[s].search
  BY <1>1 DEF Scans
<1>4. b \in Scans /\ b.gen = scans[s].gen /\ b.done = scans[s].done /\ b.knowledge = scans[s].knowledge /\ b.search = q
  BY <1>1 DEF Scans
<1>5. c \in Scans /\ c.gen = scans[s].gen /\ c.done = scans[s].done /\ c.knowledge = k /\ c.search = q
  BY <1>1 DEF Scans
<1>6. /\ e \in Scans /\ e.gen = scans[s].gen /\ e.done = d
      /\ e.knowledge = scans[s].knowledge /\ e.search = scans[s].search
  BY <1>1 DEF Scans
<1>7. f \in Scans /\ f.gen = scans[s].gen /\ f.done = d /\ f.knowledge = k /\ f.search = q
  BY <1>1 DEF Scans
<1>8. /\ [scans EXCEPT ![s].knowledge = k] = [scans EXCEPT ![s] = a]
      /\ [scans EXCEPT ![s].search = q] = [scans EXCEPT ![s] = b]
      /\ [scans EXCEPT ![s].knowledge = k, ![s].search = q] = [scans EXCEPT ![s] = c]
      /\ [scans EXCEPT ![s].done = d] = [scans EXCEPT ![s] = e]
      /\ [scans EXCEPT ![s].done = d, ![s].knowledge = k, ![s].search = q] = [scans EXCEPT ![s] = f]
  OBVIOUS
<1> HIDE DEF a, b, c, e, f
<1> QED
  BY <1>2, <1>3, <1>4, <1>5, <1>6, <1>7, <1>8

(* A set of numbers up to n that is not empty has a last one. *)
LEMMA LastExists ==
    ASSUME NEW n \in Nat, NEW T, T \subseteq 1..n, T # {}
    PROVE  \E u \in T : \A t \in T : t <= u
<1> DEFINE gaps == {n - t : t \in T}
<1>1. gaps \subseteq Nat /\ gaps # {}
  OBVIOUS
<1>2. PICK g \in gaps : \A m \in gaps : <<m, g>> \notin OpToRel(<, Nat)
  BY <1>1, NatLessThanWellFounded, WFMin, Zenon
<1>3. \A m \in gaps : ~(m < g)
  BY <1>1, <1>2, Zenon DEF OpToRel
<1>4. PICK u \in T : g = n - u
  BY <1>2
<1>5. \A t \in T : n - t \in gaps
  OBVIOUS
<1>6. \A t \in T : ~(n - t < n - u)
  BY <1>3, <1>4, <1>5, Zenon
<1>7. \A t \in T : t \in Int /\ n \in Int /\ u \in Int
  <2>1. \A t \in T : t \in 1..n
    OBVIOUS
  <2> QED
    BY <2>1
<1>8. \A t \in T : t <= u
  <2> HIDE DEF gaps
  <2> QED
    BY ONLY <1>6, <1>7
<1> QED
  BY <1>8

(* latestKnowledgeSnapshot: a scan that is done with no newer one that is, or none. *)
LEMMA LatestIs ==
    ASSUME TypeOK, GenInv
    PROVE  /\ Len(scans) \in Nat /\ Len(scans) >= 1
           /\ Latest # 0 => /\ Latest \in 1..Len(scans) /\ scans[Latest].done
                            /\ \A t \in 1..Len(scans) : t > Latest => ~scans[t].done
<1> DEFINE usable == {s \in 1..Len(scans) : scans[s].done /\ scans[s].gen = root.gen /\ ~root.busy}
<1>1. /\ Len(scans) \in Nat /\ Len(scans) >= 1 /\ root.gen \in Nat
      /\ \A s \in 1..Len(scans) : scans[s].gen \in Nat /\ scans[s].gen <= root.gen
      /\ \A s, t \in 1..Len(scans) : s <= t => scans[s].gen <= scans[t].gen
  <2>1. scans \in Seq(Scans) /\ root.gen \in Nat
    BY DEF TypeOK, Scans
  <2>2. Len(scans) \in Nat /\ \A s \in 1..Len(scans) : scans[s] \in Scans
    BY <2>1
  <2>3. \A s \in 1..Len(scans) : scans[s].gen \in Nat
    BY <2>2 DEF Scans
  <2> QED
    BY <2>1, <2>2, <2>3 DEF GenInv
<1>2. CASE usable = {}
  BY <1>1, <1>2 DEF Latest
<1>3. CASE usable # {}
  <2>1. \E u \in usable : \A t \in usable : t <= u
    <3>1. usable \subseteq 1..Len(scans)
      OBVIOUS
    <3> HIDE DEF usable
    <3> QED
      BY <1>1, <1>3, <3>1, LastExists
  <2>2. Latest \in usable /\ \A t \in usable : t <= Latest
    BY <1>3, <2>1 DEF Latest
  <2>3. ASSUME NEW t \in 1..Len(scans), t > Latest, scans[t].done PROVE FALSE
    <3>1. scans[Latest].gen = root.gen /\ ~root.busy /\ Latest \in 1..Len(scans)
      BY <2>2
    <3>2. scans[t].gen = root.gen
      BY <1>1, <2>3, <3>1
    <3>3. t \in usable
      BY <2>3, <3>1, <3>2
    <3>4. t <= Latest
      BY <2>2, <3>3
    <3> QED
      BY <1>1, <2>3, <3>1, <3>4
  <2> QED
    BY <1>1, <2>2, <2>3
<1> QED
  BY <1>2, <1>3, <1>1

-----------------------------------------------------------------------------
(* What a step of a worker does to it and to the rest. *)

Rows == [status : {"NONE", "PROCESSING", "INDEXED", "FAILED"}, owner : Workers \cup {"nobody"}, late : BOOLEAN]

(* A transaction begins under the lock, at a scan that is done with no newer one
   that is, with what it reads then, and changes nothing else. *)
Begins(m) ==
    m.pc \in {"tx", "indexTx"} =>
        /\ Unlocked /\ m.scan \in 1..Len(scans) /\ \A t \in 1..Len(scans) : t > m.scan => ~scans[t].done
        /\ m.seen.authority = human.authority /\ m.seen.identity = human.identity
        /\ m.pc = "tx" /\ m.stage = "search" => scans[m.scan].knowledge = Done
        /\ UNCHANGED <<scans, human, history, signals, entry, backfill, touched>>

MovesTo(w, m) ==
    m \in Locals /\ LocalOK(m) /\ Begins(m) /\ local' = [local EXCEPT ![w] = m]

SameDone ==
    /\ scans' \in Seq(Scans) /\ Len(scans') = Len(scans)
    /\ \A t \in 1..Len(scans) :
         /\ scans'[t].gen = scans[t].gen /\ scans'[t].done = scans[t].done
         /\ scans'[t].knowledge = Done <=> scans[t].knowledge = Done
         /\ scans'[t].search = Done <=> scans[t].search = Done

(* A step of a worker that publishes nothing. *)
Quiet(w) ==
    /\ \E m : MovesTo(w, m)
    /\ UNCHANGED <<root, human, history, signals, entry>>
    /\ SameDone
    /\ backfill' \in [1..MaxScans -> Rows]
    /\ \A s \in 1..MaxScans : backfill'[s].status = "NONE" => backfill[s].status = "NONE"
    /\ touched' \in BOOLEAN /\ counts' \in 0..MaxEvents
    /\ \A v \in Workers : v # w /\ local[v].pc = "tx" /\ ~touched' => ~touched

(* What each scan owes is not newer than the decisions. *)
Histories(a, i) == [1..MaxScans -> [authority : 0..a, identity : 0..i, indexed : BOOLEAN]]

(* What the invariant says of the parts, in the names of these proofs. *)
Facts ==
    /\ scans \in Seq(Scans) /\ Len(scans) \in Nat /\ Len(scans) >= 1 /\ Len(scans) <= MaxScans
    /\ MaxScans \in Nat /\ MaxEvents \in Nat
    /\ \A s \in 1..Len(scans) : scans[s] \in Scans
    /\ local \in [Workers -> Locals]
    /\ \A w \in Workers : local[w] \in Locals /\ LocalOK(local[w])
    /\ human.authority \in Nat /\ human.identity \in Nat /\ history \in Histories(human.authority, human.identity)
    /\ backfill \in [1..MaxScans -> Rows]
    /\ touched \in BOOLEAN /\ counts \in 0..MaxEvents

(* The facts every action starts from follow from the invariant. *)
LEMMA FactsHold == ASSUME Inv PROVE Facts
<1>1. scans \in Seq(Scans) /\ Len(scans) <= MaxScans /\ Len(scans) >= 1
  BY DEF Inv, TypeOK, GenInv, Scans
<1>2. Len(scans) \in Nat /\ \A s \in 1..Len(scans) : scans[s] \in Scans
  BY <1>1
<1>3. local \in [Workers -> Locals] /\ \A w \in Workers : local[w] \in Locals /\ LocalOK(local[w])
  BY DEF Inv, LocalInv
<1>4. human.authority \in Nat /\ human.identity \in Nat /\ history \in Histories(human.authority, human.identity)
  BY DEF Inv, TypeOK, Histories
<1>5. backfill \in [1..MaxScans -> Rows] /\ touched \in BOOLEAN /\ counts \in 0..MaxEvents
  BY DEF Inv, TypeOK, Rows
<1> QED
  BY <1>1, <1>2, <1>3, <1>4, <1>5, PublicationAssumption DEF Facts

(* A step that writes no scan completes none. *)
LEMMA NothingWritten == ASSUME Facts, UNCHANGED scans PROVE SameDone
  BY DEF Facts, SameDone

(* A stage that was not COMPLETED is left so. *)
LEMMA OpenWritten ==
    ASSUME Facts, NEW s \in 1..Len(scans), NEW k, NEW q, Written(scans', s, scans[s].done, k, q),
           k = Done <=> scans[s].knowledge = Done, q = Done <=> scans[s].search = Done
    PROVE  SameDone
  BY DEF Facts, SameDone, Written

(* A worker without a task is well formed. *)
LEMMA IdleOK == ASSUME Facts PROVE Idle \in Locals /\ LocalOK(Idle) /\ Idle.pc = "idle" /\ Begins(Idle)
<1>1. Done \in StatusType
  BY StatusFacts
<1>2. NoTx \in Seen /\ NoTx.authority = 0 /\ NoTx.identity = 0
  BY <1>1 DEF NoTx, Seen
<1>3. 0 \in 0..MaxScans /\ 0 \in 0..Len(scans)
  BY DEF Facts
<1>4. /\ Idle \in Locals /\ Idle.pc = "idle" /\ Idle.scan = 0 /\ Idle.seen = NoTx
  BY <1>2, <1>3 DEF Idle, Locals, Pcs
<1> QED
  BY <1>2, <1>3, <1>4 DEF Facts, LocalOK, LocalAt, Begins

(* A worker that finishes is idle. *)
LEMMA FinishMoves == ASSUME Facts, NEW w \in Workers, Finish(w) PROVE MovesTo(w, Idle)
  BY IdleOK DEF Finish, MovesTo

(* A worker goes on, keeping what it read. *)
LEMMA GotoMoves ==
    ASSUME Facts, NEW w \in Workers, local[w].pc # "idle",
           NEW pc \in {"claim", "index", "settle", "failed"}, Goto(w, pc), pc = "failed" => local[w].pc = "tx"
    PROVE  \E m : MovesTo(w, m)
<1> DEFINE m == [local[w] EXCEPT !.pc = pc]
<1>1. local[w] \in Locals /\ LocalOK(local[w]) /\ local' = [local EXCEPT ![w] = m]
  BY DEF Facts, Goto
<1>2. /\ m \in Locals /\ m.pc = pc /\ m.scan = local[w].scan /\ m.seen = local[w].seen
  BY <1>1 DEF Locals, Pcs
<1> HIDE DEF m
<1>3. LocalOK(m)
  BY <1>1, <1>2 DEF LocalOK, LocalAt
<1>4. MovesTo(w, m)
  BY <1>1, <1>2, <1>3 DEF MovesTo, Begins
<1> QED
  BY <1>4

(* It forgets what it read. *)
LEMMA ForgetMoves ==
    ASSUME Facts, NEW w \in Workers, local[w].pc # "idle",
           NEW pc \in {"mark", "stage", "save"}, NEW stage \in {"knowledge", "search"},
           NEW row \in {"NONE", "INDEXED", "FAILED"}, pc = "save" => row # "NONE", pc = "stage" => stage = "search",
           local' = [local EXCEPT ![w] = [@ EXCEPT !.pc = pc, !.stage = stage, !.row = row, !.seen = NoTx]]
    PROVE  \E m : MovesTo(w, m)
<1> DEFINE m == [local[w] EXCEPT !.pc = pc, !.stage = stage, !.row = row, !.seen = NoTx]
<1>1. local[w] \in Locals /\ LocalOK(local[w]) /\ local' = [local EXCEPT ![w] = m]
  BY DEF Facts
<1>2. NoTx \in Seen /\ NoTx.authority = 0 /\ NoTx.identity = 0
  BY StatusFacts DEF NoTx, Seen
<1>3. /\ m \in Locals /\ m.pc = pc /\ m.scan = local[w].scan /\ m.seen = NoTx /\ m.row = row /\ m.stage = stage
  BY <1>1, <1>2 DEF Locals, Pcs
<1> HIDE DEF m
<1>4. LocalOK(m)
  BY <1>1, <1>2, <1>3 DEF LocalOK, LocalAt, Facts
<1>5. MovesTo(w, m)
  BY <1>1, <1>3, <1>4 DEF MovesTo, Begins
<1> QED
  BY <1>5

(* Behind an index row the worker takes the next row or finishes. *)
LEMMA AfterIndexMoves ==
    ASSUME Facts, NEW w \in Workers, local[w].pc # "idle", NEW row \in {"INDEXED", "FAILED"}, AfterIndex(w, row)
    PROVE  \E m : MovesTo(w, m)
<1>1. CASE Finish(w)
  BY <1>1, FinishMoves
<1>2. CASE local' = [local EXCEPT ![w].pc = "save", ![w].row = row, ![w].seen = NoTx]
  <2>1. local[w] \in Locals
    BY DEF Facts
  <2>2. local[w].stage \in {"knowledge", "search"}
        /\ [local[w] EXCEPT !.pc = "save", !.row = row, !.seen = NoTx]
             = [local[w] EXCEPT !.pc = "save", !.stage = local[w].stage, !.row = row, !.seen = NoTx]
    BY <2>1 DEF Locals
  <2>3. local' = [local EXCEPT ![w] = [@ EXCEPT !.pc = "save", !.stage = local[w].stage, !.row = row, !.seen = NoTx]]
    BY <1>2, <2>2
  <2> QED
    BY <2>2, <2>3, ForgetMoves
<1> QED
  BY <1>1, <1>2 DEF AfterIndex

(* Behind a stage the worker takes the next stage or finishes. *)
LEMMA AfterStageMoves ==
    ASSUME Facts, NEW w \in Workers, local[w].pc # "idle", AfterStage(w)
    PROVE  \E m : MovesTo(w, m) /\ m.pc \in {"idle", "mark", "stage"}
<1>1. CASE Finish(w)
  BY <1>1, FinishMoves, IdleOK
<1>2. local[w] \in Locals
  BY DEF Facts
<1>3. local[w].stage \in {"knowledge", "search"} /\ local[w].row \in {"NONE", "INDEXED", "FAILED"}
  BY <1>2 DEF Locals
<1>4. CASE local' = [local EXCEPT ![w].pc = "mark", ![w].seen = NoTx]
  <2>1. [local[w] EXCEPT !.pc = "mark", !.seen = NoTx]
             = [local[w] EXCEPT !.pc = "mark", !.stage = local[w].stage, !.row = local[w].row, !.seen = NoTx]
    BY <1>2 DEF Locals
  <2>2. local' = [local EXCEPT ![w] = [@ EXCEPT !.pc = "mark", !.stage = local[w].stage, !.row = local[w].row,
                                                !.seen = NoTx]]
    BY <1>4, <2>1
  <2>3. PICK m : MovesTo(w, m)
    BY <1>3, <2>2, ForgetMoves
  <2>4. m.pc = "mark"
    BY <1>2, <1>4, <2>3 DEF MovesTo, Facts, Locals
  <2> QED
    BY <2>3, <2>4
<1>5. CASE local' = [local EXCEPT ![w].pc = "stage", ![w].stage = "search", ![w].seen = NoTx]
  <2>1. [local[w] EXCEPT !.pc = "stage", !.stage = "search", !.seen = NoTx]
             = [local[w] EXCEPT !.pc = "stage", !.stage = "search", !.row = local[w].row, !.seen = NoTx]
    BY <1>2 DEF Locals
  <2>2. local' = [local EXCEPT ![w] = [@ EXCEPT !.pc = "stage", !.stage = "search", !.row = local[w].row,
                                                !.seen = NoTx]]
    BY <1>5, <2>1
  <2>3. PICK m : MovesTo(w, m)
    BY <1>3, <2>2, ForgetMoves
  <2>4. m.pc = "stage"
    BY <1>2, <1>5, <2>3 DEF MovesTo, Facts, Locals
  <2> QED
    BY <2>3, <2>4
<1> QED
  BY <1>1, <1>4, <1>5 DEF AfterStage

-----------------------------------------------------------------------------
(* Steps of a worker that publish nothing. *)

(* A transaction that begins. *)
LEMMA BeginMoves ==
    ASSUME Facts, NEW w \in Workers, Unlocked, NEW m \in Locals,
           m.scan \in 1..Len(scans), \A t \in 1..Len(scans) : t > m.scan => ~scans[t].done,
           m.pc = "tx" \/ m.pc = "indexTx", m.seen = Snapshot(m.scan, m.stage),
           m.pc = "tx" => m.seen.expected # Done,
           m.pc = "tx" /\ m.stage = "search" => scans[m.scan].knowledge = Done,
           UNCHANGED <<scans, human, history, signals, entry, backfill, touched>>,
           local' = [local EXCEPT ![w] = m]
    PROVE  MovesTo(w, m)
<1>1. m.seen.authority = human.authority /\ m.seen.identity = human.identity
  BY DEF Snapshot
<1>2. LocalOK(m)
  BY <1>1 DEF LocalOK, LocalAt, Facts
<1> QED
  BY <1>1, <1>2 DEF MovesTo, Begins

(* The fence a stage takes carries the status it saw. *)
LEMMA SnapshotTyped ==
    ASSUME Facts, NEW s \in 1..Len(scans), NEW stage \in {"knowledge", "search"}
    PROVE  Snapshot(s, stage) \in Seen /\ Snapshot(s, stage).expected = StageStatus(s, stage)
<1>1. scans[s].knowledge \in StatusType /\ scans[s].search \in StatusType
  BY DEF Facts, Scans
<1>2. StageStatus(s, stage) \in StatusType
  BY <1>1 DEF StageStatus
<1> QED
  BY <1>2 DEF Snapshot, Seen, Facts

(* Taking up a publication writes nothing that others read. *)
LEMMA StartPublishQuiet ==
    ASSUME Inv, NEW w \in Workers, NEW task \in {"publish", "prepare"}, StartPublish(w, task) PROVE Quiet(w)
<1>1. /\ Facts /\ Latest \in 1..Len(scans) /\ Latest \in 0..MaxScans
      /\ \A t \in 1..Len(scans) : t > Latest => ~scans[t].done
  BY FactsHold, LatestIs DEF Inv, StartPublish, Facts
<1>2. Unlocked /\ UNCHANGED <<root, scans, human, history, signals, entry, backfill, touched, counts>>
  BY DEF StartPublish, CurrentScan
<1> DEFINE n == Latest
           seen == Snapshot(n, "knowledge")
           a == [Idle EXCEPT !.pc = "tx", !.scan = n, !.task = task, !.seen = seen]
           b == [Idle EXCEPT !.pc = "mark", !.scan = n, !.task = task]
           c == [Idle EXCEPT !.pc = "stage", !.scan = n, !.stage = "search"]
<1>3. \/ scans[n].knowledge # Done /\ local' = [local EXCEPT ![w] = a]
      \/ local' = [local EXCEPT ![w] = b]
      \/ local' = [local EXCEPT ![w] = c]
  BY <1>1 DEF StartPublish
<1>4. Idle \in Locals /\ LocalOK(Idle)
  BY <1>1, IdleOK
<1>5. seen \in Seen /\ seen.expected = scans[n].knowledge
  BY <1>1, SnapshotTyped DEF StageStatus
<1>6. ASSUME NEW m \in Locals, m.pc \in {"mark", "stage"}, m.scan = n, m.seen = Idle.seen, m.pc = "stage" => m.stage = "search"
      PROVE  LocalOK(m) /\ Begins(m)
  BY <1>1, <1>4, <1>6 DEF LocalOK, LocalAt, Begins
<1> HIDE DEF n, seen
<1>7. a \in Locals /\ a.pc = "tx" /\ a.scan = n /\ a.seen = seen /\ a.stage = "knowledge"
  BY <1>1, <1>4, <1>5 DEF Locals, Pcs, Idle, n
<1>8. b \in Locals /\ b.pc = "mark" /\ b.scan = n /\ b.seen = Idle.seen
  BY <1>1, <1>4 DEF Locals, Pcs, n
<1>9. c \in Locals /\ c.pc = "stage" /\ c.scan = n /\ c.seen = Idle.seen /\ c.stage = "search"
  BY <1>1, <1>4 DEF Locals, Pcs, n
<1> HIDE DEF a, b, c
<1>10. \E m : MovesTo(w, m)
  <2>1. CASE scans[n].knowledge # Done /\ local' = [local EXCEPT ![w] = a]
    <3>1. MovesTo(w, a)
      BY <1>1, <1>2, <1>5, <1>7, <2>1, BeginMoves DEF seen, n
    <3> QED
      BY <3>1
  <2>2. CASE local' = [local EXCEPT ![w] = b]
    <3>1. MovesTo(w, b)
      BY <1>6, <1>8, <2>2 DEF MovesTo
    <3> QED
      BY <3>1
  <2>3. CASE local' = [local EXCEPT ![w] = c]
    <3>1. MovesTo(w, c)
      BY <1>6, <1>9, <2>3 DEF MovesTo
    <3> QED
      BY <3>1
  <2> QED
    BY <1>3, <2>1, <2>2, <2>3
<1> QED
  BY <1>1, <1>2, <1>10, NothingWritten DEF Quiet, Facts

(* The scan of a busy worker that is found current is done and no newer one is. *)
LEMMA CurrentIsNewest ==
    ASSUME Inv, NEW w \in Workers, local[w].pc # "idle", CurrentScan(local[w].scan)
    PROVE  /\ Unlocked /\ local[w].scan \in 1..Len(scans)
           /\ \A t \in 1..Len(scans) : t > local[w].scan => ~scans[t].done
<1>1. local[w].scan # 0 /\ Facts
  BY FactsHold DEF Facts, LocalOK, LocalAt
<1> QED
  BY <1>1, LatestIs DEF Inv, CurrentScan, Facts

(* Nor does the claim of the Search stage. *)
LEMMA BeginSearchQuiet == ASSUME Inv, NEW w \in Workers, BeginSearch(w) PROVE Quiet(w)
<1>1. /\ Facts /\ local[w].pc = "stage" /\ UNCHANGED <<root, scans, human, history, signals, entry, backfill, touched, counts>>
  BY FactsHold DEF BeginSearch
<1>2. CASE Finish(w)
  BY <1>1, <1>2, FinishMoves, NothingWritten DEF Quiet, Facts
<1>3. CASE /\ SearchReady(local[w].scan) /\ scans[local[w].scan].search # Done
           /\ local' = [local EXCEPT ![w].pc = "tx", ![w].seen = Snapshot(local[w].scan, "search")]
  <2>1. /\ Unlocked /\ local[w].scan \in 1..Len(scans) /\ scans[local[w].scan].knowledge = Done
        /\ \A t \in 1..Len(scans) : t > local[w].scan => ~scans[t].done
    BY <1>1, <1>3, CurrentIsNewest DEF SearchReady
  <2> DEFINE seen == Snapshot(local[w].scan, "search")
             m == [local[w] EXCEPT !.pc = "tx", !.seen = seen]
  <2>2. seen \in Seen /\ seen.expected # Done
    BY <1>1, <1>3, <2>1, SnapshotTyped DEF StageStatus
  <2>3. local[w] \in Locals /\ local' = [local EXCEPT ![w] = m]
    BY <1>1, <1>3 DEF Facts
  <2>4. local[w].stage = "search"
    BY <1>1 DEF Facts, LocalOK, LocalAt
  <2> HIDE DEF seen
  <2>5. m \in Locals /\ m.pc = "tx" /\ m.seen = seen /\ m.scan = local[w].scan /\ m.stage = "search"
    BY <2>2, <2>3, <2>4 DEF Locals, Pcs
  <2> HIDE DEF m
  <2>6. MovesTo(w, m)
    BY <1>1, <2>1, <2>2, <2>3, <2>5, BeginMoves DEF seen
  <2> QED
    BY <1>1, <2>6, NothingWritten DEF Quiet, Facts
<1> QED
  BY <1>2, <1>3 DEF BeginSearch

(* Nor does a stage whose fence failed. *)
LEMMA AbortStageQuiet == ASSUME Inv, NEW w \in Workers, AbortStage(w) PROVE Quiet(w)
<1>1. /\ Facts /\ local[w].pc = "tx" /\ UNCHANGED <<root, scans, human, history, signals, entry, backfill>>
      /\ touched' = FALSE /\ counts' \in 0..MaxEvents /\ Goto(w, "failed")
  BY FactsHold DEF AbortStage, Event, Facts
<1>2. \E m : MovesTo(w, m)
  BY <1>1, GotoMoves
<1>3. \A v \in Workers : v # w => local[v].pc # "tx"
  BY <1>1 DEF Inv, LockInv, InTx
<1> QED
  BY <1>1, <1>2, <1>3, NothingWritten DEF Quiet, Facts

(* Nor does the record of a failed stage. *)
LEMMA RecordFailureQuiet == ASSUME Inv, NEW w \in Workers, RecordFailure(w) PROVE Quiet(w)
<1> DEFINE s == local[w].scan
           k == Stamped("INCOMPLETE")
           q == Status("INCOMPLETE")
<1>1. /\ Facts /\ local[w].pc = "failed" /\ UNCHANGED <<root, human, history, signals, entry, backfill, counts>> /\ Finish(w)
      /\ touched' = touched \/ touched' = (touched \/ Writing(s))
  BY FactsHold DEF RecordFailure, Touch
<1>2. s \in 1..Len(scans) /\ local[w].seen.expected # Done
  BY <1>1 DEF Facts, LocalOK, LocalAt
<1>3. k \in StatusType /\ q \in StatusType /\ k # Done /\ q # Done
  BY StatusFacts DEF Inv, Words
<1>4. scans[s].search = Done => scans[s].knowledge = Done
  BY <1>2 DEF Inv, ScanInv
<1>5. ASSUME UNCHANGED scans PROVE SameDone
  BY <1>5, <1>1, NothingWritten
<1>6. ASSUME StageStatus(s, local[w].stage) = local[w].seen.expected,
             scans' = IF local[w].stage = "search" THEN [scans EXCEPT ![s].search = k]
                      ELSE [scans EXCEPT ![s].knowledge = k, ![s].search = q]
      PROVE  SameDone
  <2>1. CASE local[w].stage = "search"
    <3>1. Written(scans', s, scans[s].done, scans[s].knowledge, k) /\ scans[s].search # Done
      BY <1>1, <1>2, <1>3, <1>6, <2>1, WrittenFacts DEF Facts, StageStatus
    <3> QED
      BY <1>1, <1>2, <1>3, <3>1, OpenWritten
  <2>2. CASE local[w].stage # "search"
    <3>1. local[w].stage = "knowledge"
      BY <1>1, <2>2 DEF Facts, Locals
    <3>2. Written(scans', s, scans[s].done, k, q) /\ scans[s].knowledge # Done
      BY <1>1, <1>2, <1>3, <1>6, <3>1, WrittenFacts DEF Facts, StageStatus
    <3> QED
      BY <1>1, <1>2, <1>3, <1>4, <3>2, OpenWritten
  <2> QED
    BY <2>1, <2>2
<1>7. SameDone
  BY <1>5, <1>6 DEF RecordFailure
<1>8. touched' \in BOOLEAN /\ (~touched' => ~touched)
  BY <1>1 DEF Facts, Writing
<1> QED
  BY <1>1, <1>7, <1>8, FinishMoves DEF Quiet, Facts

(* Nor does the start of the preparation. *)
LEMMA MarkPreparingQuiet == ASSUME Inv, NEW w \in Workers, MarkPreparing(w) PROVE Quiet(w)
<1> DEFINE s == local[w].scan
<1>1. /\ Facts /\ local[w].pc = "mark" /\ UNCHANGED <<root, human, history, signals, entry, backfill, counts, touched>>
      /\ Goto(w, "claim") \/ Finish(w)
  BY FactsHold DEF MarkPreparing
<1>2. s \in 1..Len(scans)
  BY <1>1 DEF Facts, LocalOK, LocalAt
<1>3. Status("PREPARING") \in StatusType /\ Status("PREPARING") # Done
  BY StatusFacts DEF Words
<1>4. ASSUME UNCHANGED scans PROVE SameDone
  BY <1>1, <1>4, NothingWritten
<1>5. ASSUME scans[s].search # Done, scans' = [scans EXCEPT ![s].search = Status("PREPARING")] PROVE SameDone
  <2>1. Written(scans', s, scans[s].done, scans[s].knowledge, Status("PREPARING"))
    BY <1>1, <1>2, <1>3, <1>5, WrittenFacts DEF Facts
  <2> QED
    BY <1>1, <1>2, <1>3, <1>5, <2>1, OpenWritten
<1>6. SameDone
  BY <1>4, <1>5 DEF MarkPreparing
<1>7. \E m : MovesTo(w, m)
  BY <1>1, FinishMoves, GotoMoves
<1> QED
  BY <1>1, <1>6, <1>7 DEF Quiet, Facts

(* Nor does a preparation that failed. *)
LEMMA FailPrepareQuiet == ASSUME Inv, NEW w \in Workers, FailPrepare(w) PROVE Quiet(w)
<1> DEFINE s == local[w].scan
<1>1. /\ Facts /\ local[w].pc # "idle" /\ UNCHANGED <<root, human, history, signals, entry, backfill>> /\ Finish(w)
      /\ counts' \in 0..MaxEvents
      /\ touched' = touched \/ touched' = (touched \/ Writing(s))
  BY FactsHold DEF FailPrepare, Touch, Event, Facts
<1>2. s \in 1..Len(scans)
  BY <1>1 DEF Facts, LocalOK, LocalAt
<1>3. Status("INCOMPLETE") \in StatusType /\ Status("INCOMPLETE") # Done
  BY StatusFacts DEF Words
<1>4. ASSUME UNCHANGED scans PROVE SameDone
  BY <1>1, <1>4, NothingWritten
<1>5. ASSUME scans[s].search # Done, scans' = [scans EXCEPT ![s].search = Status("INCOMPLETE")] PROVE SameDone
  <2>1. Written(scans', s, scans[s].done, scans[s].knowledge, Status("INCOMPLETE"))
    BY <1>1, <1>2, <1>3, <1>5, WrittenFacts DEF Facts
  <2> QED
    BY <1>1, <1>2, <1>3, <1>5, <2>1, OpenWritten
<1>6. SameDone
  BY <1>4, <1>5 DEF FailPrepare
<1>7. touched' \in BOOLEAN /\ (~touched' => ~touched)
  BY <1>1 DEF Facts
<1> QED
  BY <1>1, <1>6, <1>7, FinishMoves DEF Quiet, Facts

(* The row of a file is never taken back. *)
LEMMA RowWritten ==
    ASSUME Facts, NEW s \in 1..MaxScans, NEW row \in Rows, row.status # "NONE",
           backfill' = backfill \/ backfill' = [backfill EXCEPT ![s] = row]
    PROVE  /\ backfill' \in [1..MaxScans -> Rows]
           /\ \A t \in 1..MaxScans : backfill'[t].status = "NONE" => backfill[t].status = "NONE"
  BY DEF Facts

(* Nor does the claim of a backfill row. *)
LEMMA ClaimFileQuiet == ASSUME Inv, NEW w \in Workers, ClaimFile(w) PROVE Quiet(w)
<1> DEFINE s == local[w].scan
           row == [status |-> "PROCESSING", owner |-> w, late |-> FALSE]
<1>1. /\ Facts /\ local[w].pc = "claim" /\ UNCHANGED <<root, scans, human, history, signals, entry, counts, touched>>
      /\ Goto(w, "index") \/ Goto(w, "settle")
      /\ backfill' = backfill \/ backfill' = [backfill EXCEPT ![s] = row]
  BY FactsHold DEF ClaimFile
<1>2. s \in 1..MaxScans
  BY <1>1 DEF Facts, LocalOK, LocalAt
<1>3. row \in Rows /\ row.status # "NONE"
  BY DEF Rows
<1>4. \E m : MovesTo(w, m)
  BY <1>1, GotoMoves
<1> QED
  BY <1>1, <1>2, <1>3, <1>4, RowWritten, NothingWritten DEF Quiet, Facts

(* Nor does the outcome of a backfill row. *)
LEMMA SaveRowQuiet == ASSUME Inv, NEW w \in Workers, SaveRow(w) PROVE Quiet(w)
<1> DEFINE s == local[w].scan
           row == [status |-> local[w].row, owner |-> "nobody", late |-> FALSE]
<1>1. /\ Facts /\ local[w].pc = "save" /\ UNCHANGED <<root, scans, human, history, signals, entry, counts, touched>>
      /\ Goto(w, "settle")
      /\ backfill' = backfill \/ backfill' = [backfill EXCEPT ![s] = row]
  BY FactsHold DEF SaveRow
<1>2. s \in 1..MaxScans
  BY <1>1 DEF Facts, LocalOK, LocalAt
<1>3. row \in Rows /\ row.status # "NONE"
  BY <1>1 DEF Rows, Facts, LocalOK, LocalAt, Locals
<1>4. \E m : MovesTo(w, m)
  BY <1>1, GotoMoves
<1> QED
  BY <1>1, <1>2, <1>3, <1>4, RowWritten, NothingWritten DEF Quiet, Facts

(* Nor does taking up a refresh. *)
LEMMA StartRefreshQuiet ==
    ASSUME Inv, NEW w \in Workers, NEW task \in {"refresh", "identity"}, StartRefresh(w, task) PROVE Quiet(w)
<1>1. /\ Facts /\ Latest \in 1..Len(scans) /\ Latest \in 0..MaxScans
      /\ \A t \in 1..Len(scans) : t > Latest => ~scans[t].done
  BY FactsHold, LatestIs DEF Inv, StartRefresh, Facts
<1>2. Unlocked /\ UNCHANGED <<root, scans, human, history, signals, entry, backfill, touched, counts>>
  BY DEF StartRefresh, CurrentScan
<1> DEFINE n == Latest
           seen == Snapshot(n, "search")
           m == [Idle EXCEPT !.pc = "indexTx", !.scan = n, !.task = task, !.seen = seen]
<1>3. local' = [local EXCEPT ![w] = m]
  BY <1>1 DEF StartRefresh
<1>4. Idle \in Locals /\ LocalOK(Idle)
  BY <1>1, IdleOK
<1>5. seen \in Seen /\ seen.authority = human.authority /\ seen.identity = human.identity
  BY <1>1, SnapshotTyped DEF Snapshot
<1> HIDE DEF n, seen
<1>6. m \in Locals /\ m.pc = "indexTx" /\ m.scan = n /\ m.seen = seen
  BY <1>1, <1>4, <1>5 DEF Locals, Pcs, n
<1> HIDE DEF m
<1>7. LocalOK(m) /\ Begins(m)
  BY <1>1, <1>2, <1>5, <1>6 DEF LocalOK, LocalAt, Begins, Facts, n
<1>8. MovesTo(w, m)
  BY <1>3, <1>6, <1>7 DEF MovesTo
<1> QED
  BY <1>1, <1>2, <1>8, NothingWritten DEF Quiet, Facts

(* Nor does reading the candidate of an index entry. *)
LEMMA BeginIndexQuiet == ASSUME Inv, NEW w \in Workers, BeginIndex(w) PROVE Quiet(w)
<1>1. /\ Facts /\ local[w].pc = "index" /\ UNCHANGED <<root, scans, human, history, signals, entry, backfill, touched, counts>>
  BY FactsHold DEF BeginIndex
<1>2. CASE AfterIndex(w, "FAILED")
  BY <1>1, <1>2, AfterIndexMoves, NothingWritten DEF Quiet, Facts
<1>3. CASE /\ CurrentScan(local[w].scan)
           /\ local' = [local EXCEPT ![w].pc = "indexTx", ![w].seen = Snapshot(local[w].scan, "search")]
  <2>1. /\ Unlocked /\ local[w].scan \in 1..Len(scans)
        /\ \A t \in 1..Len(scans) : t > local[w].scan => ~scans[t].done
    BY <1>1, <1>3, CurrentIsNewest
  <2> DEFINE seen == Snapshot(local[w].scan, "search")
             m == [local[w] EXCEPT !.pc = "indexTx", !.seen = seen]
  <2>2. seen \in Seen /\ seen.authority = human.authority /\ seen.identity = human.identity
    BY <1>1, <2>1, SnapshotTyped DEF Snapshot
  <2>3. local[w] \in Locals /\ LocalOK(local[w]) /\ local' = [local EXCEPT ![w] = m]
    BY <1>1, <1>3 DEF Facts
  <2> HIDE DEF seen
  <2>4. m \in Locals /\ m.pc = "indexTx" /\ m.seen = seen /\ m.scan = local[w].scan
    BY <2>2, <2>3 DEF Locals, Pcs
  <2> HIDE DEF m
  <2>5. LocalOK(m) /\ Begins(m)
    BY <1>1, <2>1, <2>2, <2>3, <2>4 DEF LocalOK, LocalAt, Begins, Facts
  <2>6. MovesTo(w, m)
    BY <2>3, <2>4, <2>5 DEF MovesTo
  <2> QED
    BY <1>1, <2>6, NothingWritten DEF Quiet, Facts
<1> QED
  BY <1>2, <1>3 DEF BeginIndex

(* Nor does an index entry whose fence failed. *)
LEMMA AbortIndexQuiet == ASSUME Inv, NEW w \in Workers, AbortIndex(w) PROVE Quiet(w)
<1>1. /\ Facts /\ local[w].pc = "indexTx" /\ UNCHANGED <<root, scans, human, history, signals, entry, backfill, touched>>
      /\ counts' \in 0..MaxEvents /\ AfterIndex(w, "FAILED")
  BY FactsHold DEF AbortIndex, Event, Facts
<1> QED
  BY <1>1, AfterIndexMoves, NothingWritten DEF Quiet, Facts

(* Nor does the death of a worker. *)
LEMMA WorkerDiesQuiet == ASSUME Inv, NEW w \in Workers, WorkerDies(w) PROVE Quiet(w)
<1>1. /\ Facts /\ UNCHANGED <<root, scans, human, history, signals, entry, backfill>> /\ Finish(w)
      /\ counts' \in 0..MaxEvents /\ touched' = (touched /\ local[w].pc # "tx")
  BY FactsHold DEF WorkerDies, Event, Facts
<1>2. touched' \in BOOLEAN /\ (~touched' => ~touched \/ local[w].pc = "tx")
  BY <1>1 DEF Facts
<1>3. \A v \in Workers : v # w /\ local[v].pc = "tx" => local[w].pc # "tx"
  BY DEF Inv, LockInv, InTx
<1> QED
  BY <1>1, <1>2, <1>3, FinishMoves, NothingWritten DEF Quiet, Facts

-----------------------------------------------------------------------------
(* The invariant. *)

(* A worker that moves to a well-formed state leaves all of them well formed.
   *)
LEMMA LocalKept ==
    ASSUME Facts, NEW w \in Workers, NEW m, MovesTo(w, m), human' = human, Len(scans') = Len(scans)
    PROVE  /\ LocalInv' /\ \A v \in Workers : local'[v] = IF v = w THEN m ELSE local[v]
           /\ \A v \in Workers : local'[v].pc \in Pcs /\ local'[v].scan \in 0..Len(scans')
<1>1. \A v \in Workers : local'[v] = IF v = w THEN m ELSE local[v]
  BY DEF Facts, MovesTo
<1>2. local' \in [Workers -> Locals]
  BY DEF Facts, MovesTo
<1>3. \A v \in Workers : LocalAt(local'[v], Len(scans'), human')
  BY <1>1 DEF Facts, MovesTo, LocalOK
<1>4. \A v \in Workers : local'[v].pc \in Pcs /\ local'[v].scan \in 0..Len(scans')
  BY <1>2, <1>3 DEF Locals, LocalAt
<1> QED
  BY <1>1, <1>2, <1>3, <1>4 DEF LocalInv, LocalOK

(* A worker that is not in a transaction afterwards, or just began one, keeps
   the transactions apart. *)
LEMMA LockKept ==
    ASSUME Inv, NEW w \in Workers, NEW m, MovesTo(w, m), Len(scans') = Len(scans), entry'.scan <= Len(scans)
    PROVE  LockInv'
<1>1. \A v \in Workers : local'[v] = IF v = w THEN m ELSE local[v]
  BY FactsHold DEF Facts, MovesTo
<1>2. m.pc \in {"tx", "indexTx"} => Unlocked
  BY DEF MovesTo, Begins
<1>3. \A v \in Workers : InTx(v)' <=> local'[v].pc \in {"tx", "indexTx"}
  BY DEF InTx
<1>4. \A u, v \in Workers : InTx(u)' /\ InTx(v)' => u = v
  BY <1>1, <1>2, <1>3 DEF Inv, LockInv, InTx, Unlocked
<1> QED
  BY <1>4 DEF LockInv

(* The generations of the scans stay below that of the root. *)
LEMMA GenKept ==
    ASSUME Inv, scans' \in Seq(Scans), Len(scans') = Len(scans), root'.gen >= root.gen, root'.gen \in Nat,
           \A t \in 1..Len(scans) : scans'[t].gen = scans[t].gen
    PROVE  GenInv'
<1>1. Facts /\ root.gen \in Nat /\ \A t \in 1..Len(scans) : scans[t].gen \in Nat
  <2>1. Facts /\ root.gen \in Nat
    BY FactsHold DEF Inv, TypeOK
  <2> QED
    BY <2>1 DEF Facts, Scans
<1> QED
  BY <1>1 DEF Inv, GenInv

(* A step that publishes nothing: it completes no stage, and no scan with a
   completed Search; what a completed stage owes does not change; the signals
   stay or show everything. *)
Unpublished ==
    /\ scans' \in Seq(Scans) /\ Len(scans') \in Nat /\ Len(scans') >= Len(scans)
    /\ \A t \in 1..Len(scans') :
         /\ scans'[t].knowledge = Done =>
              /\ t \in 1..Len(scans) /\ scans[t].knowledge = Done /\ history'[t].authority = history[t].authority
         /\ scans'[t].search = Done =>
              /\ t \in 1..Len(scans) /\ scans[t].search = Done /\ history'[t].identity = history[t].identity
              /\ scans'[t].knowledge = Done /\ (scans'[t].done => scans[t].done)
    /\ entry' = entry
    /\ signals' = signals \/ \A t \in 1..Len(scans') : signals' >= history'[t].authority
    /\ \A t \in 1..MaxScans : backfill'[t].status = "NONE" => backfill[t].status = "NONE"

(* It keeps what is said of the scans. *)
LEMMA ScanKept == ASSUME Inv, Unpublished PROVE ScanInv'
<1> SUFFICES ASSUME NEW s \in 1..Len(scans')
             PROVE  /\ scans'[s].search = Done => scans'[s].knowledge = Done
                    /\ scans'[s].knowledge = Done => signals' >= history'[s].authority
                    /\ scans'[s].search = Done /\ Unprepared(s)' =>
                         /\ entry'.authority >= history'[s].authority /\ entry'.identity >= history'[s].identity
                         /\ scans'[s].done => entry'.scan >= s
  BY DEF ScanInv
<1>1. Facts
  BY FactsHold
<1>2. Unprepared(s)' => Unprepared(s)
  BY <1>1 DEF Unprepared, Unpublished, Facts
<1>3. s \in 1..Len(scans) =>
        /\ scans[s].knowledge = Done => signals >= history[s].authority
        /\ scans[s].search = Done /\ Unprepared(s) =>
             /\ entry.authority >= history[s].authority /\ entry.identity >= history[s].identity
             /\ scans[s].done => entry.scan >= s
  BY DEF Inv, ScanInv
<1> QED
  BY <1>2, <1>3 DEF Unpublished

(* It keeps what an open transaction relies on, unless it makes it fail. *)
LEMMA TxKept ==
    ASSUME Inv, Unpublished, NEW v \in Workers, InTx(v),
           local[v].pc = "tx" /\ ~touched' =>
               /\ ~touched
               /\ history'[local[v].scan].authority = history[local[v].scan].authority
               /\ history'[local[v].scan].identity = history[local[v].scan].identity
               /\ scans[local[v].scan].knowledge = Done => scans'[local[v].scan].knowledge = Done
    PROVE  TxAt(local[v], scans', history', touched')
<1>1. TxAt(local[v], scans, history, touched)
  BY DEF Inv, TxInv
<1> DEFINE l == local[v]
<1>2. ASSUME NEW s \in 1..Len(scans')
      PROVE  /\ scans'[s].knowledge = Done => l.seen.authority >= history'[s].authority
             /\ scans'[s].search = Done => l.seen.identity >= history'[s].identity
             /\ s > l.scan /\ scans'[s].done => scans'[s].search # Done
  BY <1>1 DEF TxAt, Unpublished
<1>3. l.pc = "tx" /\ ~touched' =>
         /\ l.seen.authority >= history'[l.scan].authority /\ l.seen.identity >= history'[l.scan].identity
         /\ l.stage = "search" => scans'[l.scan].knowledge = Done
  BY <1>1 DEF TxAt
<1> QED
  BY <1>2, <1>3 DEF TxAt

(* A transaction that begins has read all there is. *)
LEMMA BegunTx ==
    ASSUME Inv, NEW w \in Workers, NEW m, MovesTo(w, m), m.pc \in {"tx", "indexTx"}
    PROVE  TxAt(m, scans', history', touched')
<1>1. Facts
  BY FactsHold
<1>2. /\ UNCHANGED <<scans, history>> /\ m.scan \in 1..Len(scans)
      /\ \A t \in 1..Len(scans) : t > m.scan => ~scans[t].done
      /\ m.seen.authority = human.authority /\ m.seen.identity = human.identity
      /\ m.pc = "tx" /\ m.stage = "search" => scans[m.scan].knowledge = Done
  BY DEF MovesTo, Begins
<1>3. \A t \in 1..Len(scans) : human.authority >= history[t].authority /\ human.identity >= history[t].identity
  BY <1>1 DEF Facts, Histories
<1> QED
  BY <1>2, <1>3 DEF TxAt

(* A step of a worker that publishes nothing keeps the invariant. *)
LEMMA QuietKeeps == ASSUME Inv, NEW w \in Workers, Quiet(w) PROVE Inv'
<1>1. Facts
  BY FactsHold
<1>2. PICK m : MovesTo(w, m)
  BY DEF Quiet
<1>3. /\ UNCHANGED <<root, human, history, signals, entry>> /\ scans' \in Seq(Scans) /\ Len(scans') = Len(scans)
      /\ \A t \in 1..Len(scans) :
           /\ scans'[t].gen = scans[t].gen /\ scans'[t].done = scans[t].done
           /\ scans'[t].knowledge = Done <=> scans[t].knowledge = Done
           /\ scans'[t].search = Done <=> scans[t].search = Done
  BY DEF Quiet, SameDone
<1>4. LocalInv' /\ \A v \in Workers : local'[v] = IF v = w THEN m ELSE local[v]
  BY <1>1, <1>2, <1>3, LocalKept
<1>5. GenInv'
  <2>1. root.gen \in Nat
    BY DEF Inv, TypeOK
  <2> QED
    BY <1>3, <2>1, GenKept
<1>6. LockInv'
  <2>1. entry'.scan <= Len(scans)
    BY <1>3 DEF Inv, LockInv
  <2> QED
    BY <1>2, <1>3, <2>1, LockKept
<1>7. Unpublished
  <2>1. \A t \in 1..Len(scans) : scans[t].search = Done => scans[t].knowledge = Done
    BY DEF Inv, ScanInv
  <2>2. \A t \in 1..MaxScans : backfill'[t].status = "NONE" => backfill[t].status = "NONE"
    BY DEF Quiet
  <2> QED
    BY <1>1, <1>3, <2>1, <2>2 DEF Unpublished, Facts
<1>8. ScanInv'
  BY <1>7, ScanKept
<1>9. TxInv'
  <2> SUFFICES ASSUME NEW v \in Workers, InTx(v)' PROVE TxAt(local'[v], scans', history', touched')
    BY DEF TxInv
  <2>1. CASE v = w
    BY <1>2, <1>4, <2>1, BegunTx DEF InTx
  <2>2. CASE v # w
    <3>1. local'[v] = local[v] /\ InTx(v) /\ (local[v].pc = "tx" /\ ~touched' => ~touched)
      BY <1>4, <2>2 DEF InTx, Quiet
    <3>2. local[v].scan \in 1..Len(scans)
      BY <1>1, <3>1 DEF Facts, LocalOK, LocalAt, InTx
    <3> QED
      BY <1>3, <1>7, <3>1, <3>2, TxKept
  <2> QED
    BY <2>1, <2>2
<1>10. TypeOK'
  <2>1. \A v \in Workers : local'[v].pc \in Pcs /\ local'[v].scan \in 0..Len(scans')
    BY <1>1, <1>2, <1>3, LocalKept
  <2>2. scans' \in Seq([gen : Nat, done : BOOLEAN, knowledge : StatusType, search : StatusType])
        /\ Len(scans') <= MaxScans
    BY <1>1, <1>3 DEF Scans, Facts
  <2>3. backfill' \in [1..MaxScans -> [status : {"NONE", "PROCESSING", "INDEXED", "FAILED"},
                                       owner : Workers \cup {"nobody"}, late : BOOLEAN]]
        /\ touched' \in BOOLEAN /\ counts' \in 0..MaxEvents
    BY DEF Quiet, Rows
  <2>4. root' = root /\ human' = human /\ history' = history /\ signals' = signals /\ entry' = entry
    BY <1>3
  <2> HIDE DEF Quiet
  <2> QED
    BY <2>1, <2>2, <2>3, <2>4 DEF Inv, TypeOK
<1> QED
  BY <1>4, <1>5, <1>6, <1>8, <1>9, <1>10 DEF Inv

(* The steps that publish: their worker leaves its transaction, and the lock
   says that there is no other. *)
LEMMA NoOtherTx ==
    ASSUME Inv, NEW w \in Workers, NEW m, MovesTo(w, m), m.pc \notin {"tx", "indexTx"}, InTx(w) \/ Unlocked
    PROVE  TxInv'
<1>1. \A v \in Workers : local'[v] = IF v = w THEN m ELSE local[v]
  BY FactsHold DEF Facts, MovesTo
<1>2. \A v \in Workers : local'[v].pc \notin {"tx", "indexTx"}
  BY <1>1 DEF Inv, LockInv, InTx, Unlocked
<1> QED
  BY <1>2 DEF TxInv, InTx

(* What they write is typed. *)
LEMMA TypeKept ==
    ASSUME Inv, \A v \in Workers : local'[v].pc \in Pcs /\ local'[v].scan \in 0..Len(scans'),
           scans' \in Seq(Scans), Len(scans') = Len(scans), UNCHANGED <<root, human, backfill>>,
           history' \in Histories(human.authority, human.identity), signals' \in -1..human.authority,
           entry' \in [scan : 0..MaxScans, authority : 0..human.authority, identity : 0..human.identity],
           touched' \in BOOLEAN, counts' \in 0..MaxEvents
    PROVE  TypeOK'
<1>1. scans' \in Seq([gen : Nat, done : BOOLEAN, knowledge : StatusType, search : StatusType])
      /\ Len(scans') <= MaxScans
  BY DEF Scans, Inv, TypeOK
<1>2. root' \in [readable : BOOLEAN, gen : Nat, busy : BOOLEAN]
      /\ human' \in [authority : Nat, identity : Nat, corrected : BOOLEAN]
  BY DEF Inv, TypeOK
<1>3. backfill' \in [1..MaxScans -> [status : {"NONE", "PROCESSING", "INDEXED", "FAILED"},
                                     owner : Workers \cup {"nobody"}, late : BOOLEAN]]
  BY DEF Inv, TypeOK
<1>4. history' \in [1..MaxScans -> [authority : 0..human'.authority, identity : 0..human'.identity, indexed : BOOLEAN]]
  BY DEF Histories
<1> QED
  BY <1>1, <1>2, <1>3, <1>4 DEF TypeOK

(* Newer decisions leave the history typed. *)
LEMMA HistoryWider ==
    ASSUME Facts, NEW a \in Nat, NEW i \in Nat, a >= human.authority, i >= human.identity
    PROVE  history \in Histories(a, i)
<1>1. \A t \in 1..MaxScans :
         history[t] \in [authority : 0..human.authority, identity : 0..human.identity, indexed : BOOLEAN]
  BY DEF Facts, Histories
<1>2. 0..human.authority \subseteq 0..a /\ 0..human.identity \subseteq 0..i
  BY DEF Facts
<1>3. \A t \in 1..MaxScans : history[t] \in [authority : 0..a, identity : 0..i, indexed : BOOLEAN]
  BY <1>1, <1>2
<1>4. history = [t \in 1..MaxScans |-> history[t]]
  BY DEF Facts, Histories
<1> QED
  BY <1>3, <1>4 DEF Histories

(* Writing the history of one scan. *)
Recorded(p, n, a, i, x, y) ==
    /\ p \in Histories(a, i) /\ p[n].authority = x /\ p[n].identity = y
    /\ \A t \in 1..MaxScans : t # n => p[t] = history[t]

(* A decision, a review, and that the file was indexed or is to be again. *)
LEMMA RecordedFacts ==
    ASSUME NEW a \in Nat, NEW i \in Nat, history \in Histories(a, i), NEW n \in 1..MaxScans, NEW b \in BOOLEAN
    PROVE  /\ Recorded([history EXCEPT ![n].authority = a], n, a, i, a, history[n].identity)
           /\ Recorded([history EXCEPT ![n].identity = i], n, a, i, history[n].authority, i)
           /\ Recorded([history EXCEPT ![n].indexed = b], n, a, i, history[n].authority, history[n].identity)
<1> DEFINE R == [authority : 0..a, identity : 0..i, indexed : BOOLEAN]
           x == [history[n] EXCEPT !.authority = a]
           y == [history[n] EXCEPT !.identity = i]
           z == [history[n] EXCEPT !.indexed = b]
<1>1. history[n] \in R /\ history \in [1..MaxScans -> R] /\ a \in 0..a /\ i \in 0..i
  BY DEF Histories
<1>2. /\ x \in R /\ x.authority = a /\ x.identity = history[n].identity
      /\ y \in R /\ y.authority = history[n].authority /\ y.identity = i
      /\ z \in R /\ z.authority = history[n].authority /\ z.identity = history[n].identity
  BY <1>1
<1>3. ASSUME NEW e \in R PROVE Recorded([history EXCEPT ![n] = e], n, a, i, e.authority, e.identity)
  BY <1>1, <1>3 DEF Recorded, Histories
<1>4. /\ [history EXCEPT ![n].authority = a] = [history EXCEPT ![n] = x]
      /\ [history EXCEPT ![n].identity = i] = [history EXCEPT ![n] = y]
      /\ [history EXCEPT ![n].indexed = b] = [history EXCEPT ![n] = z]
  OBVIOUS
<1> HIDE DEF x, y, z, R
<1> QED
  BY <1>2, <1>3, <1>4

(* The versions a history keeps when only its file is marked. *)
LEMMA Marked ==
    ASSUME Facts, NEW n \in 1..MaxScans, NEW b \in BOOLEAN, history' = [history EXCEPT ![n].indexed = b]
    PROVE  /\ history' \in Histories(human.authority, human.identity)
           /\ \A t \in 1..MaxScans : /\ history'[t].authority = history[t].authority
                                     /\ history'[t].identity = history[t].identity
                                     /\ t # n => history'[t] = history[t]
<1>1. human.authority \in Nat /\ human.identity \in Nat /\ history \in Histories(human.authority, human.identity)
  BY DEF Facts
<1>2. Recorded([history EXCEPT ![n].indexed = b], n, human.authority, human.identity,
               history[n].authority, history[n].identity)
  BY <1>1, RecordedFacts
<1>3. Recorded(history', n, human.authority, human.identity, history[n].authority, history[n].identity)
  BY ONLY <1>2, history' = [history EXCEPT ![n].indexed = b]
<1> QED
  BY <1>3 DEF Recorded

(* The scan and the versions of a worker that is busy. *)
LEMMA BusyFacts ==
    ASSUME Inv, NEW w \in Workers, local[w].pc # "idle"
    PROVE  /\ local[w].seen.authority \in 0..human.authority /\ local[w].seen.identity \in 0..human.identity
           /\ local[w].scan \in 1..Len(scans) /\ local[w].scan \in 1..MaxScans
<1>1. Facts /\ local[w] \in Locals /\ LocalOK(local[w])
  BY FactsHold DEF Facts
<1> QED
  BY <1>1 DEF Facts, Locals, Seen, LocalOK, LocalAt

(* The commit of a stage keeps the invariant. *)
LEMMA CommitStageKeeps == ASSUME Inv, NEW w \in Workers, CommitStage(w) PROVE Inv'
<1> DEFINE s == local[w].scan
           l == local[w]
<1>1. /\ Facts /\ l.pc = "tx" /\ ~touched /\ AfterStage(w) /\ InTx(w)
      /\ UNCHANGED <<root, human, backfill, touched, counts>>
  BY FactsHold DEF CommitStage, InTx
<1>2. PICK m : MovesTo(w, m) /\ m.pc \in {"idle", "mark", "stage"}
  BY <1>1, AfterStageMoves
<1>3. l.seen.authority \in 0..human.authority /\ l.seen.identity \in 0..human.identity
      /\ s \in 1..Len(scans) /\ s \in 1..MaxScans
  BY <1>1, BusyFacts
<1>4. l.stage \in {"knowledge", "search"} /\ Done \in StatusType
  BY <1>1, StatusFacts DEF Facts, Locals
<1>5. TxInv'
  BY <1>1, <1>2, NoOtherTx
<1>6. /\ signals \in -1..human.authority /\ history \in Histories(human.authority, human.identity) /\ root.gen \in Nat
      /\ entry \in [scan : 0..MaxScans, authority : 0..human.authority, identity : 0..human.identity]
      /\ entry.scan <= Len(scans)
  BY DEF Inv, TypeOK, Histories, LockInv
<1>7. TxAt(l, scans, history, touched)
  BY <1>1 DEF Inv, TxInv
<1>8. ASSUME scans' \in Seq(Scans), Len(scans') = Len(scans), \A t \in 1..Len(scans) : scans'[t].gen = scans[t].gen,
             history' \in Histories(human.authority, human.identity), signals' \in -1..human.authority,
             entry' \in [scan : 0..MaxScans, authority : 0..human.authority, identity : 0..human.identity],
             entry'.scan <= Len(scans), ScanInv'
      PROVE  Inv'
  <2>1. LocalInv' /\ \A v \in Workers : local'[v].pc \in Pcs /\ local'[v].scan \in 0..Len(scans')
    BY <1>1, <1>2, <1>8, LocalKept
  <2>2. TypeOK'
    BY <1>1, <1>8, <2>1, TypeKept DEF Facts
  <2>3. GenInv' /\ LockInv'
    BY <1>1, <1>2, <1>6, <1>8, GenKept, LockKept
  <2> QED
    BY <1>5, <1>8, <2>1, <2>2, <2>3 DEF Inv
<1>9. CASE l.stage = "knowledge"
  <2>1. /\ scans' = [scans EXCEPT ![s].knowledge = Done] /\ signals' = l.seen.authority
        /\ entry' = entry /\ history' = history
    BY <1>9 DEF CommitStage, SetStage
  <2>2. Written(scans', s, scans[s].done, Done, scans[s].search)
    BY <1>1, <1>3, <1>4, <2>1, WrittenFacts DEF Facts, Scans
  <2>3. /\ scans' \in Seq(Scans) /\ Len(scans') = Len(scans)
        /\ \A t \in 1..Len(scans) :
             /\ scans'[t].gen = scans[t].gen /\ scans'[t].done = scans[t].done /\ scans'[t].search = scans[t].search
             /\ t # s => scans'[t].knowledge = scans[t].knowledge
        /\ scans'[s].knowledge = Done
    BY <2>2 DEF Written
  <2>4. ScanInv'
    <3> SUFFICES ASSUME NEW t \in 1..Len(scans)
                 PROVE  /\ scans'[t].search = Done => scans'[t].knowledge = Done
                        /\ scans'[t].knowledge = Done => signals' >= history'[t].authority
                        /\ scans'[t].search = Done /\ Unprepared(t)' =>
                             /\ entry'.authority >= history'[t].authority /\ entry'.identity >= history'[t].identity
                             /\ scans'[t].done => entry'.scan >= t
      BY <2>3 DEF ScanInv
    <3>1. Unprepared(t)' <=> Unprepared(t)
      BY <1>1 DEF Unprepared
    <3>2. scans'[t].knowledge = Done => signals' >= history'[t].authority
      BY <1>1, <1>7, <2>1, <2>3 DEF TxAt
    <3> QED
      BY <2>1, <2>3, <3>1, <3>2 DEF Inv, ScanInv
  <2>5. signals' \in -1..human.authority
    BY <1>1, <1>3, <2>1 DEF Facts
  <2> QED
    BY <1>6, <1>8, <2>1, <2>3, <2>4, <2>5
<1>10. CASE l.stage = "search"
  <2>1. /\ scans' = [scans EXCEPT ![s].search = Done] /\ signals' = signals
        /\ entry' = [scan |-> s, authority |-> l.seen.authority, identity |-> l.seen.identity]
        /\ history' = [history EXCEPT ![s].indexed = TRUE]
    BY <1>10 DEF CommitStage, SetStage
  <2>2. Written(scans', s, scans[s].done, scans[s].knowledge, Done)
    BY <1>1, <1>3, <1>4, <2>1, WrittenFacts DEF Facts, Scans
  <2>3. /\ scans' \in Seq(Scans) /\ Len(scans') = Len(scans)
        /\ \A t \in 1..Len(scans) :
             /\ scans'[t].gen = scans[t].gen /\ scans'[t].done = scans[t].done
             /\ scans'[t].knowledge = scans[t].knowledge
             /\ t # s => scans'[t].search = scans[t].search
    BY <2>2 DEF Written
  <2>4. history' \in Histories(human.authority, human.identity) /\ \A t \in 1..MaxScans : /\ history'[t].authority = history[t].authority
                                                                /\ history'[t].identity = history[t].identity
    BY <1>1, <1>3, <2>1, TRUE \in BOOLEAN, Marked
  <2>5. ScanInv'
    <3> SUFFICES ASSUME NEW t \in 1..Len(scans)
                 PROVE  /\ scans'[t].search = Done => scans'[t].knowledge = Done
                        /\ scans'[t].knowledge = Done => signals' >= history'[t].authority
                        /\ scans'[t].search = Done /\ Unprepared(t)' =>
                             /\ entry'.authority >= history'[t].authority /\ entry'.identity >= history'[t].identity
                             /\ scans'[t].done => entry'.scan >= t
      BY <2>3 DEF ScanInv
    <3>1. t \in 1..MaxScans
      BY <1>1 DEF Facts
    <3>2. scans'[t].search = Done => scans'[t].knowledge = Done
      BY <1>1, <1>7, <1>10, <2>3 DEF TxAt, Inv, ScanInv
    <3>3. scans'[t].knowledge = Done => signals' >= history'[t].authority
      BY <2>1, <2>3, <2>4, <3>1 DEF Inv, ScanInv
    <3>4. scans'[t].search = Done => l.seen.authority >= history[t].authority /\ l.seen.identity >= history[t].identity
      <4>1. CASE t = s
        BY <1>1, <1>7, <4>1 DEF TxAt
      <4>2. CASE t # s
        BY <1>7, <2>3, <3>2, <4>2 DEF TxAt
      <4> QED
        BY <4>1, <4>2
    <3>5. scans'[t].search = Done /\ scans'[t].done => s >= t
      BY <1>3, <1>7, <2>3 DEF TxAt
    <3> QED
      BY <2>1, <2>4, <3>1, <3>2, <3>3, <3>4, <3>5
  <2>6. /\ entry' \in [scan : 0..MaxScans, authority : 0..human.authority, identity : 0..human.identity]
        /\ entry'.scan <= Len(scans) /\ signals' \in -1..human.authority
    BY <1>3, <1>6, <2>1
  <2> QED
    BY <1>8, <2>3, <2>4, <2>5, <2>6
<1> QED
  BY <1>4, <1>9, <1>10

(* The commit of an index entry keeps the invariant. *)
LEMMA CommitIndexKeeps == ASSUME Inv, NEW w \in Workers, CommitIndex(w) PROVE Inv'
<1> DEFINE s == local[w].scan
           l == local[w]
<1>1. /\ Facts /\ l.pc = "indexTx" /\ AfterIndex(w, "INDEXED") /\ InTx(w) /\ entry' = Projected(w)
      /\ UNCHANGED <<root, scans, human, signals, backfill, counts, touched>>
      /\ history' = history \/ history' = [history EXCEPT ![s].indexed = TRUE]
  BY FactsHold DEF CommitIndex, InTx
<1>2. PICK m : MovesTo(w, m) /\ m.pc \notin {"tx", "indexTx"}
  <2>1. PICK m : MovesTo(w, m)
    BY <1>1, AfterIndexMoves
  <2>2. local'[w].pc \in {"save", "idle"} /\ local'[w] = m
    <3>1. local[w] \in Locals /\ local \in [Workers -> Locals]
      BY <1>1 DEF Facts
    <3> QED
      BY <1>1, <2>1, <3>1 DEF AfterIndex, Finish, Idle, MovesTo, Locals
  <2> QED
    BY <2>1, <2>2
<1>3. l.seen.authority \in 0..human.authority /\ l.seen.identity \in 0..human.identity
      /\ s \in 1..Len(scans) /\ s \in 1..MaxScans
  BY <1>1, BusyFacts
<1>4. /\ signals \in -1..human.authority /\ history \in Histories(human.authority, human.identity)
      /\ entry \in [scan : 0..MaxScans, authority : 0..human.authority, identity : 0..human.identity]
      /\ entry.scan <= Len(scans)
  BY DEF Inv, TypeOK, Histories, LockInv
<1>5. \/ entry' = [scan |-> s, authority |-> l.seen.authority, identity |-> l.seen.identity]
      \/ entry' = [entry EXCEPT !.identity = l.seen.identity]
  BY <1>1 DEF Projected
<1>6. /\ entry' \in [scan : 0..MaxScans, authority : 0..human.authority, identity : 0..human.identity]
      /\ entry'.scan <= Len(scans) /\ entry'.identity = l.seen.identity
      /\ \/ entry'.scan = s /\ entry'.authority = l.seen.authority
         \/ entry'.scan = entry.scan /\ entry'.authority = entry.authority
  BY <1>3, <1>4, <1>5
<1>7. history' \in Histories(human.authority, human.identity) /\ \A t \in 1..MaxScans : /\ history'[t].authority = history[t].authority
                                                              /\ history'[t].identity = history[t].identity
  <2>1. CASE history' = history
    BY <1>4, <2>1
  <2>2. CASE history' = [history EXCEPT ![s].indexed = TRUE]
    <3> HIDE DEF s
    <3> QED
      BY <1>1, <1>3, <2>2, TRUE \in BOOLEAN, Marked
  <2> QED
    BY <1>1, <2>1, <2>2
<1>8. TxInv'
  BY <1>1, <1>2, NoOtherTx
<1>9. LocalInv' /\ \A v \in Workers : local'[v].pc \in Pcs /\ local'[v].scan \in 0..Len(scans')
  BY <1>1, <1>2, LocalKept
<1>10. TypeOK'
  BY <1>1, <1>4, <1>6, <1>7, <1>9, TypeKept DEF Facts
<1>11. GenInv' /\ LockInv'
  <2>1. GenInv'
    BY <1>1 DEF Inv, GenInv
  <2> QED
    BY <1>1, <1>2, <1>6, <2>1, LockKept
<1>12. ScanInv'
  <2> SUFFICES ASSUME NEW t \in 1..Len(scans)
               PROVE  /\ scans[t].search = Done => scans[t].knowledge = Done
                      /\ scans[t].knowledge = Done => signals >= history'[t].authority
                      /\ scans[t].search = Done /\ Unprepared(t)' =>
                           /\ entry'.authority >= history'[t].authority /\ entry'.identity >= history'[t].identity
                           /\ scans[t].done => entry'.scan >= t
    BY <1>1 DEF ScanInv
  <2>1. t \in 1..MaxScans /\ (Unprepared(t)' <=> Unprepared(t))
    BY <1>1 DEF Facts, Unprepared
  <2>2. /\ scans[t].search = Done => scans[t].knowledge = Done
        /\ scans[t].knowledge = Done => signals >= history[t].authority
        /\ scans[t].search = Done /\ Unprepared(t) =>
             /\ entry.authority >= history[t].authority
             /\ scans[t].done => entry.scan >= t
    BY DEF Inv, ScanInv
  <2>3. TxAt(l, scans, history, touched)
    BY <1>1 DEF Inv, TxInv
  <2>4. scans[t].search = Done =>
          /\ l.seen.authority >= history[t].authority /\ l.seen.identity >= history[t].identity
          /\ scans[t].done => s >= t
    BY <1>3, <2>2, <2>3 DEF TxAt
  <2> QED
    BY <1>6, <1>7, <2>1, <2>2, <2>4
<1> QED
  BY <1>8, <1>9, <1>10, <1>11, <1>12 DEF Inv

(* Search is settled by the rows of a scan that is done with no newer one that is,
   under the lock. *)
LEMMA SettleBackfillKeeps == ASSUME Inv, NEW w \in Workers, SettleBackfill(w) PROVE Inv'
<1> DEFINE s == local[w].scan
<1>1. /\ Facts /\ local[w].pc = "settle" /\ Finish(w)
      /\ UNCHANGED <<root, human, history, signals, backfill, counts, touched>>
  BY FactsHold DEF SettleBackfill
<1>2. s \in 1..Len(scans) /\ s \in 1..MaxScans /\ MovesTo(w, Idle)
  BY <1>1, BusyFacts, FinishMoves
<1>3. ASSUME SameDone, entry' = entry PROVE Inv'
  <2>1. Quiet(w)
    BY <1>1, <1>2, <1>3 DEF Quiet, Facts
  <2> QED
    BY <2>1, QuietKeeps
<1>4. CASE UNCHANGED <<scans, entry>>
  BY <1>1, <1>3, <1>4, NothingWritten
<1>5. CASE scans[s].search # Done /\ scans' = [scans EXCEPT ![s].search = Status("INCOMPLETE")] /\ entry' = entry
  <2>1. Status("INCOMPLETE") \in StatusType /\ Status("INCOMPLETE") # Done
    BY StatusFacts DEF Words
  <2>2. Written(scans', s, scans[s].done, scans[s].knowledge, Status("INCOMPLETE"))
    BY <1>1, <1>2, <1>5, <2>1, WrittenFacts DEF Facts, Scans
  <2> QED
    BY <1>1, <1>2, <1>3, <1>5, <2>1, <2>2, OpenWritten
<1>6. CASE /\ Settleable(s) /\ backfill[s].status = "INDEXED"
           /\ scans' = [scans EXCEPT ![s].search = Done] \/ (scans' = scans /\ scans[s].search = Done)
           /\ entry' = entry \/ entry' = [entry EXCEPT !.scan = 0]
  <2>1. Unlocked /\ scans[s].knowledge = Done /\ \A t \in 1..Len(scans) : t > s => ~scans[t].done
    BY <1>1, <1>6, CurrentIsNewest DEF Settleable, SearchReady
  <2>2. Done \in StatusType
    BY StatusFacts
  <2>3. /\ scans' \in Seq(Scans) /\ Len(scans') = Len(scans)
        /\ \A t \in 1..Len(scans) :
             /\ scans'[t].gen = scans[t].gen /\ scans'[t].done = scans[t].done
             /\ scans'[t].knowledge = scans[t].knowledge
             /\ t # s => scans'[t].search = scans[t].search
    <3>1. CASE scans' = [scans EXCEPT ![s].search = Done]
      <4>1. Written(scans', s, scans[s].done, scans[s].knowledge, Done)
        BY <1>1, <1>2, <2>2, <3>1, WrittenFacts DEF Facts, Scans
      <4> QED
        BY <4>1 DEF Written
    <3>2. CASE scans' = scans
      BY <1>1, <3>2 DEF Facts
    <3> QED
      BY <1>6, <3>1, <3>2
  <2>4. /\ signals \in -1..human.authority /\ history \in Histories(human.authority, human.identity) /\ root.gen \in Nat /\ MaxScans \in Nat
        /\ entry \in [scan : 0..MaxScans, authority : 0..human.authority, identity : 0..human.identity]
        /\ entry.scan <= Len(scans) /\ Len(scans) \in Nat
    BY <1>1 DEF Inv, TypeOK, Histories, LockInv, Facts
  <2>5. /\ entry' \in [scan : 0..MaxScans, authority : 0..human.authority, identity : 0..human.identity]
        /\ entry'.authority = entry.authority /\ entry'.identity = entry.identity /\ entry'.scan <= Len(scans)
    BY <1>6, <2>4
  <2>6. LocalInv' /\ \A v \in Workers : local'[v].pc \in Pcs /\ local'[v].scan \in 0..Len(scans')
    BY <1>1, <1>2, <2>3, LocalKept
  <2>7. TypeOK'
    BY <1>1, <2>3, <2>4, <2>5, <2>6, TypeKept DEF Facts
  <2>8. GenInv' /\ LockInv'
    BY <1>1, <1>2, <2>3, <2>4, <2>5, GenKept, LockKept
  <2>9. TxInv'
    BY <1>1, <1>2, <2>1, NoOtherTx, IdleOK
  <2>10. ScanInv'
    <3> SUFFICES ASSUME NEW t \in 1..Len(scans)
                 PROVE  /\ scans'[t].search = Done => scans'[t].knowledge = Done
                        /\ scans'[t].knowledge = Done => signals' >= history'[t].authority
                        /\ scans'[t].search = Done /\ Unprepared(t)' =>
                             /\ entry'.authority >= history'[t].authority /\ entry'.identity >= history'[t].identity
                             /\ scans'[t].done => entry'.scan >= t
      BY <2>3 DEF ScanInv
    <3>1. Unprepared(t)' => Unprepared(t) /\ t > s
      BY <1>1, <1>2, <1>6 DEF Unprepared, Facts
    <3>2. scans'[t].search = Done => scans'[t].knowledge = Done
      BY <2>1, <2>3 DEF Inv, ScanInv
    <3>3. scans'[t].knowledge = Done => signals' >= history'[t].authority
      BY <1>1, <2>3 DEF Inv, ScanInv
    <3>4. scans'[t].search = Done /\ Unprepared(t)' =>
            /\ entry'.authority >= history'[t].authority /\ entry'.identity >= history'[t].identity
      BY <1>1, <1>2, <2>3, <2>5, <3>1 DEF Inv, ScanInv
    <3>5. Unprepared(t)' => ~scans'[t].done
      BY <2>1, <2>3, <3>1
    <3> QED
      BY <3>2, <3>3, <3>4, <3>5
  <2> QED
    BY <2>6, <2>7, <2>8, <2>9, <2>10 DEF Inv
<1>7. \/ UNCHANGED <<scans, entry>>
      \/ scans[s].search # Done /\ scans' = [scans EXCEPT ![s].search = Status("INCOMPLETE")] /\ entry' = entry
      \/ /\ Settleable(s) /\ backfill[s].status = "INDEXED"
         /\ scans' = [scans EXCEPT ![s].search = Done] \/ (scans' = scans /\ scans[s].search = Done)
         /\ entry' = entry \/ entry' = [entry EXCEPT !.scan = 0]
  BY DEF SettleBackfill
<1> QED
  BY <1>4, <1>5, <1>6, <1>7

-----------------------------------------------------------------------------
(* People, scans and the root. *)

(* Workers are left alone while decisions and scans are added. *)
LEMMA LocalStays ==
    ASSUME Inv, UNCHANGED local, Len(scans') \in Nat, Len(scans') >= Len(scans),
           human'.authority \in Nat, human'.authority >= human.authority,
           human'.identity \in Nat, human'.identity >= human.identity
    PROVE  LocalInv' /\ \A v \in Workers : local'[v].pc \in Pcs /\ local'[v].scan \in 0..Len(scans')
<1>1. Facts
  BY FactsHold
<1>2. ASSUME NEW v \in Workers PROVE LocalAt(local[v], Len(scans'), human')
  <2>1. LocalAt(local[v], Len(scans), human) /\ local[v] \in Locals
    BY <1>1 DEF Facts, LocalOK
  <2>2. local[v].seen.authority \in Nat /\ local[v].seen.identity \in Nat /\ local[v].scan \in Nat
    BY <2>1 DEF Locals, Seen, LocalAt
  <2> QED
    BY <1>1, <2>1, <2>2, SMTT(20) DEF LocalAt, Facts
<1>3. \A v \in Workers : local[v].pc \in Pcs /\ local[v].scan \in 0..Len(scans')
  BY <1>1, <1>2 DEF Facts, Locals, LocalAt
<1> QED
  BY <1>1, <1>2, <1>3 DEF LocalInv, LocalOK, Facts

(* What decisions and reviews leave of the types. *)
Peopled ==
    /\ human' \in [authority : Nat, identity : Nat, corrected : BOOLEAN]
    /\ human'.authority >= human.authority /\ human'.identity >= human.identity
    /\ history' \in Histories(human'.authority, human'.identity) /\ signals' \in -1..human'.authority
    /\ touched' \in BOOLEAN /\ counts' \in 0..MaxEvents

(* A step of nobody that publishes nothing keeps the invariant, when it makes the
   transactions fail whose scan it writes. *)
LEMMA StillKeeps ==
    ASSUME Inv, UNCHANGED local, Unpublished, GenInv', Peopled, Len(scans') <= MaxScans,
           root' \in [readable : BOOLEAN, gen : Nat, busy : BOOLEAN], backfill' \in [1..MaxScans -> Rows],
           \A v \in Workers : local[v].pc = "tx" /\ ~touched' =>
               /\ ~touched
               /\ history'[local[v].scan].authority = history[local[v].scan].authority
               /\ history'[local[v].scan].identity = history[local[v].scan].identity
               /\ scans[local[v].scan].knowledge = Done => scans'[local[v].scan].knowledge = Done
    PROVE  Inv'
<1>1. Facts /\ scans' \in Seq(Scans) /\ Len(scans') \in Nat /\ Len(scans') >= Len(scans) /\ entry' = entry
  BY FactsHold DEF Unpublished
<1>2. /\ human'.authority \in Nat /\ human'.authority >= human.authority
      /\ human'.identity \in Nat /\ human'.identity >= human.identity
  BY DEF Peopled
<1>3. LocalInv' /\ \A v \in Workers : local'[v].pc \in Pcs /\ local'[v].scan \in 0..Len(scans')
  BY <1>1, <1>2, LocalStays
<1>4. ScanInv'
  BY ScanKept
<1>5. TxInv'
  BY TxKept DEF TxInv, InTx
<1>6. LockInv'
  <2>1. entry.scan \in Nat /\ entry.scan <= Len(scans)
    BY PublicationAssumption DEF Inv, TypeOK, LockInv
  <2>2. entry'.scan <= Len(scans')
    BY <1>1, <2>1 DEF Facts
  <2> QED
    BY <2>2 DEF Inv, LockInv, InTx
<1>7. TypeOK'
  <2>1. scans' \in Seq([gen : Nat, done : BOOLEAN, knowledge : StatusType, search : StatusType])
    BY <1>1 DEF Scans
  <2>2. entry' \in [scan : 0..MaxScans, authority : 0..human'.authority, identity : 0..human'.identity]
    <3>1. /\ entry \in [scan : 0..MaxScans, authority : 0..human.authority, identity : 0..human.identity]
          /\ human.authority \in Nat /\ human.identity \in Nat
      BY DEF Inv, TypeOK
    <3> QED
      BY <1>1, <1>2, <3>1
  <2>3. backfill' \in [1..MaxScans -> [status : {"NONE", "PROCESSING", "INDEXED", "FAILED"},
                                       owner : Workers \cup {"nobody"}, late : BOOLEAN]]
    BY DEF Rows
  <2>4. history' \in [1..MaxScans -> [authority : 0..human'.authority, identity : 0..human'.identity, indexed : BOOLEAN]]
    BY DEF Peopled, Histories
  <2> QED
    BY <1>3, <2>1, <2>2, <2>3, <2>4 DEF TypeOK, Peopled
<1> QED
  BY <1>3, <1>4, <1>5, <1>6, <1>7 DEF Inv

(* One that writes the row of a scan and completes nothing in it. *)
LEMMA WrittenKeeps ==
    ASSUME Inv, UNCHANGED <<root, entry, backfill, local>>, Peopled,
           NEW n \in 1..Len(scans), NEW d, NEW k, NEW q, Written(scans', n, d, k, q),
           k = scans[n].knowledge \/ k # Done,
           q # Done \/ (q = scans[n].search /\ k = scans[n].knowledge /\ (d => scans[n].done)),
           \A t \in 1..MaxScans : t # n => history'[t] = history[t],
           k = Done => history'[n].authority = history[n].authority,
           q = Done => history'[n].identity = history[n].identity,
           signals' = signals \/ signals' = human'.authority,
           ~touched' => ~touched /\ ~Writing(n)
    PROVE  Inv'
<1>1. Facts
  BY FactsHold
<1>2. /\ scans' \in Seq(Scans) /\ Len(scans') = Len(scans) /\ Len(scans) <= MaxScans
      /\ \A t \in 1..Len(scans) : t # n => scans'[t] = scans[t]
      /\ scans'[n].gen = scans[n].gen /\ scans'[n].done = d /\ scans'[n].knowledge = k /\ scans'[n].search = q
  BY <1>1 DEF Written, Facts
<1>3. Unpublished
  <2>1. signals' = signals \/ \A t \in 1..Len(scans') : signals' >= history'[t].authority
    <3>1. \A t \in 1..MaxScans : history'[t].authority \in 0..human'.authority
      BY DEF Peopled, Histories
    <3> QED
      BY <1>1, <1>2, <3>1 DEF Facts, Peopled
  <2>2. \A t \in 1..Len(scans) : scans[t].search = Done => scans[t].knowledge = Done
    BY DEF Inv, ScanInv
  <2>3. \A t \in 1..Len(scans) : t # n => history'[t] = history[t]
    BY <1>1 DEF Facts
  <2> QED
    BY <1>1, <1>2, <2>1, <2>2, <2>3 DEF Unpublished, Facts
<1>4. GenInv'
  <2>1. root.gen \in Nat
    BY DEF Inv, TypeOK
  <2>2. \A t \in 1..Len(scans) : scans'[t].gen = scans[t].gen
    BY <1>2
  <2> QED
    BY <1>2, <2>1, <2>2, GenKept
<1>5. ASSUME NEW v \in Workers, local[v].pc = "tx", ~touched'
      PROVE  /\ ~touched
             /\ history'[local[v].scan] = history[local[v].scan] /\ scans'[local[v].scan] = scans[local[v].scan]
  <2>1. local[v].scan # n /\ local[v].scan \in 1..Len(scans) /\ local[v].scan \in 1..MaxScans
    BY <1>5, BusyFacts DEF Writing
  <2> QED
    BY <1>2, <1>5, <2>1
<1>6. root' \in [readable : BOOLEAN, gen : Nat, busy : BOOLEAN] /\ backfill' \in [1..MaxScans -> Rows]
  BY <1>1 DEF Inv, TypeOK, Facts
<1> QED
  BY <1>2, <1>3, <1>4, <1>5, <1>6, StillKeeps

(* One that writes no scan and no history. *)
LEMMA UnwrittenKeeps ==
    ASSUME Inv, UNCHANGED <<scans, history, entry, local>>, Peopled,
           root' \in [readable : BOOLEAN, gen : Nat, busy : BOOLEAN], root'.gen >= root.gen,
           backfill' \in [1..MaxScans -> Rows],
           \A t \in 1..MaxScans : backfill'[t].status = backfill[t].status,
           signals' = signals \/ signals' = human'.authority, ~touched' => ~touched
    PROVE  Inv'
<1>1. Facts
  BY FactsHold
<1>2. Unpublished
  <2>1. signals' = signals \/ \A t \in 1..Len(scans') : signals' >= history'[t].authority
    <3>1. \A t \in 1..MaxScans : history'[t].authority \in 0..human'.authority
      BY DEF Peopled, Histories
    <3> QED
      BY <1>1, <3>1 DEF Facts, Peopled
  <2>2. \A t \in 1..Len(scans) : scans[t].search = Done => scans[t].knowledge = Done
    BY DEF Inv, ScanInv
  <2> QED
    BY <1>1, <2>1, <2>2 DEF Unpublished, Facts
<1>3. GenInv'
  <2>1. root'.gen \in Nat
    OBVIOUS
  <2> QED
    BY <1>1, <2>1, GenKept DEF Facts
<1> QED
  BY <1>1, <1>2, <1>3, StillKeeps DEF Facts

(* A review decision keeps the invariant. *)
LEMMA SaveDecisionKeeps == ASSUME Inv, NEW kind \in {"ACCEPT", "MODIFY"}, SaveDecision(kind) PROVE Inv'
<1> DEFINE corrected == human.corrected \/ kind # "ACCEPT"
           h == [human EXCEPT !.authority = human.authority + 1, !.corrected = corrected]
<1>1. /\ Facts /\ human' = h /\ scans' = InvalidateDocument /\ UNCHANGED <<root, entry, backfill, local, counts>>
      /\ signals' = signals \/ signals' = human.authority + 1
      /\ history' = IF Invalidates THEN [history EXCEPT ![Latest].authority = human.authority + 1] ELSE history
  BY FactsHold DEF SaveDecision, ReconcileSignals
<1>2. /\ human \in [authority : Nat, identity : Nat, corrected : BOOLEAN]
      /\ signals \in -1..human.authority /\ root \in [readable : BOOLEAN, gen : Nat, busy : BOOLEAN]
  BY DEF Inv, TypeOK
<1>3. corrected \in BOOLEAN /\ human.authority + 1 \in Nat
  BY <1>2
<1> HIDE DEF corrected
<1>4. h \in [authority : Nat, identity : Nat, corrected : BOOLEAN]
      /\ h.authority = human.authority + 1 /\ h.identity = human.identity
  BY <1>2, <1>3
<1> HIDE DEF h
<1>5. /\ signals' \in -1..human'.authority /\ human'.authority >= human.authority /\ human'.identity >= human.identity
      /\ human'.authority \in Nat /\ human'.identity \in Nat
      /\ human' \in [authority : Nat, identity : Nat, corrected : BOOLEAN]
      /\ signals' = signals \/ signals' = human'.authority
  BY <1>1, <1>2, <1>4
<1>6. touched' \in BOOLEAN /\ (~touched' => ~touched /\ (Invalidates => ~Writing(Latest)))
  BY <1>1 DEF SaveDecision, Facts
<1>7. CASE Invalidates
  <2> DEFINE n == Latest
             k == Stamped("NOT_ATTEMPTED")
  <2>1. n \in 1..Len(scans) /\ n \in 1..MaxScans
    BY <1>1, <1>7, LatestIs DEF Inv, Invalidates, Facts
  <2>2. k \in StatusType /\ k # Done
    BY StatusFacts DEF Inv, Words
  <2>3. scans' = [scans EXCEPT ![n].knowledge = k, ![n].search = k]
        /\ history' = [history EXCEPT ![n].authority = human'.authority] /\ (~touched' => ~touched /\ ~Writing(n))
    BY <1>1, <1>4, <1>6, <1>7 DEF InvalidateDocument
  <2> HIDE DEF k, n
  <2>4. Written(scans', n, scans[n].done, k, k)
    <3>1. Written([scans EXCEPT ![n].knowledge = k, ![n].search = k], n, scans[n].done, k, k)
      BY ONLY <1>1, <2>1, <2>2, TRUE \in BOOLEAN, WrittenFacts DEF Facts
    <3> QED
      BY ONLY <2>3, <3>1
  <2>5. history' \in Histories(human'.authority, human'.identity) /\ \A t \in 1..MaxScans : t # n => history'[t] = history[t]
    <3>1. history \in Histories(human'.authority, human'.identity)
      BY <1>1, <1>5, HistoryWider
    <3>2. Recorded([history EXCEPT ![n].authority = human'.authority], n, human'.authority, human'.identity,
                   human'.authority, history[n].identity)
      BY <1>5, <2>1, <3>1, TRUE \in BOOLEAN, RecordedFacts
    <3>3. Recorded(history', n, human'.authority, human'.identity, human'.authority, history[n].identity)
      BY ONLY <2>3, <3>2
    <3> QED
      BY <3>3 DEF Recorded
  <2>6. Peopled
    BY <1>1, <1>5, <1>6, <2>5 DEF Peopled, Facts
  <2> QED
    BY <1>1, <1>5, <2>1, <2>2, <2>3, <2>4, <2>5, <2>6, WrittenKeeps
<1>8. CASE ~Invalidates
  <2>1. scans' = scans /\ history' = history
    BY <1>1, <1>8 DEF InvalidateDocument
  <2>2. history' \in Histories(human'.authority, human'.identity)
    BY <1>1, <1>5, <2>1, HistoryWider
  <2>3. Peopled
    BY <1>1, <1>5, <1>6, <2>2 DEF Peopled, Facts
  <2>4. root'.gen >= root.gen
    BY <1>1, <1>2
  <2> QED
    BY <1>1, <1>2, <1>5, <1>6, <2>1, <2>3, <2>4, UnwrittenKeeps DEF Facts
<1> QED
  BY <1>7, <1>8

(* An identity review keeps the invariant. *)
LEMMA ReviewIdentityKeeps == ASSUME Inv, ReviewIdentity PROVE Inv'
<1> DEFINE h == [human EXCEPT !.identity = human.identity + 1]
<1>1. /\ Facts /\ human' = h /\ scans' = InvalidateSearch
      /\ UNCHANGED <<root, signals, entry, backfill, local, counts>>
      /\ history' = IF Invalidates THEN [history EXCEPT ![Latest].identity = human.identity + 1] ELSE history
  BY FactsHold DEF ReviewIdentity
<1>2. /\ human \in [authority : Nat, identity : Nat, corrected : BOOLEAN]
      /\ signals \in -1..human.authority /\ root \in [readable : BOOLEAN, gen : Nat, busy : BOOLEAN]
  BY DEF Inv, TypeOK
<1>3. h \in [authority : Nat, identity : Nat, corrected : BOOLEAN]
      /\ h.authority = human.authority /\ h.identity = human.identity + 1
  BY <1>2
<1> HIDE DEF h
<1>4. /\ signals' \in -1..human'.authority /\ human'.authority >= human.authority /\ human'.identity >= human.identity
      /\ human'.authority \in Nat /\ human'.identity \in Nat
      /\ human' \in [authority : Nat, identity : Nat, corrected : BOOLEAN]
  BY <1>1, <1>2, <1>3
<1>5. touched' \in BOOLEAN /\ (~touched' => ~touched /\ (Invalidates => ~Writing(Latest)))
  BY <1>1 DEF ReviewIdentity, Facts
<1>6. CASE Invalidates
  <2> DEFINE n == Latest
             q == Stamped("NOT_ATTEMPTED")
  <2>1. n \in 1..Len(scans) /\ n \in 1..MaxScans
    BY <1>1, <1>6, LatestIs DEF Inv, Invalidates, Facts
  <2>2. q \in StatusType /\ q # Done
    BY StatusFacts DEF Inv, Words
  <2>3. scans' = [scans EXCEPT ![n].search = q]
        /\ history' = [history EXCEPT ![n].identity = human'.identity] /\ (~touched' => ~touched /\ ~Writing(n))
    BY <1>1, <1>3, <1>5, <1>6 DEF InvalidateSearch
  <2> HIDE DEF q, n
  <2>4. Written(scans', n, scans[n].done, scans[n].knowledge, q)
    <3>1. scans[n].knowledge \in StatusType
      BY <1>1, <2>1 DEF Facts, Scans
    <3>2. Written([scans EXCEPT ![n].search = q], n, scans[n].done, scans[n].knowledge, q)
      BY ONLY <1>1, <2>1, <2>2, <3>1, TRUE \in BOOLEAN, WrittenFacts DEF Facts
    <3> QED
      BY ONLY <2>3, <3>2
  <2>5. /\ history' \in Histories(human'.authority, human'.identity) /\ history'[n].authority = history[n].authority
        /\ \A t \in 1..MaxScans : t # n => history'[t] = history[t]
    <3>1. history \in Histories(human'.authority, human'.identity)
      BY <1>1, <1>4, HistoryWider
    <3>2. Recorded([history EXCEPT ![n].identity = human'.identity], n, human'.authority, human'.identity,
                   history[n].authority, human'.identity)
      BY <1>4, <2>1, <3>1, TRUE \in BOOLEAN, RecordedFacts
    <3>3. Recorded(history', n, human'.authority, human'.identity, history[n].authority, human'.identity)
      BY ONLY <2>3, <3>2
    <3> QED
      BY <3>3 DEF Recorded
  <2>6. Peopled
    BY <1>1, <1>4, <1>5, <2>5 DEF Peopled, Facts
  <2> QED
    BY <1>1, <1>4, <2>1, <2>2, <2>3, <2>4, <2>5, <2>6, WrittenKeeps
<1>7. CASE ~Invalidates
  <2>1. scans' = scans /\ history' = history
    BY <1>1, <1>7 DEF InvalidateSearch
  <2>2. history' \in Histories(human'.authority, human'.identity)
    BY <1>1, <1>4, <2>1, HistoryWider
  <2>3. Peopled
    BY <1>1, <1>4, <1>5, <2>2 DEF Peopled, Facts
  <2>4. root'.gen >= root.gen
    BY <1>1, <1>2
  <2> QED
    BY <1>1, <1>2, <1>5, <2>1, <2>3, <2>4, UnwrittenKeeps DEF Facts
<1> QED
  BY <1>6, <1>7

(* Nobody decides anything. *)
LEMMA SamePeople ==
    ASSUME Inv, UNCHANGED <<human, signals>>, history' \in Histories(human.authority, human.identity), touched' \in BOOLEAN,
           counts' \in 0..MaxEvents
    PROVE  Peopled
<1>1. /\ human \in [authority : Nat, identity : Nat, corrected : BOOLEAN] /\ signals \in -1..human.authority
      /\ human.authority \in Nat /\ human.identity \in Nat
  BY DEF Inv, TypeOK
<1> QED
  BY <1>1 DEF Peopled

(* A session that completes, for the first time or again, publishes nothing. *)
LEMMA CompleteScanKeeps == ASSUME Inv, NEW s \in 1..Len(scans), CompleteScan(s) PROVE Inv'
<1> DEFINE k == Stamped("NOT_ATTEMPTED")
           d == TRUE
<1>1. /\ Facts /\ UNCHANGED <<root, human, signals, entry, backfill, local, counts>>
      /\ scans' = [scans EXCEPT ![s].done = d, ![s].knowledge = k, ![s].search = k]
      /\ history' = [history EXCEPT ![s].indexed = FALSE] /\ touched' = (touched \/ Writing(s))
  BY FactsHold DEF CompleteScan, Touch
<1>2. k \in StatusType /\ k # Done /\ s \in 1..MaxScans /\ d \in BOOLEAN
  BY <1>1, StatusFacts DEF Inv, Words, Facts
<1> HIDE DEF k, d
<1>3. Written(scans', s, d, k, k)
  BY <1>1, <1>2, WrittenFacts DEF Facts
<1>4. /\ history' \in Histories(human.authority, human.identity)
      /\ \A t \in 1..MaxScans : t # s => history'[t] = history[t]
  BY <1>1, <1>2, FALSE \in BOOLEAN, Marked
<1>5. touched' \in BOOLEAN /\ (~touched' => ~touched /\ ~Writing(s))
  BY <1>1 DEF Facts
<1>6. Peopled
  BY <1>1, <1>4, <1>5, SamePeople DEF Facts
<1> QED
  BY <1>1, <1>2, <1>3, <1>4, <1>5, <1>6, WrittenKeeps

(* Nor does one that is opened again. *)
LEMMA ReopenScanKeeps == ASSUME Inv, NEW s \in 1..Len(scans), ReopenScan(s) PROVE Inv'
<1> DEFINE d == FALSE
<1>1. /\ Facts /\ UNCHANGED <<root, human, history, signals, entry, backfill, local>> /\ counts' \in 0..MaxEvents
      /\ scans' = [scans EXCEPT ![s].done = d] /\ touched' = (touched \/ Writing(s))
  BY FactsHold DEF ReopenScan, Touch, Event, Facts
<1>2. /\ scans[s].knowledge \in StatusType /\ scans[s].search \in StatusType /\ d \in BOOLEAN /\ ~d
      /\ history \in Histories(human.authority, human.identity)
  BY <1>1 DEF Facts, Scans
<1> HIDE DEF d
<1>3. Written(scans', s, d, scans[s].knowledge, scans[s].search)
  BY <1>1, <1>2, WrittenFacts DEF Facts
<1>4. touched' \in BOOLEAN /\ (~touched' => ~touched /\ ~Writing(s))
  BY <1>1 DEF Facts
<1>5. Peopled
  BY <1>1, <1>2, <1>4, SamePeople
<1> QED
  BY <1>1, <1>2, <1>3, <1>4, <1>5, WrittenKeeps

(* A scan that starts is not done, and nothing of it is published. *)
LEMMA StartScanKeeps == ASSUME Inv, StartScan PROVE Inv'
<1> DEFINE n == Len(scans)
           new == NewScan(root.gen, FALSE)
<1>1. /\ Facts /\ scans' = Append(scans, new) /\ n < MaxScans
      /\ UNCHANGED <<root, human, history, signals, entry, backfill, local, counts, touched>>
  BY FactsHold DEF StartScan
<1>2. Status("NOT_ATTEMPTED") \in StatusType /\ Status("NOT_ATTEMPTED") # Done
      /\ root \in [readable : BOOLEAN, gen : Nat, busy : BOOLEAN] /\ root.gen \in Nat
  BY StatusFacts DEF Words, Inv, TypeOK
<1>3. new \in Scans /\ new.knowledge # Done /\ new.search # Done /\ new.gen = root.gen
  BY <1>2 DEF Scans, NewScan
<1> HIDE DEF new
<1>4. /\ scans' \in Seq(Scans) /\ Len(scans') = n + 1 /\ scans'[n + 1] = new /\ n \in Nat /\ n + 1 <= MaxScans
      /\ \A t \in 1..n : scans'[t] = scans[t]
  BY <1>1, <1>3 DEF Facts
<1>5. \A t \in 1..(n + 1) : t \in 1..n \/ t = n + 1
  BY <1>4
<1>6. GenInv'
  <2>1. \A t \in 1..n : scans[t].gen \in Nat /\ scans[t].gen <= root.gen
    BY <1>1 DEF Facts, Scans, Inv, GenInv
  <2>2. \A s, t \in 1..n : s <= t => scans[s].gen <= scans[t].gen
    BY DEF Inv, GenInv
  <2>3. \A t \in 1..(n + 1) : scans'[t].gen <= root.gen
    BY <1>2, <1>3, <1>4, <2>1
  <2>4. ASSUME NEW s \in 1..(n + 1), NEW t \in 1..(n + 1), s <= t PROVE scans'[s].gen <= scans'[t].gen
    <3>1. CASE t = n + 1
      BY <1>2, <1>3, <1>4, <2>3, <3>1
    <3>2. CASE t # n + 1
      BY <1>4, <2>2, <2>4, <3>2
    <3> QED
      BY <3>1, <3>2
  <2> QED
    BY <1>1, <1>4, <2>3, <2>4 DEF GenInv
<1>7. Unpublished
  <2>1. \A t \in 1..n : scans[t].search = Done => scans[t].knowledge = Done
    BY DEF Inv, ScanInv
  <2> QED
    BY <1>1, <1>3, <1>4, <1>5, <2>1 DEF Unpublished
<1>8. \A v \in Workers : local[v].pc = "tx" => local[v].scan \in 1..n
  BY BusyFacts
<1>9. Peopled
  BY <1>1, SamePeople DEF Facts
<1> QED
  BY <1>1, <1>2, <1>4, <1>6, <1>7, <1>8, <1>9, StillKeeps DEF Facts

(* Physical runs and grants. *)
LEMMA RootKeeps ==
    ASSUME Inv, UNCHANGED <<scans, human, history, signals, entry, backfill, local, touched>>,
           counts' \in 0..MaxEvents,
           root' \in [readable : BOOLEAN, gen : Nat, busy : BOOLEAN], root'.gen >= root.gen
    PROVE  Inv'
<1>1. Facts
  BY FactsHold
<1>2. Peopled
  BY <1>1, SamePeople DEF Facts
<1> QED
  BY <1>1, <1>2, UnwrittenKeeps DEF Facts

(* The expiry of a stale claim keeps the invariant. *)
LEMMA ExpireClaimKeeps == ASSUME Inv, NEW s \in 1..MaxScans, ExpireClaim(s) PROVE Inv'
<1>1. /\ Facts /\ UNCHANGED <<root, scans, human, history, signals, entry, local, touched>>
      /\ counts' \in 0..MaxEvents /\ backfill' = [backfill EXCEPT ![s].late = TRUE]
  BY FactsHold DEF ExpireClaim, Event, Facts
<1> DEFINE row == [backfill[s] EXCEPT !.late = TRUE]
<1>2. row \in Rows /\ row.status = backfill[s].status
  BY <1>1 DEF Facts, Rows
<1>3. backfill' = [backfill EXCEPT ![s] = row]
  BY <1>1
<1> HIDE DEF row
<1>4. backfill' \in [1..MaxScans -> Rows] /\ \A t \in 1..MaxScans : backfill'[t].status = backfill[t].status
  BY <1>1, <1>2, <1>3 DEF Facts
<1>5. Peopled
  BY <1>1, SamePeople DEF Facts
<1>6. root \in [readable : BOOLEAN, gen : Nat, busy : BOOLEAN] /\ root'.gen >= root.gen
  BY <1>1 DEF Inv, TypeOK
<1> QED
  BY <1>1, <1>4, <1>5, <1>6, UnwrittenKeeps

(* The steps of a worker that publish nothing. *)
QuietAction(w) ==
    \/ \E task \in {"publish", "prepare"} : StartPublish(w, task)
    \/ BeginSearch(w) \/ AbortStage(w) \/ RecordFailure(w) \/ MarkPreparing(w) \/ ClaimFile(w) \/ SaveRow(w)
    \/ FailPrepare(w) \/ BeginIndex(w) \/ AbortIndex(w) \/ WorkerDies(w)
    \/ \E task \in {"refresh", "identity"} : StartRefresh(w, task)

(* The actions of a worker that write nothing others read. *)
LEMMA QuietActions == ASSUME Inv, NEW w \in Workers, QuietAction(w) PROVE Quiet(w)
  BY StartPublishQuiet, BeginSearchQuiet, AbortStageQuiet, RecordFailureQuiet, MarkPreparingQuiet,
     ClaimFileQuiet,
     SaveRowQuiet, FailPrepareQuiet, StartRefreshQuiet, BeginIndexQuiet, AbortIndexQuiet, WorkerDiesQuiet
     DEF QuietAction

(* Every step is one of these. *)
LEMMA StepCases ==
    ASSUME Next
    PROVE  \/ \E kind \in {"ACCEPT", "MODIFY"} : SaveDecision(kind)
           \/ ReviewIdentity
           \/ \E w \in Workers : QuietAction(w) \/ CommitStage(w) \/ CommitIndex(w) \/ SettleBackfill(w)
           \/ \E s \in 1..MaxScans : ExpireClaim(s)
           \/ StartScan \/ (\E s \in 1..Len(scans) : CompleteScan(s) \/ ReopenScan(s))
           \/ StartPhysicalRun \/ (\E changed \in BOOLEAN : SettlePhysicalRun(changed)) \/ ChangeGrant
  BY DEF Next, PublishStep, PrepareStep, IndexStep, QuietAction

(* Every step keeps the invariant. *)
LEMMA InvStep == ASSUME Inv, [Next]_vars PROVE Inv'
<1>1. /\ root \in [readable : BOOLEAN, gen : Nat, busy : BOOLEAN] /\ counts \in 0..MaxEvents /\ MaxEvents \in Nat
  BY PublicationAssumption DEF Inv, TypeOK
<1>2. ASSUME NEW w \in Workers, QuietAction(w) PROVE Inv'
  BY <1>2, QuietActions, QuietKeeps
<1>3. CASE StartPhysicalRun
  <2> DEFINE b == TRUE
  <2>1. root' = [root EXCEPT !.busy = b] /\ counts' \in 0..MaxEvents
        /\ UNCHANGED <<scans, human, history, signals, entry, backfill, local, touched>>
    BY <1>1, <1>3 DEF StartPhysicalRun, Event
  <2>2. b \in BOOLEAN
    OBVIOUS
  <2> HIDE DEF b
  <2>3. root' \in [readable : BOOLEAN, gen : Nat, busy : BOOLEAN] /\ root'.gen >= root.gen
    BY <1>1, <2>1, <2>2
  <2> QED
    BY <2>1, <2>3, RootKeeps
<1>4. ASSUME NEW changed \in BOOLEAN, SettlePhysicalRun(changed) PROVE Inv'
  <2> DEFINE g == IF changed THEN root.gen + 1 ELSE root.gen
  <2>1. root' = [root EXCEPT !.busy = FALSE, !.gen = g]
        /\ UNCHANGED <<scans, human, history, signals, entry, backfill, local, counts, touched>>
    BY <1>4 DEF SettlePhysicalRun
  <2>2. g \in Nat /\ g >= root.gen
    BY <1>1
  <2> HIDE DEF g
  <2>3. root' \in [readable : BOOLEAN, gen : Nat, busy : BOOLEAN] /\ root'.gen >= root.gen
    BY <1>1, <2>1, <2>2
  <2> QED
    BY <1>1, <2>1, <2>3, RootKeeps
<1>5. CASE ChangeGrant
  <2> DEFINE r == ~root.readable
  <2>1. root' = [root EXCEPT !.readable = r] /\ counts' \in 0..MaxEvents
        /\ UNCHANGED <<scans, human, history, signals, entry, backfill, local, touched>>
    BY <1>1, <1>5 DEF ChangeGrant, Event
  <2>2. r \in BOOLEAN
    OBVIOUS
  <2> HIDE DEF r
  <2>3. root' \in [readable : BOOLEAN, gen : Nat, busy : BOOLEAN] /\ root'.gen >= root.gen
    BY <1>1, <2>1, <2>2
  <2> QED
    BY <2>1, <2>3, RootKeeps
<1>6. CASE UNCHANGED vars
  <2>1. root'.gen >= root.gen
    BY <1>1, <1>6 DEF vars
  <2> QED
    BY <1>1, <1>6, <2>1, RootKeeps DEF vars
<1>7. CASE Next
  BY <1>2, <1>3, <1>4, <1>5, <1>7, StepCases, SaveDecisionKeeps, ReviewIdentityKeeps,
     CommitStageKeeps, CommitIndexKeeps, SettleBackfillKeeps, ExpireClaimKeeps, StartScanKeeps,
     CompleteScanKeeps, ReopenScanKeeps
<1> QED
  BY <1>6, <1>7

(* It holds before the first scan. *)
LEMMA InvInit == Init => Inv
<1> SUFFICES ASSUME Init PROVE Inv
  OBVIOUS
<1> USE PublicationAssumption
<1> DEFINE first == NewScan(0, TRUE)
           past == [s \in 1..MaxScans |-> [authority |-> 0, identity |-> 0, indexed |-> FALSE]]
<1>1. /\ root = [readable |-> TRUE, gen |-> 0, busy |-> FALSE] /\ scans = <<first>>
      /\ human = [authority |-> 0, identity |-> 0, corrected |-> FALSE] /\ history = past
      /\ signals = -1 /\ entry = [scan |-> 0, authority |-> 0, identity |-> 0]
      /\ backfill = [s \in 1..MaxScans |-> [status |-> "NONE", owner |-> "nobody", late |-> FALSE]]
      /\ local = [w \in Workers |-> Idle] /\ touched = FALSE /\ counts = 0
  BY DEF Init
<1>2. Status("NOT_ATTEMPTED") \in StatusType /\ Status("NOT_ATTEMPTED") # Done /\ Done \in StatusType
  BY StatusFacts DEF Words
<1>3. first \in Scans /\ first.gen = 0 /\ first.knowledge # Done /\ first.search # Done
  BY <1>2 DEF Scans, NewScan
<1> HIDE DEF first
<1>4. scans \in Seq(Scans) /\ Len(scans) = 1 /\ scans[1] = first
  BY <1>1, <1>3
<1>5. NoTx \in Seen /\ NoTx.authority = 0 /\ NoTx.identity = 0
  BY <1>2 DEF NoTx, Seen
<1>6. Idle \in Locals /\ Idle.pc = "idle" /\ Idle.scan = 0 /\ Idle.seen = NoTx
  BY <1>5 DEF Idle, Locals, Pcs
<1>7. human.authority = 0 /\ human.identity = 0
  BY <1>1
<1>8. LocalAt(Idle, Len(scans), human)
  BY <1>4, <1>5, <1>6, <1>7 DEF LocalAt
<1>9. LocalInv /\ \A v \in Workers : local[v].pc = "idle" /\ local[v].scan = 0
  BY <1>1, <1>6, <1>8 DEF LocalInv, LocalOK
<1>10. TypeOK
  <2>1. scans \in Seq([gen : Nat, done : BOOLEAN, knowledge : StatusType, search : StatusType]) /\ Len(scans) <= MaxScans
    BY <1>4 DEF Scans
  <2>2. /\ root \in [readable : BOOLEAN, gen : Nat, busy : BOOLEAN]
        /\ human \in [authority : Nat, identity : Nat, corrected : BOOLEAN]
    BY <1>1
  <2>3. signals \in -1..human.authority /\ counts \in 0..MaxEvents /\ touched \in BOOLEAN
    <3>1. signals \in -1..0
      BY ONLY <1>1
    <3>2. counts \in 0..MaxEvents
      BY <1>1
    <3>3. touched \in BOOLEAN
      BY <1>1
    <3> QED
      BY <1>7, <3>1, <3>2, <3>3
  <2>4. entry \in [scan : 0..MaxScans, authority : 0..human.authority, identity : 0..human.identity]
    BY <1>1, <1>7
  <2>5. backfill \in [1..MaxScans -> [status : {"NONE", "PROCESSING", "INDEXED", "FAILED"},
                                      owner : Workers \cup {"nobody"}, late : BOOLEAN]]
    BY <1>1
  <2>6. \A v \in Workers : local[v].pc \in Pcs /\ local[v].scan \in 0..Len(scans)
    BY <1>4, <1>9 DEF Pcs
  <2>7. history \in [1..MaxScans -> [authority : 0..human.authority, identity : 0..human.identity, indexed : BOOLEAN]]
    BY <1>1, <1>7
  <2> QED
    BY <2>1, <2>2, <2>3, <2>4, <2>5, <2>6, <2>7 DEF TypeOK
<1>11. GenInv
  BY <1>1, <1>3, <1>4 DEF GenInv
<1>12. LockInv /\ TxInv
  BY <1>1, <1>4, <1>9 DEF LockInv, TxInv, InTx
<1>13. ScanInv
  BY <1>3, <1>4 DEF ScanInv
<1> QED
  BY <1>9, <1>10, <1>11, <1>12, <1>13 DEF Inv

-----------------------------------------------------------------------------
(* The theorems. *)

(* The invariant holds in every reachable state. *)
THEOREM Invariance == Spec => []Inv
<1>1. Init => Inv
  BY InvInit
<1>2. Inv /\ [Next]_vars => Inv'
  BY InvStep
<1> QED
  BY <1>1, <1>2, PTL DEF Spec

(* Scans, stages, rows and what is published stay well formed; in particular
   there is always a stamp nobody holds. *)
THEOREM TypeCorrect == Spec => []TypeOK
<1>1. Inv => TypeOK
  BY DEF Inv
<1> QED
  BY <1>1, Invariance, PTL

(* A step after which every Search that is COMPLETED was so before, or was indexed
   just now, or is a matter of the backfill rows. *)
StaysFresh ==
    /\ \A t \in 1..Len(scans') : scans'[t].search = Done =>
         \/ t \in 1..Len(scans) /\ scans[t].search = Done /\ (history[t].indexed => history'[t].indexed)
         \/ history'[t].indexed
         \/ backfill'[t].status # "NONE"
    /\ \A t \in 1..Len(scans') : backfill'[t].status = "NONE" => backfill[t].status = "NONE"

(* Every step is one: a stage is indexed as it completes, a session that completes
   anew has its Search pending, and rows once claimed do not go away. *)
LEMMA FreshStep == ASSUME Inv, [Next]_vars PROVE StaysFresh
<1>1. Facts
  BY FactsHold
<1>2. ASSUME UNCHANGED <<scans, history, backfill>> PROVE StaysFresh
  BY <1>2 DEF StaysFresh
<1>3. ASSUME NEW w \in Workers, QuietAction(w) PROVE StaysFresh
  <2>1. Quiet(w)
    BY <1>3, QuietActions
  <2> QED
    BY <1>1, <2>1 DEF Quiet, SameDone, StaysFresh, Facts
<1>4. ASSUME NEW s \in 1..Len(scans), NEW d, NEW k, NEW q, Written(scans', s, d, k, q), UNCHANGED backfill,
             \A t \in 1..Len(scans) : t # s => (history[t].indexed => history'[t].indexed),
             \/ q = scans[s].search /\ (history[s].indexed => history'[s].indexed)
             \/ q # Done \/ history'[s].indexed \/ backfill[s].status # "NONE"
      PROVE  StaysFresh
  BY <1>4 DEF Written, StaysFresh
<1>5. ASSUME NEW n \in 1..MaxScans, NEW b, history' = [history EXCEPT ![n].indexed = b]
      PROVE  history'[n].indexed = b /\ \A t \in 1..MaxScans : t # n => history'[t] = history[t]
  BY <1>1, <1>5 DEF Facts, Histories
<1>6. ASSUME NEW w \in Workers, CommitStage(w) PROVE StaysFresh
  <2> DEFINE s == local[w].scan
  <2>1. s \in 1..Len(scans) /\ s \in 1..MaxScans /\ Done \in StatusType /\ UNCHANGED backfill
    BY <1>1, <1>6, BusyFacts, StatusFacts DEF CommitStage
  <2>2. scans[s].knowledge \in StatusType /\ scans[s].search \in StatusType /\ scans[s].done \in BOOLEAN
    BY <1>1, <2>1 DEF Facts, Scans
  <2>3. \/ scans' = [scans EXCEPT ![s].knowledge = Done] /\ history' = history
        \/ scans' = [scans EXCEPT ![s].search = Done] /\ history' = [history EXCEPT ![s].indexed = TRUE]
    BY <1>6 DEF CommitStage, SetStage
  <2> HIDE DEF s
  <2>4. CASE scans' = [scans EXCEPT ![s].knowledge = Done] /\ history' = history
    <3>1. Written([scans EXCEPT ![s].knowledge = Done], s, scans[s].done, Done, scans[s].search)
      BY ONLY <1>1, <2>1, <2>2, WrittenFacts DEF Facts
    <3>2. Written(scans', s, scans[s].done, Done, scans[s].search)
      BY ONLY <2>4, <3>1
    <3> QED
      BY <1>4, <2>1, <2>4, <3>2
  <2>5. CASE scans' = [scans EXCEPT ![s].search = Done] /\ history' = [history EXCEPT ![s].indexed = TRUE]
    <3>1. Written([scans EXCEPT ![s].search = Done], s, scans[s].done, scans[s].knowledge, Done)
      BY ONLY <1>1, <2>1, <2>2, WrittenFacts DEF Facts
    <3>2. Written(scans', s, scans[s].done, scans[s].knowledge, Done)
      BY ONLY <2>5, <3>1
    <3>3. history'[s].indexed = TRUE /\ \A t \in 1..MaxScans : t # s => history'[t] = history[t]
      BY ONLY <1>5, <2>1, <2>5
    <3>4. history'[s].indexed /\ \A t \in 1..Len(scans) : t # s => (history[t].indexed => history'[t].indexed)
      BY ONLY <1>1, <3>3 DEF Facts
    <3> QED
      BY ONLY <1>4, <2>1, <3>2, <3>4
  <2> QED
    BY <2>3, <2>4, <2>5
<1>7. ASSUME NEW w \in Workers, SettleBackfill(w) PROVE StaysFresh
  <2> DEFINE s == local[w].scan
             q == IF backfill[s].status = "INDEXED" THEN Done ELSE Status("INCOMPLETE")
  <2>1. s \in 1..Len(scans) /\ q \in StatusType /\ UNCHANGED <<history, backfill>>
    BY <1>1, <1>7, BusyFacts, StatusFacts DEF SettleBackfill, Words
  <2>2. scans[s].knowledge \in StatusType /\ scans[s].done \in BOOLEAN
    BY <1>1, <2>1 DEF Facts, Scans
  <2>3. UNCHANGED scans \/ (backfill[s].status # "NONE" /\ scans' = [scans EXCEPT ![s].search = q])
    BY <1>7 DEF SettleBackfill, Settleable
  <2> HIDE DEF s, q
  <2>4. CASE backfill[s].status # "NONE" /\ scans' = [scans EXCEPT ![s].search = q]
    <3>1. Written([scans EXCEPT ![s].search = q], s, scans[s].done, scans[s].knowledge, q)
      BY ONLY <1>1, <2>1, <2>2, WrittenFacts DEF Facts
    <3>2. Written(scans', s, scans[s].done, scans[s].knowledge, q)
      BY ONLY <2>4, <3>1
    <3> QED
      BY <1>4, <2>1, <2>4, <3>2
  <2> QED
    BY <1>2, <2>1, <2>3, <2>4
<1>8. ASSUME NEW w \in Workers, CommitIndex(w) PROVE StaysFresh
  <2> DEFINE s == local[w].scan
  <2>1. s \in 1..MaxScans /\ UNCHANGED <<scans, backfill>>
        /\ (history' = history \/ history' = [history EXCEPT ![s].indexed = TRUE])
    BY <1>1, <1>8, BusyFacts DEF CommitIndex, Facts
  <2> HIDE DEF s
  <2>2. \A t \in 1..MaxScans : history[t].indexed => history'[t].indexed
    BY <1>5, <2>1
  <2> QED
    BY <1>1, <2>1, <2>2 DEF StaysFresh, Facts
<1>9. ASSUME NEW k \in StatusType, k # Done, UNCHANGED backfill,
             \/ scans' = [scans EXCEPT ![Latest].knowledge = k, ![Latest].search = k]
             \/ scans' = [scans EXCEPT ![Latest].search = k],
             Latest \in 1..Len(scans),
             \E x : \/ history' = [history EXCEPT ![Latest].authority = x]
                    \/ history' = [history EXCEPT ![Latest].identity = x]
      PROVE  StaysFresh
  <2> DEFINE n == Latest
  <2>1. /\ n \in 1..Len(scans) /\ scans[n].knowledge \in StatusType /\ scans[n].search \in StatusType
        /\ scans[n].done \in BOOLEAN
    BY <1>1, <1>9 DEF Facts, Scans
  <2>2. \A t \in 1..Len(scans) : t # n => (history[t].indexed => history'[t].indexed)
    BY <1>1, <1>9 DEF Facts, Histories
  <2>3. \/ scans' = [scans EXCEPT ![n].knowledge = k, ![n].search = k]
        \/ scans' = [scans EXCEPT ![n].search = k]
    BY <1>9
  <2> HIDE DEF n
  <2>4. \/ Written(scans', n, scans[n].done, k, k)
        \/ Written(scans', n, scans[n].done, scans[n].knowledge, k)
    <3>1. /\ Written([scans EXCEPT ![n].knowledge = k, ![n].search = k], n, scans[n].done, k, k)
          /\ Written([scans EXCEPT ![n].search = k], n, scans[n].done, scans[n].knowledge, k)
      BY ONLY <1>1, <1>9, <2>1, WrittenFacts DEF Facts
    <3> QED
      BY ONLY <2>3, <3>1
  <2> QED
    BY <1>4, <1>9, <2>1, <2>2, <2>4
<1>10. Stamped("NOT_ATTEMPTED") \in StatusType /\ Stamped("NOT_ATTEMPTED") # Done
       /\ (Invalidates => Latest \in 1..Len(scans))
  BY StatusFacts, LatestIs DEF Inv, Words, Invalidates
<1>11. ASSUME NEW kind \in {"ACCEPT", "MODIFY"}, SaveDecision(kind) PROVE StaysFresh
  BY <1>2, <1>9, <1>10, <1>11 DEF SaveDecision, InvalidateDocument
<1>12. CASE ReviewIdentity
  BY <1>2, <1>9, <1>10, <1>12 DEF ReviewIdentity, InvalidateSearch
<1>13. CASE StartScan
  <2> DEFINE new == NewScan(root.gen, FALSE)
  <2>1. scans' = Append(scans, new) /\ new.search # Done /\ UNCHANGED <<history, backfill>>
    BY <1>13, StatusFacts DEF StartScan, NewScan, Words
  <2> HIDE DEF new
  <2>2. /\ Len(scans') = Len(scans) + 1 /\ scans'[Len(scans) + 1] = new
        /\ \A t \in 1..Len(scans) : scans'[t] = scans[t]
    BY <1>1, <2>1 DEF Facts
  <2> QED
    BY <1>1, <2>1, <2>2 DEF StaysFresh, Facts
<1>14. ASSUME NEW s \in 1..Len(scans), CompleteScan(s) PROVE StaysFresh
  <2> DEFINE k == Stamped("NOT_ATTEMPTED")
             d == TRUE
  <2>1. /\ scans' = [scans EXCEPT ![s].done = d, ![s].knowledge = k, ![s].search = k] /\ UNCHANGED backfill
        /\ history' = [history EXCEPT ![s].indexed = FALSE]
    BY <1>14 DEF CompleteScan
  <2>2. k \in StatusType /\ k # Done /\ d \in BOOLEAN /\ s \in 1..MaxScans
    BY <1>1, <1>10 DEF Facts
  <2> HIDE DEF k, d
  <2>3. Written([scans EXCEPT ![s].done = d, ![s].knowledge = k, ![s].search = k], s, d, k, k)
    BY ONLY <1>1, <1>14, <2>2, WrittenFacts DEF Facts
  <2>4. Written(scans', s, d, k, k)
    BY ONLY <2>1, <2>3
  <2>5. \A t \in 1..Len(scans) : t # s => history'[t] = history[t]
    BY <1>1, <1>5, <2>1, <2>2 DEF Facts
  <2> QED
    BY <1>4, <2>1, <2>2, <2>4, <2>5
<1>15. ASSUME NEW s \in 1..Len(scans), ReopenScan(s) PROVE StaysFresh
  <2> DEFINE d == FALSE
  <2>1. scans' = [scans EXCEPT ![s].done = d] /\ UNCHANGED <<history, backfill>>
    BY <1>15 DEF ReopenScan
  <2>2. d \in BOOLEAN /\ scans[s].knowledge \in StatusType /\ scans[s].search \in StatusType
    BY <1>1 DEF Facts, Scans
  <2> HIDE DEF d
  <2>3. Written([scans EXCEPT ![s].done = d], s, d, scans[s].knowledge, scans[s].search)
    BY ONLY <1>1, <1>15, <2>2, WrittenFacts DEF Facts
  <2>4. Written(scans', s, d, scans[s].knowledge, scans[s].search)
    BY ONLY <2>1, <2>3
  <2> QED
    BY <1>4, <2>1, <2>4
<1>16. ASSUME NEW s \in 1..MaxScans, ExpireClaim(s) PROVE StaysFresh
  <2>1. /\ UNCHANGED <<scans, history>>
        /\ \A t \in 1..MaxScans : backfill'[t].status = backfill[t].status
    BY <1>1, <1>16 DEF ExpireClaim, Facts, Rows
  <2> QED
    BY <1>1, <2>1 DEF StaysFresh, Facts
<1>17. CASE StartPhysicalRun \/ (\E changed \in BOOLEAN : SettlePhysicalRun(changed)) \/ ChangeGrant
  BY <1>2, <1>17 DEF StartPhysicalRun, SettlePhysicalRun, ChangeGrant
<1>18. CASE UNCHANGED vars
  BY <1>2, <1>18 DEF vars
<1> QED
  BY <1>3, <1>6, <1>7, <1>8, <1>11, <1>12, <1>13, <1>14, <1>15, <1>16, <1>17, <1>18, StepCases

(* A session that completed again calls its Search COMPLETED only when it was
   indexed since, or by the rows of its preparation. *)
LEMMA FreshIsKept == Spec => []SearchFresh
<1>1. Init => SearchFresh
  <2>1. Status("NOT_ATTEMPTED") # Done
    BY StatusFacts DEF Words
  <2> QED
    BY <2>1 DEF Init, SearchFresh, NewScan
<1>2. Inv /\ SearchFresh /\ [Next]_vars => SearchFresh'
  BY FreshStep DEF SearchFresh, StaysFresh
<1> QED
  BY <1>1, <1>2, Invariance, PTL DEF Spec

(* scan-publication.ts: once a stage of the current snapshot is COMPLETED, what
   it published shows every decision that found that snapshot current, however
   publications, failures, decisions, reopened scans and their reprocessing raced;
   and a session that was reprocessed does not live on an older index. *)
THEOREM DerivedIsCurrent == Spec => []DerivedCurrent
<1>1. Inv => KnowledgeCurrent /\ SearchCurrent
  <2> SUFFICES ASSUME Inv, NEW s \in 1..Len(scans), Current(s)
               PROVE  /\ scans[s].knowledge = Done => signals >= history[s].authority
                      /\ scans[s].search = Done /\ Unprepared(s) =>
                           /\ entry.scan >= s
                           /\ entry.authority >= history[s].authority /\ entry.identity >= history[s].identity
    BY DEF KnowledgeCurrent, SearchCurrent
  <2>1. scans[s].done
    BY LatestIs DEF Inv, Current
  <2> QED
    BY <2>1 DEF Inv, ScanInv
<1> QED
  BY <1>1, Invariance, FreshIsKept, PTL DEF DerivedCurrent

(* What CompletionKept says of one step. *)
KeepsCompletion ==
    \A s \in 1..Len(scans) :
        \/ scans[s].knowledge = Done /\ scans'[s].knowledge # Done
        \/ scans[s].search = Done /\ scans'[s].search # Done
        => human' # human \/ (~scans[s].done /\ scans'[s].done)

(* No step takes a completed stage back, except for a newer authority or for its
   scan, which completes anew. *)
LEMMA CompletionStep == ASSUME Inv, [Next]_vars PROVE KeepsCompletion
<1>1. Facts
  BY FactsHold
<1>2. CASE UNCHANGED scans
  BY <1>2 DEF KeepsCompletion
<1>3. ASSUME NEW w \in Workers, QuietAction(w) PROVE KeepsCompletion
  BY <1>3, QuietActions DEF Quiet, SameDone, KeepsCompletion
<1>4. ASSUME NEW s \in 1..Len(scans), NEW d, NEW k, NEW q, Written(scans', s, d, k, q),
             \/ (k = Done \/ k = scans[s].knowledge) /\ (q = Done \/ q = scans[s].search \/ scans[s].search # Done)
             \/ ~scans[s].done /\ d
      PROVE  KeepsCompletion
  BY <1>4 DEF Written, KeepsCompletion
<1>5. ASSUME NEW w \in Workers, CommitStage(w) \/ SettleBackfill(w) PROVE KeepsCompletion
  <2> DEFINE s == local[w].scan
             q == Status("INCOMPLETE")
  <2>1. s \in 1..Len(scans) /\ Done \in StatusType /\ q \in StatusType
    BY <1>1, <1>5, BusyFacts, StatusFacts DEF CommitStage, SettleBackfill, Words
  <2>2. scans[s].knowledge \in StatusType /\ scans[s].search \in StatusType /\ scans[s].done \in BOOLEAN
    BY <1>1, <2>1 DEF Facts, Scans
  <2>3. \/ UNCHANGED scans
        \/ scans' = [scans EXCEPT ![s].knowledge = Done]
        \/ scans' = [scans EXCEPT ![s].search = Done]
        \/ scans[s].search # Done /\ scans' = [scans EXCEPT ![s].search = q]
    BY <1>5 DEF CommitStage, SetStage, SettleBackfill
  <2> HIDE DEF s, q
  <2>4. CASE scans' = [scans EXCEPT ![s].knowledge = Done]
    <3>1. Written([scans EXCEPT ![s].knowledge = Done], s, scans[s].done, Done, scans[s].search)
      BY ONLY <1>1, <2>1, <2>2, WrittenFacts DEF Facts
    <3>2. Written(scans', s, scans[s].done, Done, scans[s].search)
      BY ONLY <2>4, <3>1
    <3> QED
      BY <1>4, <2>1, <3>2
  <2>5. CASE scans' = [scans EXCEPT ![s].search = Done]
    <3>1. Written([scans EXCEPT ![s].search = Done], s, scans[s].done, scans[s].knowledge, Done)
      BY ONLY <1>1, <2>1, <2>2, WrittenFacts DEF Facts
    <3>2. Written(scans', s, scans[s].done, scans[s].knowledge, Done)
      BY ONLY <2>5, <3>1
    <3> QED
      BY <1>4, <2>1, <3>2
  <2>6. CASE scans[s].search # Done /\ scans' = [scans EXCEPT ![s].search = q]
    <3>1. Written([scans EXCEPT ![s].search = q], s, scans[s].done, scans[s].knowledge, q)
      BY ONLY <1>1, <2>1, <2>2, WrittenFacts DEF Facts
    <3>2. Written(scans', s, scans[s].done, scans[s].knowledge, q)
      BY ONLY <2>6, <3>1
    <3> QED
      BY <1>4, <2>1, <2>6, <3>2
  <2> QED
    BY <1>2, <2>3, <2>4, <2>5, <2>6
<1>6. ASSUME human'.authority = human.authority + 1 \/ human'.identity = human.identity + 1 PROVE KeepsCompletion
  <2>1. human' # human
    BY <1>1, <1>6 DEF Facts
  <2> QED
    BY <2>1 DEF KeepsCompletion
<1>7. ASSUME NEW kind \in {"ACCEPT", "MODIFY"}, SaveDecision(kind) PROVE KeepsCompletion
  <2>1. human'.authority = human.authority + 1
    BY <1>7 DEF SaveDecision, Inv, TypeOK
  <2> QED
    BY <1>6, <2>1
<1>8. CASE ReviewIdentity
  <2>1. human'.identity = human.identity + 1
    BY <1>8 DEF ReviewIdentity, Inv, TypeOK
  <2> QED
    BY <1>6, <2>1
<1>9. CASE StartScan
  <2> DEFINE new == NewScan(root.gen, FALSE)
  <2>1. scans' = Append(scans, new)
    BY <1>9 DEF StartScan
  <2> HIDE DEF new
  <2>2. \A t \in 1..Len(scans) : scans'[t] = scans[t]
    BY <1>1, <2>1 DEF Facts
  <2> QED
    BY <2>2 DEF KeepsCompletion
<1>10. ASSUME NEW s \in 1..Len(scans), CompleteScan(s) PROVE KeepsCompletion
  <2> DEFINE k == Stamped("NOT_ATTEMPTED")
             d == TRUE
  <2>1. ~scans[s].done /\ scans' = [scans EXCEPT ![s].done = d, ![s].knowledge = k, ![s].search = k]
    BY <1>10 DEF CompleteScan, Completable
  <2>2. k \in StatusType /\ d \in BOOLEAN /\ d
    BY StatusFacts DEF Inv, Words
  <2> HIDE DEF k, d
  <2>3. Written([scans EXCEPT ![s].done = d, ![s].knowledge = k, ![s].search = k], s, d, k, k)
    BY ONLY <1>1, <1>10, <2>2, WrittenFacts DEF Facts
  <2>4. Written(scans', s, d, k, k)
    BY ONLY <2>1, <2>3
  <2> QED
    BY <1>4, <2>1, <2>2, <2>4
<1>11. ASSUME NEW s \in 1..Len(scans), ReopenScan(s) PROVE KeepsCompletion
  <2> DEFINE d == FALSE
  <2>1. scans' = [scans EXCEPT ![s].done = d]
    BY <1>11 DEF ReopenScan
  <2>2. d \in BOOLEAN /\ scans[s].knowledge \in StatusType /\ scans[s].search \in StatusType
    BY <1>1 DEF Facts, Scans
  <2> HIDE DEF d
  <2>3. Written([scans EXCEPT ![s].done = d], s, d, scans[s].knowledge, scans[s].search)
    BY ONLY <1>1, <1>11, <2>2, WrittenFacts DEF Facts
  <2>4. Written(scans', s, d, scans[s].knowledge, scans[s].search)
    BY ONLY <2>1, <2>3
  <2> QED
    BY <1>4, <2>4
<1>12. ASSUME NEW w \in Workers, CommitIndex(w) PROVE KeepsCompletion
  BY <1>2, <1>12 DEF CommitIndex
<1>13. ASSUME NEW s \in 1..MaxScans, ExpireClaim(s) PROVE KeepsCompletion
  BY <1>2, <1>13 DEF ExpireClaim
<1>14. CASE StartPhysicalRun \/ (\E changed \in BOOLEAN : SettlePhysicalRun(changed)) \/ ChangeGrant
  BY <1>2, <1>14 DEF StartPhysicalRun, SettlePhysicalRun, ChangeGrant
<1>15. CASE UNCHANGED vars
  BY <1>2, <1>15 DEF vars
<1> QED
  BY <1>3, <1>5, <1>7, <1>8, <1>9, <1>10, <1>11, <1>12, <1>13, <1>14, <1>15, StepCases

(* "Never roll a newer worker's success back": a COMPLETED stage becomes work
   again by a human decision or when its scan completes anew, and by nothing else. *)
THEOREM CompletionIsKept == Spec => CompletionKept
<1>1. Inv /\ [Next]_vars => KeepsCompletion
  BY CompletionStep
<1>2. Spec => [][KeepsCompletion]_vars
  BY <1>1, Invariance, PTL DEF Spec
<1> QED
  BY <1>2 DEF CompletionKept, KeepsCompletion

(* What EntryKept says of one step. *)
KeepsEntry == \A s \in 1..Len(scans) : Current(s) /\ scans[s].search = Done /\ entry.scan = s => entry'.scan >= s

(* No step gives the entry of a current scan to an older one: a transaction that
   is open began when no newer scan was done, or the newer one is not prepared. *)
LEMMA EntryStep == ASSUME Inv, [Next]_vars PROVE KeepsEntry
<1>1. Facts /\ entry.scan \in Nat
  BY FactsHold, PublicationAssumption DEF Inv, TypeOK
<1>2. CASE UNCHANGED entry
  BY <1>1, <1>2 DEF KeepsEntry
<1>3. ASSUME NEW w \in Workers, QuietAction(w) PROVE UNCHANGED entry
  BY <1>3, QuietActions DEF Quiet
<1>4. ASSUME NEW w \in Workers, CommitStage(w) \/ CommitIndex(w) PROVE KeepsEntry
  <2>1. InTx(w) /\ (entry'.scan = entry.scan \/ entry'.scan = local[w].scan)
    <3>1. entry \in [scan : 0..MaxScans, authority : 0..human.authority, identity : 0..human.identity]
      BY DEF Inv, TypeOK
    <3> QED
      BY <1>4, <3>1 DEF CommitStage, CommitIndex, Projected, InTx
  <2>2. local[w].scan \in 1..Len(scans)
    BY <2>1, BusyFacts DEF InTx
  <2>3. TxAt(local[w], scans, history, touched)
    BY <2>1 DEF Inv, TxInv
  <2> SUFFICES ASSUME NEW s \in 1..Len(scans), Current(s), scans[s].search = Done, entry.scan = s
               PROVE  entry'.scan >= s
    BY DEF KeepsEntry
  <2>4. scans[s].done
    BY LatestIs DEF Inv, Current
  <2>5. local[w].scan >= s
    BY <1>1, <2>2, <2>3, <2>4 DEF TxAt
  <2> QED
    BY <1>1, <2>1, <2>5
<1>5. ASSUME NEW w \in Workers, SettleBackfill(w) PROVE KeepsEntry
  <2>1. entry' = entry \/ (entry.scan # local[w].scan /\ local[w].scan = Latest)
    BY <1>5 DEF SettleBackfill, Settleable, SearchReady, CurrentScan
  <2> QED
    BY <1>2, <2>1 DEF KeepsEntry, Current
<1>6. ASSUME NEW kind \in {"ACCEPT", "MODIFY"}, SaveDecision(kind) PROVE UNCHANGED entry
  BY <1>6 DEF SaveDecision
<1>7. CASE ReviewIdentity \/ StartScan
  BY <1>2, <1>7 DEF ReviewIdentity, StartScan
<1>8. ASSUME NEW s \in 1..Len(scans), CompleteScan(s) \/ ReopenScan(s) PROVE UNCHANGED entry
  BY <1>8 DEF CompleteScan, ReopenScan
<1>9. ASSUME NEW s \in 1..MaxScans, ExpireClaim(s) PROVE UNCHANGED entry
  BY <1>9 DEF ExpireClaim
<1>10. CASE StartPhysicalRun \/ (\E changed \in BOOLEAN : SettlePhysicalRun(changed)) \/ ChangeGrant
  BY <1>2, <1>10 DEF StartPhysicalRun, SettlePhysicalRun, ChangeGrant
<1>11. CASE UNCHANGED vars
  BY <1>2, <1>11 DEF vars
<1> QED
  BY <1>2, <1>3, <1>4, <1>5, <1>6, <1>7, <1>8, <1>9, <1>10, <1>11, StepCases

(* CURRENT-2: the search entry a current snapshot published is never taken by the
   work of an older scan, also when that work began while the snapshot's session
   was open again. *)
THEOREM EntryIsKept == Spec => EntryKept
<1>1. Inv /\ [Next]_vars => KeepsEntry
  BY EntryStep
<1>2. Spec => [][KeepsEntry]_vars
  BY <1>1, Invariance, PTL DEF Spec
<1> QED
  BY <1>2 DEF EntryKept, KeepsEntry

-----------------------------------------------------------------------------
(* The claims of the backfill rows. *)

(* A worker in the steps of a preparation prepares. *)
Prepares(l) == l.pc \in {"mark", "claim", "index", "save", "settle"} => l.task = "prepare"
Works(l) == l.task = "prepare" /\ l.pc \in {"index", "indexTx", "save"}
TaskInv == \A w \in Workers : Prepares(local[w])

(* A step of a worker that neither claims a row nor gives one up. *)
KeepsClaims(w) ==
    /\ backfill' = backfill
    /\ \E m : /\ local' = [local EXCEPT ![w] = m] /\ Prepares(m)
              /\ Works(m) <=> Works(local[w])
              /\ Works(m) => m.scan = local[w].scan

(* Whose row it is: the worker's that took it and works on it still. *)
LEMMA HolderIs ==
    ASSUME NEW s \in 1..MaxScans, NEW w \in Workers
    PROVE  /\ Holder(s) = w <=> Owns(w, s) /\ Works(local[w]) /\ local[w].scan = s
           /\ Holder(s) = "nobody" <=> ~Claimed(s)
<1>1. "nobody" \notin Workers /\ "orphan" \notin Workers
  BY PublicationAssumption
<1> QED
  BY <1>1 DEF Holder, Held, Owns, Working, Works

(* A row nobody writes keeps its holder, unless the owner begins or ends its work. *)
LEMMA HolderKept ==
    ASSUME NEW s \in 1..MaxScans,
           backfill'[s].status = backfill[s].status, backfill'[s].owner = backfill[s].owner,
           \A v \in Workers : Owns(v, s) => ((Works(local'[v]) /\ local'[v].scan = s)
                                               <=> (Works(local[v]) /\ local[v].scan = s))
    PROVE  Holder(s)' = Holder(s)
<1>1. Claimed(s)' <=> Claimed(s)
  BY DEF Claimed
<1>2. \A v \in Workers : Owns(v, s)' <=> Owns(v, s)
  BY <1>1 DEF Owns
<1>3. Held(s)' <=> Held(s)
  BY <1>2 DEF Held, Working, Works
<1> QED
  BY <1>1, <1>3 DEF Holder

(* What the contract sees of such a step: nothing. *)
LEMMA ClaimsStay ==
    ASSUME \A s \in 1..MaxScans : backfill'[s] = backfill[s] /\ Holder(s)' = Holder(s),
           \A w \in Workers : Belief(w)' = Belief(w)
    PROVE  UNCHANGED SearchClaims!vars
<1>1. \A s \in 1..MaxScans : (Claimed(s)' <=> Claimed(s)) /\ Indexed(s)' = Indexed(s)
  BY DEF Claimed, Indexed
<1>2. [s \in 1..MaxScans |-> Holder(s)]' = [s \in 1..MaxScans |-> Holder(s)]
  OBVIOUS
<1>3. {s \in 1..MaxScans : Claimed(s) /\ backfill[s].late}' = {s \in 1..MaxScans : Claimed(s) /\ backfill[s].late}
  BY <1>1
<1>4. [w \in Workers |-> Belief(w)]' = [w \in Workers |-> Belief(w)]
  OBVIOUS
<1>5. [s \in 1..MaxScans |-> Indexed(s)]' = [s \in 1..MaxScans |-> Indexed(s)]
  BY <1>1
<1> QED
  BY <1>2, <1>3, <1>4, <1>5 DEF SearchClaims!vars

(* Nor does it see a step that keeps the claims. *)
LEMMA KeptClaims ==
    ASSUME local \in [Workers -> Locals], TaskInv, NEW w \in Workers, KeepsClaims(w)
    PROVE  UNCHANGED SearchClaims!vars /\ TaskInv'
<1>1. PICK m : /\ local' = [local EXCEPT ![w] = m] /\ Prepares(m)
               /\ Works(m) <=> Works(local[w])
               /\ Works(m) => m.scan = local[w].scan
  BY DEF KeepsClaims
<1>2. local'[w] = m /\ \A v \in Workers : v # w => local'[v] = local[v]
  BY <1>1
<1>3. \A v \in Workers : (Works(local'[v]) <=> Works(local[v])) /\ (Works(local[v]) => local'[v].scan = local[v].scan)
  BY <1>1, <1>2
<1>4. \A s \in 1..MaxScans : backfill'[s] = backfill[s] /\ Holder(s)' = Holder(s)
  BY <1>3, HolderKept DEF KeepsClaims
<1>5. \A v \in Workers : Belief(v)' = Belief(v)
  BY <1>3 DEF Belief, Working, Works
<1>6. TaskInv'
  BY <1>1, <1>2 DEF TaskInv
<1> QED
  BY <1>4, <1>5, <1>6, ClaimsStay

(* Nor one that leaves workers and rows alone. *)
LEMMA StillClaims ==
    ASSUME TaskInv, UNCHANGED <<backfill, local>> PROVE UNCHANGED SearchClaims!vars /\ TaskInv'
<1>1. \A s \in 1..MaxScans : backfill'[s] = backfill[s] /\ Holder(s)' = Holder(s)
  BY HolderKept
<1>2. \A v \in Workers : Belief(v)' = Belief(v)
  BY DEF Belief, Working
<1> QED
  BY <1>1, <1>2, ClaimsStay DEF TaskInv

-----------------------------------------------------------------------------

(* Stages, marks and settlements: the worker is at no file. *)
AtNoFile(w) ==
    \/ \E task \in {"publish", "prepare"} : StartPublish(w, task)
    \/ BeginSearch(w) \/ CommitStage(w) \/ AbortStage(w) \/ RecordFailure(w) \/ MarkPreparing(w)
    \/ SettleBackfill(w) \/ FailPrepare(w) \/ \E task \in {"refresh", "identity"} : StartRefresh(w, task)

LEMMA NoFileKeeps ==
    ASSUME local \in [Workers -> Locals], TaskInv, NEW w \in Workers, AtNoFile(w) PROVE KeepsClaims(w)
<1>1. local[w] \in Locals /\ Prepares(local[w])
  BY DEF TaskInv
<1>2. Prepares(Idle) /\ ~Works(Idle)
  BY DEF Idle, Prepares, Works
<1>3. ASSUME NEW m, local' = [local EXCEPT ![w] = m], backfill' = backfill, Prepares(m), ~Works(m),
             ~Works(local[w])
      PROVE  KeepsClaims(w)
  BY <1>3 DEF KeepsClaims
<1>4. ASSUME NEW task \in {"publish", "prepare"}, StartPublish(w, task) PROVE KeepsClaims(w)
  <2> DEFINE s == Latest
             m1 == [Idle EXCEPT !.pc = "tx", !.scan = s, !.task = task, !.seen = Snapshot(s, "knowledge")]
             m2 == [Idle EXCEPT !.pc = "mark", !.scan = s, !.task = task]
             m3 == [Idle EXCEPT !.pc = "stage", !.scan = s, !.stage = "search"]
  <2>1. /\ local[w].pc = "idle" /\ backfill' = backfill
        /\ \/ local' = [local EXCEPT ![w] = m1]
           \/ task = "prepare" /\ local' = [local EXCEPT ![w] = m2]
           \/ local' = [local EXCEPT ![w] = m3]
    BY <1>4 DEF StartPublish
  <2>2. ~Works(local[w])
    BY <2>1 DEF Works
  <2>3. Prepares(m1) /\ ~Works(m1) /\ (task = "prepare" => Prepares(m2)) /\ ~Works(m2) /\ Prepares(m3) /\ ~Works(m3)
    BY DEF Idle, Prepares, Works
  <2> QED
    BY <1>3, <2>1, <2>2, <2>3
<1>5. CASE BeginSearch(w)
  <2> DEFINE m == [local[w] EXCEPT !.pc = "tx", !.seen = Snapshot(local[w].scan, "search")]
  <2>1. /\ local[w].pc = "stage" /\ backfill' = backfill
        /\ local' = [local EXCEPT ![w] = Idle] \/ local' = [local EXCEPT ![w] = m]
    BY <1>1, <1>5 DEF BeginSearch, Finish
  <2>2. Prepares(m) /\ ~Works(m) /\ ~Works(local[w])
    BY <1>1, <2>1 DEF Prepares, Works, Locals
  <2> QED
    BY <1>2, <1>3, <2>1, <2>2
<1>6. CASE CommitStage(w)
  <2> DEFINE m1 == [local[w] EXCEPT !.pc = "mark", !.seen = NoTx]
             m2 == [local[w] EXCEPT !.pc = "stage", !.stage = "search", !.seen = NoTx]
  <2>1. /\ local[w].pc = "tx" /\ backfill' = backfill
        /\ \/ local' = [local EXCEPT ![w] = Idle]
           \/ local[w].task = "prepare" /\ local' = [local EXCEPT ![w] = m1]
           \/ local' = [local EXCEPT ![w] = m2]
    BY <1>1, <1>6 DEF CommitStage, AfterStage, Finish
  <2>2. /\ (local[w].task = "prepare" => Prepares(m1)) /\ ~Works(m1) /\ Prepares(m2) /\ ~Works(m2)
        /\ ~Works(local[w])
    BY <1>1, <2>1 DEF Prepares, Works, Locals
  <2> QED
    BY <1>2, <1>3, <2>1, <2>2
<1>7. CASE AbortStage(w)
  <2> DEFINE m == [local[w] EXCEPT !.pc = "failed"]
  <2>1. local[w].pc = "tx" /\ backfill' = backfill /\ local' = [local EXCEPT ![w] = m]
    BY <1>1, <1>7 DEF AbortStage, Goto
  <2>2. Prepares(m) /\ ~Works(m) /\ ~Works(local[w])
    BY <1>1, <2>1 DEF Prepares, Works, Locals
  <2> QED
    BY <1>3, <2>1, <2>2
<1>8. CASE MarkPreparing(w)
  <2> DEFINE m == [local[w] EXCEPT !.pc = "claim"]
  <2>1. /\ local[w].pc = "mark" /\ backfill' = backfill
        /\ local' = [local EXCEPT ![w] = Idle] \/ local' = [local EXCEPT ![w] = m]
    BY <1>1, <1>8 DEF MarkPreparing, Goto, Finish
  <2>2. Prepares(m) /\ ~Works(m) /\ ~Works(local[w])
    BY <1>1, <2>1 DEF Prepares, Works, Locals
  <2> QED
    BY <1>2, <1>3, <2>1, <2>2
<1>9. CASE RecordFailure(w) \/ SettleBackfill(w) \/ FailPrepare(w)
  <2>1. /\ local[w].pc \in {"failed", "settle", "mark", "claim"} /\ backfill' = backfill
        /\ local' = [local EXCEPT ![w] = Idle]
    BY <1>9 DEF RecordFailure, SettleBackfill, FailPrepare, Finish
  <2>2. ~Works(local[w])
    BY <2>1 DEF Works
  <2> QED
    BY <1>2, <1>3, <2>1, <2>2
<1>10. ASSUME NEW task \in {"refresh", "identity"}, StartRefresh(w, task) PROVE KeepsClaims(w)
  <2> DEFINE m == [Idle EXCEPT !.pc = "indexTx", !.scan = Latest, !.task = task, !.seen = Snapshot(Latest, "search")]
  <2>1. local[w].pc = "idle" /\ backfill' = backfill /\ local' = [local EXCEPT ![w] = m]
    BY <1>10 DEF StartRefresh
  <2>2. Prepares(m) /\ ~Works(m) /\ ~Works(local[w])
    BY <2>1 DEF Idle, Prepares, Works
  <2> QED
    BY <1>3, <2>1, <2>2
<1> QED
  BY <1>4, <1>5, <1>6, <1>7, <1>8, <1>9, <1>10 DEF AtNoFile

(* Indexing: the worker goes on with its file, or refreshes one without a claim. *)
LEMMA IndexKeeps ==
    ASSUME local \in [Workers -> Locals], TaskInv, NEW w \in Workers,
           BeginIndex(w) \/ CommitIndex(w) \/ AbortIndex(w)
    PROVE  KeepsClaims(w)
<1> DEFINE m0 == [local[w] EXCEPT !.pc = "indexTx", !.seen = Snapshot(local[w].scan, "search")]
           m(row) == [local[w] EXCEPT !.pc = "save", !.row = row, !.seen = NoTx]
<1>1. local[w] \in Locals /\ Prepares(local[w])
  BY DEF TaskInv
<1>2. \A row : AfterIndex(w, row) => \/ local[w].task = "prepare" /\ local' = [local EXCEPT ![w] = m(row)]
                                     \/ local[w].task # "prepare" /\ local' = [local EXCEPT ![w] = Idle]
  BY <1>1 DEF AfterIndex, Finish
<1>3. /\ backfill' = backfill /\ local[w].pc \in {"index", "indexTx"}
      /\ \/ local[w].pc = "index" /\ local' = [local EXCEPT ![w] = m0]
         \/ \E row : AfterIndex(w, row)
  BY <1>1 DEF BeginIndex, CommitIndex, AbortIndex
<1>4. ~Works(Idle) /\ Prepares(Idle)
  BY DEF Idle, Works, Prepares
<1>5. CASE local[w].pc = "index" /\ local' = [local EXCEPT ![w] = m0]
  <2>1. Prepares(m0) /\ m0.scan = local[w].scan /\ (Works(m0) <=> Works(local[w]))
    BY <1>1, <1>5 DEF Prepares, Works, Locals
  <2> QED
    BY <1>3, <1>5, <2>1 DEF KeepsClaims
<1>6. ASSUME NEW row, AfterIndex(w, row) PROVE KeepsClaims(w)
  <2>1. CASE local[w].task = "prepare" /\ local' = [local EXCEPT ![w] = m(row)]
    <3>1. Prepares(m(row)) /\ m(row).scan = local[w].scan /\ Works(m(row)) /\ Works(local[w])
      BY <1>1, <1>3, <2>1 DEF Prepares, Works, Locals
    <3> QED
      BY <1>3, <2>1, <3>1 DEF KeepsClaims
  <2>2. CASE local[w].task # "prepare" /\ local' = [local EXCEPT ![w] = Idle]
    <3>1. ~Works(local[w])
      BY <2>2 DEF Works
    <3> QED
      BY <1>3, <1>4, <2>2, <3>1 DEF KeepsClaims
  <2> QED
    BY <1>2, <1>6, <2>1, <2>2
<1> QED
  BY <1>3, <1>5, <1>6

-----------------------------------------------------------------------------

(* claimSearchFile takes the row of a file nobody works on, or whose worker is late. *)
LEMMA ClaimTakes ==
    ASSUME Facts, TaskInv, NEW w \in Workers, ClaimFile(w)
    PROVE  (UNCHANGED SearchClaims!vars \/ \E s \in 1..MaxScans : SearchClaims!Take(w, s)) /\ TaskInv'
<1>0. PICK s \in 1..MaxScans : s = local[w].scan
  BY DEF Facts, LocalOK, LocalAt, ClaimFile
<1> DEFINE row == [status |-> "PROCESSING", owner |-> w, late |-> FALSE]
           m1 == [local[w] EXCEPT !.pc = "index"]
           m2 == [local[w] EXCEPT !.pc = "settle"]
<1>1. local \in [Workers -> Locals] /\ local[w] \in Locals /\ backfill \in [1..MaxScans -> Rows]
  BY DEF Facts
<1>2. local[w].pc = "claim" /\ local[w].task = "prepare" /\ ~Works(local[w])
  BY DEF ClaimFile, TaskInv, Prepares, Works
<1>3. \/ backfill' = backfill /\ local' = [local EXCEPT ![w] = m2]
      \/ /\ backfill[s].status \in {"NONE", "FAILED"} \/ (Claimed(s) /\ backfill[s].late)
         /\ backfill' = [backfill EXCEPT ![s] = row] /\ local' = [local EXCEPT ![w] = m1]
  BY <1>0 DEF ClaimFile, Claimable, Goto
<1>4. CASE backfill' = backfill /\ local' = [local EXCEPT ![w] = m2]
  <2>1. Prepares(m2) /\ ~Works(m2)
    BY <1>1, <1>2 DEF Prepares, Works, Locals
  <2>2. KeepsClaims(w)
    BY <1>2, <1>4, <2>1 DEF KeepsClaims
  <2> QED
    BY <1>1, <2>2, KeptClaims
<1>5. CASE /\ backfill[s].status \in {"NONE", "FAILED"} \/ (Claimed(s) /\ backfill[s].late)
           /\ backfill' = [backfill EXCEPT ![s] = row] /\ local' = [local EXCEPT ![w] = m1]
  <2>1. Prepares(m1) /\ Works(m1) /\ m1.scan = s
    BY <1>0, <1>1, <1>2 DEF Prepares, Works, Locals
  <2>2. local'[w] = m1 /\ \A v \in Workers : v # w => local'[v] = local[v]
    BY <1>1, <1>5
  <2>3. backfill'[s] = row /\ \A t \in 1..MaxScans : t # s => backfill'[t] = backfill[t]
    BY <1>1, <1>2, <1>5
  <2> HIDE DEF m1, m2
  <2>4. ASSUME NEW t \in 1..MaxScans, t # s PROVE Holder(t)' = Holder(t)
    <3>1. \A v \in Workers : (Works(local'[v]) /\ local'[v].scan = t) <=> (Works(local[v]) /\ local[v].scan = t)
      BY <1>0, <1>2, <2>1, <2>2, <2>4
    <3> QED
      BY <2>3, <2>4, <3>1, HolderKept
  <2>5. Holder(s)' = w
    <3>1. Claimed(s)' /\ Owns(w, s)'
      BY <2>3 DEF Claimed, Owns
    <3>2. Working(w)' /\ local'[w].scan = s
      BY <2>1, <2>2 DEF Working, Works
    <3>3. Held(s)'
      BY <3>1, <3>2 DEF Held
    <3> QED
      BY <2>3, <3>1, <3>3 DEF Holder
  <2>6. \A t \in 1..MaxScans : Holder(t) # w
    BY <1>2, HolderIs
  <2>7. Holder(s) = "nobody" \/ (Claimed(s) /\ backfill[s].late)
    BY <1>2, <1>5, HolderIs DEF Claimed
  <2>8. Belief(w) = 0 /\ Belief(w)' = s /\ \A v \in Workers : v # w => Belief(v)' = Belief(v)
    BY <1>2, <2>1, <2>2 DEF Belief, Working, Works
  <2>9. \A t \in 1..MaxScans : /\ Indexed(t)' = Indexed(t)
                               /\ (Claimed(t)' /\ backfill'[t].late) <=> (t # s /\ Claimed(t) /\ backfill[t].late)
    BY <1>2, <1>5, <2>3 DEF Indexed, Claimed
  <2>10. [t \in 1..MaxScans |-> Holder(t)]' = [[t \in 1..MaxScans |-> Holder(t)] EXCEPT ![s] = w]
    BY <1>2, <2>4, <2>5
  <2>11. {t \in 1..MaxScans : Claimed(t) /\ backfill[t].late}' = {t \in 1..MaxScans : Claimed(t) /\ backfill[t].late} \ {s}
    BY <2>9
  <2>12. [v \in Workers |-> Belief(v)]' = [[v \in Workers |-> Belief(v)] EXCEPT ![w] = s]
    BY <2>8
  <2>13. [t \in 1..MaxScans |-> Indexed(t)]' = [t \in 1..MaxScans |-> Indexed(t)]
    BY <2>9
  <2>14. SearchClaims!Take(w, s)
    BY <1>2, <2>6, <2>7, <2>8, <2>10, <2>11, <2>12, <2>13 DEF SearchClaims!Take
  <2>15. TaskInv'
    BY <2>1, <2>2 DEF TaskInv
  <2> QED
    BY <2>14, <2>15
<1> QED
  BY <1>3, <1>4, <1>5

(* The outcome of a file is its holder's; a worker that lost the file writes none. *)
LEMMA SaveReleases ==
    ASSUME Facts, TaskInv, NEW w \in Workers, SaveRow(w)
    PROVE  /\ \E s \in 1..MaxScans : SearchClaims!Make(w, s) \/ SearchClaims!Release(w, s) \/ SearchClaims!Lose(w, s)
           /\ TaskInv'
<1>0. PICK s \in 1..MaxScans : s = local[w].scan
  BY DEF Facts, LocalOK, LocalAt, SaveRow
<1> DEFINE row == [status |-> local[w].row, owner |-> "nobody", late |-> FALSE]
           m == [local[w] EXCEPT !.pc = "settle"]
<1>1. /\ local \in [Workers -> Locals] /\ local[w] \in Locals /\ backfill \in [1..MaxScans -> Rows]
      /\ local[w].pc = "save" /\ local[w].row \in {"INDEXED", "FAILED"}
  BY DEF Facts, SaveRow, LocalOK, LocalAt, Locals
<1>2. Works(local[w]) /\ Belief(w) = s
  BY <1>0, <1>1 DEF TaskInv, Prepares, Works, Belief, Working
<1>3. local' = [local EXCEPT ![w] = m] /\ backfill' = IF Owns(w, s) THEN [backfill EXCEPT ![s] = row] ELSE backfill
  BY <1>0 DEF SaveRow, Goto
<1>4. Prepares(m) /\ ~Works(m)
  BY <1>1, <1>2 DEF Prepares, Works, Locals
<1>5. local'[w] = m /\ \A v \in Workers : v # w => local'[v] = local[v]
  BY <1>1, <1>3
<1>6. TaskInv'
  BY <1>4, <1>5 DEF TaskInv
<1> HIDE DEF m
<1>7. Belief(w)' = 0 /\ \A v \in Workers : v # w => Belief(v)' = Belief(v)
  BY <1>4, <1>5 DEF Belief, Working, Works
<1>8. [v \in Workers |-> Belief(v)]' = [[v \in Workers |-> Belief(v)] EXCEPT ![w] = 0]
  BY <1>7
<1>9. CASE Owns(w, s)
  <2>1. backfill'[s] = row /\ \A t \in 1..MaxScans : t # s => backfill'[t] = backfill[t]
    BY <1>1, <1>3, <1>9
  <2>2. Holder(s) = w
    BY <1>0, <1>2, <1>9, HolderIs
  <2>3. Holder(s)' = "nobody"
    BY <1>1, <2>1 DEF Holder, Claimed
  <2>4. ASSUME NEW t \in 1..MaxScans, t # s PROVE Holder(t)' = Holder(t)
    <3>1. \A v \in Workers : (Works(local'[v]) /\ local'[v].scan = t) <=> (Works(local[v]) /\ local[v].scan = t)
      BY <1>0, <1>4, <1>5, <2>4
    <3> QED
      BY <2>1, <2>4, <3>1, HolderKept
  <2>5. [t \in 1..MaxScans |-> Holder(t)]' = [[t \in 1..MaxScans |-> Holder(t)] EXCEPT ![s] = "nobody"]
    BY <2>3, <2>4
  <2>6. \A t \in 1..MaxScans : (Claimed(t)' /\ backfill'[t].late) <=> (t # s /\ Claimed(t) /\ backfill[t].late)
    BY <1>1, <2>1 DEF Claimed
  <2>7. {t \in 1..MaxScans : Claimed(t) /\ backfill[t].late}' = {t \in 1..MaxScans : Claimed(t) /\ backfill[t].late} \ {s}
    BY <2>6
  <2>8. Indexed(s) = 0 /\ \A t \in 1..MaxScans : t # s => Indexed(t)' = Indexed(t)
    BY <1>9, <2>1 DEF Indexed, Owns, Claimed
  <2>9. CASE local[w].row = "INDEXED"
    <3>1. Indexed(s)' = 1
      BY <2>1, <2>9 DEF Indexed
    <3>2. [t \in 1..MaxScans |-> Indexed(t)]' = [[t \in 1..MaxScans |-> Indexed(t)] EXCEPT ![s] = 1]
      BY <2>8, <3>1
    <3>3. SearchClaims!Make(w, s)
      BY <1>2, <1>8, <2>2, <2>5, <2>7, <2>8, <3>2 DEF SearchClaims!Make
    <3> QED
      BY <1>6, <3>3
  <2>10. CASE local[w].row = "FAILED"
    <3>1. Indexed(s)' = 0
      BY <2>1, <2>10 DEF Indexed
    <3>2. [t \in 1..MaxScans |-> Indexed(t)]' = [t \in 1..MaxScans |-> Indexed(t)]
      BY <2>8, <3>1
    <3>3. SearchClaims!Release(w, s)
      BY <1>2, <1>8, <2>2, <2>5, <2>7, <3>2 DEF SearchClaims!Release
    <3> QED
      BY <1>6, <3>3
  <2> QED
    BY <1>1, <2>9, <2>10
<1>10. CASE ~Owns(w, s)
  <2>1. backfill' = backfill
    BY <1>3, <1>10
  <2>2. \A t \in 1..MaxScans : Holder(t) # w
    BY <1>0, <1>10, HolderIs
  <2>3. \A t \in 1..MaxScans, v \in Workers :
            Owns(v, t) => ((Works(local'[v]) /\ local'[v].scan = t) <=> (Works(local[v]) /\ local[v].scan = t))
    BY <1>0, <1>4, <1>5, <1>10
  <2>4. \A t \in 1..MaxScans : Holder(t)' = Holder(t)
    BY <2>1, <2>3, HolderKept
  <2>5. \A t \in 1..MaxScans : Indexed(t)' = Indexed(t) /\ (Claimed(t)' <=> Claimed(t)) /\ backfill'[t].late = backfill[t].late
    BY <2>1 DEF Indexed, Claimed
  <2>6. /\ [t \in 1..MaxScans |-> Holder(t)]' = [t \in 1..MaxScans |-> Holder(t)]
        /\ [t \in 1..MaxScans |-> Indexed(t)]' = [t \in 1..MaxScans |-> Indexed(t)]
    BY <2>4, <2>5
  <2>7. {t \in 1..MaxScans : Claimed(t) /\ backfill[t].late}' = {t \in 1..MaxScans : Claimed(t) /\ backfill[t].late}
    BY <2>5
  <2>8. SearchClaims!Lose(w, s)
    BY <1>2, <1>8, <2>2, <2>6, <2>7 DEF SearchClaims!Lose
  <2> QED
    BY <1>6, <2>8
<1> QED
  BY <1>9, <1>10

(* The time of a claim passes, and its holder stays until somebody takes over. *)
LEMMA ExpiryLapses ==
    ASSUME Facts, TaskInv, NEW s \in 1..MaxScans, ExpireClaim(s)
    PROVE  SearchClaims!Lapse(s) /\ TaskInv'
<1>1. /\ backfill \in [1..MaxScans -> Rows] /\ Claimed(s) /\ local' = local
      /\ backfill' = [backfill EXCEPT ![s].late = TRUE]
  BY DEF Facts, ExpireClaim
<1>2. /\ backfill'[s].late = TRUE
      /\ \A t \in 1..MaxScans : /\ backfill'[t].status = backfill[t].status /\ backfill'[t].owner = backfill[t].owner
                                /\ t # s => backfill'[t].late = backfill[t].late
  BY <1>1 DEF Rows
<1>3. \A t \in 1..MaxScans : Holder(t)' = Holder(t)
  BY <1>1, <1>2, HolderKept
<1>4. \A t \in 1..MaxScans : /\ Indexed(t)' = Indexed(t)
                             /\ (Claimed(t)' /\ backfill'[t].late) <=> (t = s \/ (Claimed(t) /\ backfill[t].late))
  BY <1>1, <1>2 DEF Indexed, Claimed
<1>5. \A v \in Workers : Belief(v)' = Belief(v)
  BY <1>1 DEF Belief, Working
<1>6. /\ [t \in 1..MaxScans |-> Holder(t)]' = [t \in 1..MaxScans |-> Holder(t)]
      /\ [t \in 1..MaxScans |-> Indexed(t)]' = [t \in 1..MaxScans |-> Indexed(t)]
      /\ [v \in Workers |-> Belief(v)]' = [v \in Workers |-> Belief(v)]
  BY <1>3, <1>4, <1>5
<1>7. {t \in 1..MaxScans : Claimed(t) /\ backfill[t].late}' = {t \in 1..MaxScans : Claimed(t) /\ backfill[t].late} \cup {s}
  BY <1>4
<1>8. [t \in 1..MaxScans |-> Holder(t)][s] # "nobody"
  <2>1. Holder(s) # "nobody"
    BY <1>1, PublicationAssumption DEF Holder, Held, Owns
  <2> QED
    BY <2>1
<1> QED
  BY <1>1, <1>6, <1>7, <1>8 DEF SearchClaims!Lapse, TaskInv

(* A worker dies: the row it held is nobody's to use. *)
LEMMA DeathOrphans ==
    ASSUME Facts, TaskInv, NEW w \in Workers, WorkerDies(w)
    PROVE  SearchClaims!Die(w) /\ TaskInv'
<1>1. local \in [Workers -> Locals] /\ backfill' = backfill /\ local' = [local EXCEPT ![w] = Idle]
  BY DEF Facts, WorkerDies, Finish
<1>2. Prepares(Idle) /\ ~Works(Idle)
  BY DEF Idle, Prepares, Works
<1>3. local'[w] = Idle /\ \A v \in Workers : v # w => local'[v] = local[v]
  BY <1>1
<1>4. TaskInv'
  BY <1>2, <1>3 DEF TaskInv
<1>5. Belief(w)' = 0 /\ \A v \in Workers : v # w => Belief(v)' = Belief(v)
  BY <1>2, <1>3 DEF Belief, Working, Works
<1>6. ASSUME NEW s \in 1..MaxScans PROVE Holder(s)' = IF Holder(s) = w THEN "orphan" ELSE Holder(s)
  <2>1. CASE Holder(s) = w
    <3>1. Owns(w, s)
      BY <2>1, HolderIs
    <3>2. Claimed(s)' /\ \A v \in Workers : Owns(v, s)' => v = w
      BY <1>1, <3>1 DEF Owns, Claimed
    <3>3. ~Working(w)'
      BY <1>2, <1>3 DEF Working, Works
    <3>4. ~Held(s)'
      BY <3>2, <3>3 DEF Held
    <3> QED
      BY <2>1, <3>2, <3>4 DEF Holder
  <2>2. CASE Holder(s) # w
    <3>1. Owns(w, s) => ~(Works(local[w]) /\ local[w].scan = s)
      BY <2>2, HolderIs
    <3>2. \A v \in Workers : Owns(v, s) => ((Works(local'[v]) /\ local'[v].scan = s)
                                             <=> (Works(local[v]) /\ local[v].scan = s))
      BY <1>2, <1>3, <3>1
    <3> QED
      BY <1>1, <2>2, <3>2, HolderKept
  <2> QED
    BY <2>1, <2>2
<1>7. \A s \in 1..MaxScans : Indexed(s)' = Indexed(s) /\ (Claimed(s)' <=> Claimed(s)) /\ backfill'[s].late = backfill[s].late
  BY <1>1 DEF Indexed, Claimed
<1>8. [s \in 1..MaxScans |-> Holder(s)]' =
         [s \in 1..MaxScans |-> IF [t \in 1..MaxScans |-> Holder(t)][s] = w THEN "orphan"
                                ELSE [t \in 1..MaxScans |-> Holder(t)][s]]
  BY <1>6
<1>9. [v \in Workers |-> Belief(v)]' = [[v \in Workers |-> Belief(v)] EXCEPT ![w] = 0]
  BY <1>5
<1>10. /\ [s \in 1..MaxScans |-> Indexed(s)]' = [s \in 1..MaxScans |-> Indexed(s)]
       /\ {s \in 1..MaxScans : Claimed(s) /\ backfill[s].late}' = {s \in 1..MaxScans : Claimed(s) /\ backfill[s].late}
  BY <1>7
<1> QED
  BY <1>4, <1>8, <1>9, <1>10 DEF SearchClaims!Die

-----------------------------------------------------------------------------

(* Every step is one of the contract or leaves its variables alone. *)
LEMMA ClaimsStep ==
    ASSUME Inv, TaskInv, [Next]_vars PROVE [SearchClaims!Next]_(SearchClaims!vars) /\ TaskInv'
<1>1. Facts /\ local \in [Workers -> Locals]
  BY FactsHold DEF Facts
<1>2. ASSUME NEW w \in Workers, AtNoFile(w) \/ BeginIndex(w) \/ CommitIndex(w) \/ AbortIndex(w)
      PROVE  UNCHANGED SearchClaims!vars /\ TaskInv'
  <2>1. KeepsClaims(w)
    BY <1>1, <1>2, NoFileKeeps, IndexKeeps
  <2> QED
    BY <1>1, <2>1, KeptClaims
<1>3. ASSUME NEW w \in Workers, ClaimFile(w) PROVE [SearchClaims!Next]_(SearchClaims!vars) /\ TaskInv'
  BY <1>1, <1>3, ClaimTakes DEF SearchClaims!Next
<1>4. ASSUME NEW w \in Workers, SaveRow(w) PROVE SearchClaims!Next /\ TaskInv'
  BY <1>1, <1>4, SaveReleases DEF SearchClaims!Next
<1>5. ASSUME NEW w \in Workers, WorkerDies(w) PROVE SearchClaims!Next /\ TaskInv'
  BY <1>1, <1>5, DeathOrphans DEF SearchClaims!Next
<1>6. ASSUME NEW s \in 1..MaxScans, ExpireClaim(s) PROVE SearchClaims!Next /\ TaskInv'
  BY <1>1, <1>6, ExpiryLapses DEF SearchClaims!Next
<1>7. CASE UNCHANGED <<backfill, local>>
  BY <1>7, StillClaims
<1>8. \/ \E w \in Workers : \/ AtNoFile(w) \/ BeginIndex(w) \/ CommitIndex(w) \/ AbortIndex(w)
                            \/ ClaimFile(w) \/ SaveRow(w) \/ WorkerDies(w)
      \/ \E s \in 1..MaxScans : ExpireClaim(s)
      \/ UNCHANGED <<backfill, local>>
  BY DEF Next, vars, PublishStep, PrepareStep, IndexStep, AtNoFile, SaveDecision, ReviewIdentity, StartScan,
         CompleteScan, ReopenScan, StartPhysicalRun, SettlePhysicalRun, ChangeGrant
<1> QED
  BY <1>2, <1>3, <1>4, <1>5, <1>6, <1>7, <1>8

(* claimSearchFile and prepareSearchBatch implement the contract of a claim: a
   file is prepared by one worker at a time and INDEXED once, and a preparation
   whose claim was taken over writes no row, whoever dies, stalls or fails. *)
THEOREM PreparationImplementsOwnedWork == Spec => ImplementsOwnedWork
<1>1. Init => SearchClaims!Init /\ TaskInv
  <2> SUFFICES ASSUME Init PROVE SearchClaims!Init /\ TaskInv
    OBVIOUS
  <2>1. \A s \in 1..MaxScans : ~Claimed(s) /\ Holder(s) = "nobody" /\ Indexed(s) = 0
    BY DEF Init, Claimed, Holder, Indexed
  <2>2. \A w \in Workers : local[w] = Idle
    BY DEF Init
  <2>3. \A w \in Workers : Belief(w) = 0 /\ Prepares(local[w])
    BY <2>2 DEF Belief, Working, Idle, Prepares
  <2> QED
    BY <2>1, <2>3 DEF SearchClaims!Init, TaskInv
<1>2. Inv /\ TaskInv /\ [Next]_vars => [SearchClaims!Next]_(SearchClaims!vars) /\ TaskInv'
  BY ClaimsStep
<1> QED
  BY Invariance, <1>1, <1>2, PTL DEF Spec, ImplementsOwnedWork, SearchClaims!Spec
==============================================================================
