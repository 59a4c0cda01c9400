------------------------- MODULE InventoryScanProofs -------------------------
(***************************************************************************)
(* Proofs about InventoryScan, for any runs, files and requests and any    *)
(* number of scans, faults and reconnections: an inventory that is current *)
(* saw every authorised effect, an imported session holds one inventory,   *)
(* and a reconciliation completes only against an inventory younger than   *)
(* the outcomes of its run.                                                *)
(***************************************************************************)
EXTENDS InventoryScan, TLAPS

-----------------------------------------------------------------------------
(* The types of TypeOK, by variable, and the requests it leaves open. *)

RootType == [rev : Nat, readable : BOOLEAN, gen : Nat, device : BOOLEAN]
DiskType == [files : Inventories, effects : Nat]
RunType == [work : WorkStates, undo : WorkStates, effect : Nat,
            recon : {"NOT_STARTED", "REQUIRED", "IN_PROGRESS", "COMPLETED"},
            epoch : Nat, scan : Scans \cup {None}, rev : Nat]
ScanType == [status : {"NONE", "SCANNING", "READING", "COMPLETED", "FAILED"},
             gen : Nat, started : Nat, seen : Nat, hash : {None} \cup Inventories,
             rows : Inventories, published : BOOLEAN, imported : BOOLEAN]
CommandType == [status : {"NONE", "OPEN", "CLOSED"}, rev : Nat]
ReportType == [files : {None} \cup Inventories, seen : Nat]
CountType == [events : 0..MaxEvents, changes : 0..MaxFileChanges]

Owning == {"store", "media", "finish"}
Stored == {"media", "finish"}
Imports == {"claim", "replay"} \cup Owning
Walking == {"walk", "import"}
Holding == Imports \cup {"report", "inspect", "complete"}
Recovering == {"admit", "inspect", "complete"}

Requests == [pc : {"idle"} \cup Walking \cup Holding \cup Recovering,
             scan : Scans \cup {None}, run : Runs \cup {None}, files : Inventories,
             seen : Nat, gen : Nat, rev : Nat, started : Nat, epoch : Nat]

Typed ==
    /\ root \in RootType
    /\ disk \in DiskType
    /\ run \in [Runs -> RunType]
    /\ scan \in [Scans -> ScanType]
    /\ command \in [Scans -> CommandType]
    /\ report \in [Scans -> ReportType]
    /\ clock \in Nat
    /\ counts \in CountType
    /\ local \in [Workers -> Requests]

(* A request knows the scan it imports or inspects and the run it recovers. *)
LocalTyped ==
    \A w \in Workers : /\ local[w].pc \in Holding => local[w].scan \in Scans
                       /\ local[w].pc \in Recovering => local[w].run \in Runs

(* A scan that does not exist has no command, report or rows; one that awaits
   its inventory holds a part of the one that owns it. *)
ScanInv ==
    \A s \in Scans :
        /\ scan[s].gen <= root.gen
        /\ scan[s].status = "NONE" =>
              command[s].status = "NONE" /\ report[s].files = None /\ scan[s].rows = {}
        /\ scan[s].imported => scan[s].status \notin {"NONE", "SCANNING"} /\ scan[s].rows = scan[s].hash
        /\ scan[s].status = "SCANNING" =>
              IF scan[s].hash = None THEN scan[s].rows = {} ELSE scan[s].rows \subseteq scan[s].hash

(* While its scan awaits an inventory, the request that claimed it imports the
   owner's, and one past its last page stored all of it. *)
ImportInv ==
    \A w \in Workers :
        /\ local[w].pc \in Imports =>
              /\ scan[local[w].scan].status # "NONE"
              /\ scan[local[w].scan].status = "SCANNING" =>
                    /\ local[w].pc \in Owning => scan[local[w].scan].hash = local[w].files
                    /\ local[w].pc \in Stored => scan[local[w].scan].rows = local[w].files
        /\ local[w].pc \in Walking => local[w].gen <= root.gen

(* No effect waits for its publication. *)
Quiet == \A r \in Runs : run[r].work # "EFFECT" /\ run[r].undo # "EFFECT"

(* Whatever was discovered under the current generation, in a report, in a
   request or in a session, saw every effect: an unpublished one is still to
   begin a new generation. *)
SeenInv ==
    Quiet =>
        /\ \A s \in Scans : scan[s].gen = root.gen =>
              /\ report[s].files # None => report[s].seen = disk.effects
              /\ scan[s].imported => scan[s].seen = disk.effects
        /\ \A w \in Workers :
              /\ local[w].pc \in Imports /\ scan[local[w].scan].gen = root.gen
                    => local[w].seen = disk.effects
              /\ local[w].pc = "import" /\ local[w].gen = root.gen => local[w].seen = disk.effects

(* A reconciliation belongs to a run that settled; one that completed names a
   scan that is no longer waiting for its inventory and, unless an effect of
   the Undo is still to be published, saw the last effect of both. *)
ReconInv ==
    \A r \in Runs :
        /\ run[r].effect <= disk.effects
        /\ run[r].recon # "NOT_STARTED" \/ run[r].undo # "NONE" => run[r].work = "SETTLED"
        /\ run[r].recon = "COMPLETED" /\ run[r].undo # "EFFECT" =>
              /\ run[r].scan \in Scans
              /\ scan[run[r].scan].status \notin {"NONE", "SCANNING"}
              /\ scan[run[r].scan].imported => scan[run[r].scan].seen >= run[r].effect

Inv == Typed /\ LocalTyped /\ ScanInv /\ ImportInv /\ SeenInv /\ ReconInv

-----------------------------------------------------------------------------
(* Steps that begin no scan and take in no inventory. *)

(* The scan keeps its inventory; its status moves on, never back to waiting. *)
Mild(s) ==
    /\ scan'[s].gen = scan[s].gen /\ scan'[s].seen = scan[s].seen
    /\ scan'[s].hash = scan[s].hash /\ scan'[s].rows = scan[s].rows
    /\ scan'[s].imported = scan[s].imported
    /\ \/ scan'[s].status = scan[s].status
       \/ scan[s].status # "NONE" /\ scan'[s].status \notin {"NONE", "SCANNING"}

(* What was discovered is as current as before: nothing happened to the disk,
   or an effect waits for its publication, or a new generation began. *)
Settled ==
    \/ ~Quiet'
    \/ root'.gen > root.gen
    \/ root'.gen = root.gen /\ disk'.effects = disk.effects /\ Quiet

(* A request ends its import, or begins a walk under the current generation. *)
Leaves(w) ==
    \/ local'[w] = local[w]
    \/ local'[w].pc \notin Imports \cup Walking
    \/ local'[w].pc = "walk" /\ local'[w].gen = root.gen

Calm ==
    /\ \A s \in Scans : Mild(s)
    /\ \A s \in Scans : command[s].status = "NONE" => command'[s].status = "NONE"
    /\ report' = report
    /\ root'.gen >= root.gen
    /\ Settled
    /\ \A w \in Workers : Leaves(w)

(* Such a step keeps what is known of scans and of the requests that import them. *)
LEMMA CalmKeeps ==
    ASSUME Inv, Typed', LocalTyped', Calm
    PROVE  ScanInv' /\ ImportInv' /\ SeenInv'
<1>1. ScanInv'
  <2> SUFFICES ASSUME NEW s \in Scans
               PROVE  /\ scan'[s].gen <= root'.gen
                      /\ scan'[s].status = "NONE" =>
                            command'[s].status = "NONE" /\ report'[s].files = None /\ scan'[s].rows = {}
                      /\ scan'[s].imported => scan'[s].status \notin {"NONE", "SCANNING"} /\ scan'[s].rows = scan'[s].hash
                      /\ scan'[s].status = "SCANNING" =>
                            IF scan'[s].hash = None THEN scan'[s].rows = {} ELSE scan'[s].rows \subseteq scan'[s].hash
    BY DEF ScanInv
  <2>1. scan[s].gen \in Nat /\ root.gen \in Nat /\ root'.gen \in Nat
    BY DEF Inv, Typed, RootType, ScanType
  <2>2. Mild(s) /\ (command[s].status = "NONE" => command'[s].status = "NONE") /\ report' = report /\ root'.gen >= root.gen
    BY DEF Calm
  <2> QED
    BY <2>1, <2>2 DEF Inv, ScanInv, Mild
<1>2. ImportInv'
  <2> SUFFICES ASSUME NEW w \in Workers
               PROVE  /\ local'[w].pc \in Imports =>
                            /\ scan'[local'[w].scan].status # "NONE"
                            /\ scan'[local'[w].scan].status = "SCANNING" =>
                                  /\ local'[w].pc \in Owning => scan'[local'[w].scan].hash = local'[w].files
                                  /\ local'[w].pc \in Stored => scan'[local'[w].scan].rows = local'[w].files
                      /\ local'[w].pc \in Walking => local'[w].gen <= root'.gen
    BY DEF ImportInv
  <2>1. local[w].gen \in Nat /\ root.gen \in Nat /\ root'.gen \in Nat
    BY DEF Inv, Typed, RootType, Requests
  <2>2. Leaves(w) /\ root'.gen >= root.gen
    BY DEF Calm
  <2>3. CASE local'[w] = local[w]
    <3>1. local[w].pc \in Imports => local[w].scan \in Scans /\ Mild(local[w].scan)
      BY DEF Inv, LocalTyped, Holding, Calm
    <3> QED
      BY <2>1, <2>2, <2>3, <3>1 DEF Inv, ImportInv, Mild
  <2>4. CASE local'[w] # local[w]
    BY <2>1, <2>2, <2>4 DEF Leaves, Imports, Owning, Walking
  <2> QED
    BY <2>3, <2>4
<1>3. SeenInv'
  <2> SUFFICES ASSUME Quiet'
               PROVE  /\ \A s \in Scans : scan'[s].gen = root'.gen =>
                            /\ report'[s].files # None => report'[s].seen = disk'.effects
                            /\ scan'[s].imported => scan'[s].seen = disk'.effects
                      /\ \A w \in Workers :
                            /\ local'[w].pc \in Imports /\ scan'[local'[w].scan].gen = root'.gen
                                  => local'[w].seen = disk'.effects
                            /\ local'[w].pc = "import" /\ local'[w].gen = root'.gen => local'[w].seen = disk'.effects
    BY DEF SeenInv
  <2>1. CASE root'.gen > root.gen
    <3>1. root.gen \in Nat /\ root'.gen \in Nat
      BY DEF Inv, Typed, RootType
    <3>2. ASSUME NEW s \in Scans PROVE scan'[s].gen # root'.gen
      <4>1. scan[s].gen \in Nat /\ scan[s].gen <= root.gen
        BY DEF Inv, Typed, ScanType, ScanInv
      <4>2. Mild(s)
        BY DEF Calm
      <4> QED
        BY <2>1, <3>1, <4>1, <4>2 DEF Mild
    <3>3. ASSUME NEW w \in Workers, local'[w].pc \in Imports PROVE scan'[local'[w].scan].gen # root'.gen
      BY <3>2, <3>3 DEF LocalTyped, Holding
    <3>4. ASSUME NEW w \in Workers, local'[w].pc = "import" PROVE local'[w].gen # root'.gen
      <4>1. local'[w] = local[w]
        BY <3>4 DEF Calm, Leaves, Walking
      <4>2. local[w].gen \in Nat /\ local[w].gen <= root.gen
        BY <3>4, <4>1 DEF Inv, Typed, Requests, ImportInv, Walking
      <4> QED
        BY <2>1, <3>1, <4>1, <4>2
    <3> QED
      BY <3>2, <3>3, <3>4
  <2>2. CASE root'.gen = root.gen /\ disk'.effects = disk.effects /\ Quiet
    <3>1. ASSUME NEW s \in Scans, scan'[s].gen = root'.gen
          PROVE  /\ report'[s].files # None => report'[s].seen = disk'.effects
                 /\ scan'[s].imported => scan'[s].seen = disk'.effects
      <4>1. Mild(s) /\ report' = report
        BY DEF Calm
      <4> QED
        BY <2>2, <3>1, <4>1 DEF Inv, SeenInv, Mild
    <3>2. ASSUME NEW w \in Workers
          PROVE  /\ local'[w].pc \in Imports /\ scan'[local'[w].scan].gen = root'.gen
                       => local'[w].seen = disk'.effects
                 /\ local'[w].pc = "import" /\ local'[w].gen = root'.gen => local'[w].seen = disk'.effects
      <4>1. CASE local'[w] = local[w]
        <5>1. local[w].pc \in Imports => Mild(local[w].scan)
          BY DEF Inv, LocalTyped, Holding, Calm
        <5> QED
          BY <2>2, <4>1, <5>1 DEF Inv, SeenInv, Mild
      <4>2. CASE local'[w] # local[w]
        BY <4>2 DEF Calm, Leaves, Imports, Owning, Walking
      <4> QED
        BY <4>1, <4>2
    <3> QED
      BY <3>1, <3>2
  <2> QED
    BY <2>1, <2>2 DEF Calm, Settled
<1> QED
  BY <1>1, <1>2, <1>3

(* A reconciliation stays owed or done unless the step completes it, and the
   scan it names is past its import. *)
LEMMA ReconKept ==
    ASSUME Inv, Typed', disk'.effects >= disk.effects,
           \A s \in Scans : scan[s].status \in {"NONE", "SCANNING"} \/ Mild(s),
           \A r \in Runs :
               /\ run'[r].effect = run[r].effect
               /\ run'[r].recon # "NOT_STARTED" \/ run'[r].undo # "NONE" => run'[r].work = "SETTLED"
               /\ run'[r].recon = "COMPLETED" /\ run'[r].undo # "EFFECT" =>
                     run[r].recon = "COMPLETED" /\ run[r].undo # "EFFECT" /\ run'[r].scan = run[r].scan
    PROVE  ReconInv'
<1> SUFFICES ASSUME NEW r \in Runs
             PROVE  /\ run'[r].effect <= disk'.effects
                    /\ run'[r].recon = "COMPLETED" /\ run'[r].undo # "EFFECT" =>
                          /\ run'[r].scan \in Scans
                          /\ scan'[run'[r].scan].status \notin {"NONE", "SCANNING"}
                          /\ scan'[run'[r].scan].imported => scan'[run'[r].scan].seen >= run'[r].effect
  BY DEF ReconInv
<1>1. run[r].effect \in Nat /\ disk.effects \in Nat /\ disk'.effects \in Nat
  BY DEF Inv, Typed, RunType, DiskType
<1>2. run'[r].effect <= disk'.effects
  BY <1>1 DEF Inv, ReconInv
<1>3. ASSUME run'[r].recon = "COMPLETED" /\ run'[r].undo # "EFFECT"
      PROVE  /\ run'[r].scan \in Scans
             /\ scan'[run'[r].scan].status \notin {"NONE", "SCANNING"}
             /\ scan'[run'[r].scan].imported => scan'[run'[r].scan].seen >= run'[r].effect
  <2>1. PICK s \in Scans : /\ run[r].scan = s /\ scan[s].status \notin {"NONE", "SCANNING"}
                           /\ scan[s].imported => scan[s].seen >= run[r].effect
    BY <1>3 DEF Inv, ReconInv
  <2>2. Mild(s) /\ run'[r].scan = s
    BY <1>3, <2>1
  <2> QED
    BY <2>1, <2>2 DEF Mild
<1> QED
  BY <1>2, <1>3
-----------------------------------------------------------------------------
(* What the parts of a step do. *)

(* A request is replaced by another one. *)
LEMMA RequestMoves ==
    ASSUME Typed, LocalTyped, NEW w \in Workers, NEW x \in Requests, local' = [local EXCEPT ![w] = x],
           x.pc \in Holding => x.scan \in Scans, x.pc \in Recovering => x.run \in Runs
    PROVE  /\ local' \in [Workers -> Requests] /\ LocalTyped'
           /\ \A v \in Workers : v # w => local'[v] = local[v]
           /\ local'[w] = x
<1>1. /\ local' \in [Workers -> Requests] /\ local'[w] = x
      /\ \A v \in Workers : v # w => local'[v] = local[v]
  BY DEF Typed
<1> QED
  BY <1>1 DEF LocalTyped

(* A request that ends, or goes on to something other than an import. *)
LEMMA RequestLeaves ==
    ASSUME Typed, LocalTyped, NEW w \in Workers, NEW x \in Requests, local' = [local EXCEPT ![w] = x],
           x.pc \in Holding => x.scan \in Scans, x.pc \in Recovering => x.run \in Runs,
           x.pc \notin Imports \cup Walking \/ (x.pc = "walk" /\ x.gen = root.gen)
    PROVE  local' \in [Workers -> Requests] /\ LocalTyped' /\ \A v \in Workers : Leaves(v)
BY RequestMoves DEF Leaves

(* A request that carries nothing is well typed. *)
LEMMA IdleTyped == Idle \in Requests /\ Idle.pc = "idle"
BY DEF Idle, Requests, Inventories

(* A request that ends leaves its import. *)
LEMMA RequestEnds ==
    ASSUME Typed, LocalTyped, NEW w \in Workers, Finish(w)
    PROVE  local' \in [Workers -> Requests] /\ LocalTyped' /\ \A v \in Workers : Leaves(v)
<1>1. Idle.pc \notin Holding /\ Idle.pc \notin Recovering /\ Idle.pc \notin Imports \cup Walking
  BY IdleTyped DEF Holding, Recovering, Imports, Owning, Walking
<1> QED
  BY <1>1, IdleTyped, RequestLeaves DEF Finish

(* Requests that do nothing stay well formed. *)
LEMMA RequestsKeep ==
    ASSUME Typed, LocalTyped, UNCHANGED local
    PROVE  local' \in [Workers -> Requests] /\ LocalTyped' /\ \A v \in Workers : Leaves(v)
BY DEF Typed, LocalTyped, Leaves

(* Close opens no command. *)
LEMMA CommandsClose ==
    ASSUME Typed, NEW S, command' = Close(S)
    PROVE  /\ command' \in [Scans -> CommandType]
           /\ \A s \in Scans : command[s].status = "NONE" => command'[s].status = "NONE"
<1>1. ASSUME NEW s \in Scans
      PROVE  command'[s] \in CommandType /\ (command[s].status = "NONE" => command'[s].status = "NONE")
  BY DEF Typed, Close, CommandType
<1>2. command' = [s \in Scans |-> command'[s]]
  BY DEF Close
<1> QED
  BY <1>1, <1>2

(* Scans that are left alone keep their inventory. *)
LEMMA ScansKeep == ASSUME UNCHANGED scan PROVE \A s \in Scans : Mild(s)
BY DEF Mild

(* One scan moves on. *)
LEMMA ScanMoves ==
    ASSUME Typed, NEW s \in Scans, NEW x \in {"READING", "COMPLETED", "FAILED"},
           scan[s].status # "NONE" \/ x = scan[s].status, scan' = [scan EXCEPT ![s].status = x]
    PROVE  scan' \in [Scans -> ScanType] /\ \A t \in Scans : Mild(t)
<1>1. /\ scan'[s] = [scan[s] EXCEPT !.status = x] /\ scan[s] \in ScanType
      /\ \A t \in Scans : t # s => scan'[t] = scan[t]
  BY DEF Typed
<1>2. scan'[s] \in ScanType /\ Mild(s)
  BY <1>1 DEF ScanType, Mild
<1>3. \A t \in Scans : t # s => Mild(t)
  BY <1>1 DEF Mild
<1> QED
  BY <1>2, <1>3 DEF Typed

(* Some active scans fail. *)
LEMMA ScansFail ==
    ASSUME Typed, NEW S, scan' = [s \in Scans |-> IF s \in S /\ Active(s)
                                                  THEN [scan[s] EXCEPT !.status = "FAILED"] ELSE scan[s]]
    PROVE  scan' \in [Scans -> ScanType] /\ \A s \in Scans : Mild(s)
<1>1. ASSUME NEW s \in Scans PROVE scan'[s] \in ScanType /\ Mild(s)
  <2>1. CASE s \in S /\ Active(s)
    <3>1. scan'[s] = [scan[s] EXCEPT !.status = "FAILED"] /\ scan[s] \in ScanType
      BY <2>1 DEF Typed
    <3>2. scan[s].status # "NONE"
      BY <2>1 DEF Active
    <3> QED
      BY <3>1, <3>2 DEF ScanType, Mild
  <2>2. CASE ~(s \in S /\ Active(s))
    BY <2>2 DEF Typed, Mild
  <2> QED
    BY <2>1, <2>2
<1> QED
  BY <1>1

(* The obligation of an outcome. *)
LEMMA RunRequired ==
    ASSUME Typed, NEW r \in Runs, NEW work \in WorkStates, NEW undo \in WorkStates,
           run' = Required(r, work, undo)
    PROVE  /\ run' \in [Runs -> RunType]
           /\ \A q \in Runs : q # r => run'[q] = run[q]
           /\ run'[r].work = work /\ run'[r].undo = undo
           /\ run'[r].effect = run[r].effect /\ run'[r].recon = "REQUIRED"
<1> DEFINE new == [run[r] EXCEPT !.work = work, !.undo = undo, !.recon = "REQUIRED",
                                 !.epoch = run[r].epoch + 1, !.scan = None, !.rev = 0]
<1>1. run[r] \in RunType
  BY DEF Typed
<1>2. /\ new.work = work /\ new.undo = undo
      /\ new.effect = run[r].effect /\ new.recon = "REQUIRED"
  BY <1>1, Zenon DEF RunType
<1>3. new \in RunType
  <2>1. \A x \in RunType, v \in WorkStates : [x EXCEPT !.work = v] \in RunType /\ [x EXCEPT !.undo = v] \in RunType
    BY DEF RunType
  <2>2. \A x \in RunType, n \in Nat : [x EXCEPT !.epoch = n] \in RunType /\ [x EXCEPT !.rev = n] \in RunType
    BY DEF RunType
  <2>3. \A x \in RunType : [x EXCEPT !.recon = "REQUIRED"] \in RunType /\ [x EXCEPT !.scan = None] \in RunType
    BY DEF RunType
  <2>4. run[r].epoch + 1 \in Nat
    BY <1>1 DEF RunType
  <2> QED
    BY <1>1, <2>1, <2>2, <2>3, <2>4
<1>4. run' = [run EXCEPT ![r] = new]
  BY Zenon DEF Required
<1> HIDE DEF new
<1>5. run'[r] = new /\ \A q \in Runs : q # r => run'[q] = run[q]
  BY <1>4 DEF Typed
<1> QED
  BY <1>2, <1>3, <1>4, <1>5 DEF Typed

(* An event stays within its bound. *)
LEMMA EventCounted == ASSUME Typed, Event PROVE counts' \in CountType
BY InventoryAssumption DEF Typed, Event, CountType

(* Nothing happened that publishes or makes an effect. *)
LEMMA NothingPublished ==
    ASSUME root'.gen = root.gen, disk'.effects = disk.effects,
           \A r \in Runs : /\ run[r].work = "EFFECT" => run'[r].work = "EFFECT"
                           /\ run[r].undo = "EFFECT" => run'[r].undo = "EFFECT"
    PROVE  Settled
BY DEF Settled, Quiet

(* The generation, the revision and the disk are well typed. *)
LEMMA GenerationTyped == ASSUME Typed PROVE root.gen \in Nat /\ root.rev \in Nat /\ disk.effects \in Nat /\ disk.files \in Inventories
BY DEF Typed, RootType, DiskType

(* The reconciliations are untouched. *)
LEMMA RunsKeep ==
    ASSUME Inv, Typed', UNCHANGED run, disk'.effects >= disk.effects,
           \A s \in Scans : scan[s].status \in {"NONE", "SCANNING"} \/ Mild(s)
    PROVE  ReconInv'
<1>1. \A r \in Runs : run[r].recon # "NOT_STARTED" \/ run[r].undo # "NONE" => run[r].work = "SETTLED"
  BY DEF Inv, ReconInv
<1> QED
  BY <1>1, ReconKept

(* A request ends and nothing else happens. *)
LEMMA OnlyRequest ==
    ASSUME Inv, UNCHANGED <<root, disk, run, scan, command, report, clock>>, counts' \in CountType,
           local' \in [Workers -> Requests], LocalTyped', \A v \in Workers : Leaves(v)
    PROVE  Inv'
<1>1. Typed'
  BY DEF Inv, Typed
<1>2. root.gen \in Nat /\ disk.effects \in Nat
  BY GenerationTyped DEF Inv
<1>3. Settled
  BY NothingPublished
<1>4. Calm
  BY <1>2, <1>3, ScansKeep DEF Calm
<1>5. ReconInv'
  BY <1>1, <1>2, RunsKeep, ScansKeep
<1> QED
  BY <1>1, <1>4, <1>5, CalmKeeps DEF Inv
-----------------------------------------------------------------------------
(* Runs. *)

(* The work of one run moves on, and nothing else. *)
LEMMA RunMoves ==
    ASSUME Inv, NEW r \in Runs, NEW x \in RunType, run' = [run EXCEPT ![r] = x],
           UNCHANGED <<root, disk, scan, command, report, local, clock, counts>>,
           x.effect = run[r].effect, x.recon = run[r].recon, x.scan = run[r].scan,
           run[r].work # "EFFECT", run[r].undo # "EFFECT",
           x.recon # "NOT_STARTED" \/ x.undo # "NONE" => x.work = "SETTLED"
    PROVE  Inv'
<1>1. Typed'
  BY DEF Inv, Typed
<1>2. run'[r] = x /\ \A q \in Runs : q # r => run'[q] = run[q]
  BY DEF Inv, Typed
<1>3. Settled
  BY <1>2, NothingPublished
<1>4. LocalTyped' /\ \A v \in Workers : Leaves(v)
  BY RequestsKeep DEF Inv
<1>5. root.gen \in Nat /\ disk.effects \in Nat
  BY GenerationTyped DEF Inv
<1>6. Calm
  BY <1>3, <1>4, <1>5, ScansKeep DEF Calm
<1>7. \A q \in Runs : run[q].recon # "NOT_STARTED" \/ run[q].undo # "NONE" => run[q].work = "SETTLED"
  BY DEF Inv, ReconInv
<1>8. ReconInv'
  BY <1>1, <1>2, <1>5, <1>7, ReconKept, ScansKeep
<1> QED
  BY <1>1, <1>4, <1>6, <1>8, CalmKeeps DEF Inv

(* An execution is admitted. *)
LEMMA StepAdmitRun == ASSUME Inv, NEW r \in Runs, AdmitRun(r) PROVE Inv'
<1> DEFINE x == [run[r] EXCEPT !.work = "RUNNING"]
<1>1. run[r] \in RunType /\ run[r].work = "NONE"
  BY DEF Inv, Typed, AdmitRun
<1>2. run[r].recon = "NOT_STARTED" /\ run[r].undo = "NONE"
  BY <1>1 DEF Inv, ReconInv
<1>3. /\ x \in RunType /\ x.effect = run[r].effect /\ x.recon = run[r].recon /\ x.scan = run[r].scan
      /\ x.undo = run[r].undo
  BY <1>1 DEF RunType, WorkStates
<1>4. run' = [run EXCEPT ![r] = x]
  BY DEF AdmitRun
<1>5. UNCHANGED <<root, disk, scan, command, report, local, clock, counts>>
  BY DEF AdmitRun
<1> HIDE DEF x
<1> QED
  BY <1>1, <1>2, <1>3, <1>4, <1>5, RunMoves

(* An Undo is admitted. *)
LEMMA StepAdmitUndo == ASSUME Inv, NEW r \in Runs, AdmitUndo(r) PROVE Inv'
<1> DEFINE x == [run[r] EXCEPT !.undo = "RUNNING"]
<1>1. run[r] \in RunType /\ run[r].work = "SETTLED" /\ run[r].undo = "NONE"
  BY DEF Inv, Typed, AdmitUndo
<1>2. /\ x \in RunType /\ x.effect = run[r].effect /\ x.recon = run[r].recon /\ x.scan = run[r].scan
      /\ x.work = "SETTLED"
  BY <1>1 DEF RunType, WorkStates
<1>3. run' = [run EXCEPT ![r] = x]
  BY DEF AdmitUndo
<1> HIDE DEF x
<1> QED
  BY <1>1, <1>2, <1>3, RunMoves DEF AdmitUndo

(* A run settles without effect. *)
LEMMA StepSettleWithoutEffect == ASSUME Inv, NEW r \in Runs, SettleWithoutEffect(r) PROVE Inv'
<1>1. run[r] \in RunType
  BY DEF Inv, Typed
<1>2. run[r].recon # "NOT_STARTED" \/ run[r].undo # "NONE" => run[r].work = "SETTLED"
  BY DEF Inv, ReconInv
<1>3. UNCHANGED <<root, disk, scan, command, report, local, clock, counts>>
  BY DEF SettleWithoutEffect
<1>4. ASSUME run[r].work = "RUNNING", run' = [run EXCEPT ![r].work = "SETTLED"] PROVE Inv'
  <2> DEFINE x == [run[r] EXCEPT !.work = "SETTLED"]
  <2>1. /\ x \in RunType /\ x.effect = run[r].effect /\ x.recon = run[r].recon /\ x.scan = run[r].scan
        /\ x.work = "SETTLED"
    BY <1>1 DEF RunType, WorkStates
  <2>2. run' = [run EXCEPT ![r] = x]
    BY <1>4
  <2> HIDE DEF x
  <2>3. run[r].work # "EFFECT" /\ run[r].undo # "EFFECT"
    BY <1>2, <1>4
  <2> QED
    BY <1>3, <2>1, <2>2, <2>3, RunMoves
<1>5. ASSUME run[r].undo = "RUNNING", run' = [run EXCEPT ![r].undo = "SETTLED"] PROVE Inv'
  <2> DEFINE x == [run[r] EXCEPT !.undo = "SETTLED"]
  <2>1. /\ x \in RunType /\ x.effect = run[r].effect /\ x.recon = run[r].recon /\ x.scan = run[r].scan
        /\ x.work = run[r].work
    BY <1>1 DEF RunType, WorkStates
  <2>2. run' = [run EXCEPT ![r] = x]
    BY <1>5
  <2> HIDE DEF x
  <2>3. run[r].work # "EFFECT" /\ run[r].undo # "EFFECT" /\ x.work = "SETTLED"
    BY <1>2, <1>5, <2>1
  <2> QED
    BY <1>3, <2>1, <2>2, <2>3, RunMoves
<1> QED
  BY <1>4, <1>5 DEF SettleWithoutEffect

(* An effect on the disk waits for its publication: what was discovered
   before it is no longer claimed to be fresh. *)
LEMMA StepEffect == ASSUME Inv, NEW r \in Runs, Effect(r) PROVE Inv'
<1>1. run[r] \in RunType /\ root.gen \in Nat /\ disk \in DiskType /\ disk.effects \in Nat
  BY GenerationTyped DEF Inv, Typed
<1>2. run[r].recon # "NOT_STARTED" \/ run[r].undo # "NONE" => run[r].work = "SETTLED"
  BY DEF Inv, ReconInv
<1>3. disk' \in DiskType /\ disk'.effects = disk.effects + 1
  BY <1>1 DEF Effect, DiskType
<1>4. PICK n \in Nat : n = disk.effects + 1
  BY <1>1
<1>5. PICK x \in RunType : /\ run' = [run EXCEPT ![r] = x] /\ x.effect = n
                           /\ x.recon = run[r].recon /\ x.scan = run[r].scan
                           /\ x.recon = "COMPLETED" => x.undo = "EFFECT"
                           /\ x.work = "EFFECT" \/ x.undo = "EFFECT"
                           /\ x.recon # "NOT_STARTED" \/ x.undo # "NONE" => x.work = "SETTLED"
  <2>1. ASSUME run[r].work = "RUNNING", run' = [run EXCEPT ![r].work = "EFFECT", ![r].effect = n]
        PROVE  \E x \in RunType :
                           /\ run' = [run EXCEPT ![r] = x] /\ x.effect = n
                           /\ x.recon = run[r].recon /\ x.scan = run[r].scan
                           /\ x.recon = "COMPLETED" => x.undo = "EFFECT"
                           /\ x.work = "EFFECT" \/ x.undo = "EFFECT"
                           /\ x.recon # "NOT_STARTED" \/ x.undo # "NONE" => x.work = "SETTLED"
    <3> DEFINE x == [run[r] EXCEPT !.work = "EFFECT", !.effect = n]
    <3>1. /\ x \in RunType /\ x.effect = n /\ x.recon = run[r].recon
          /\ x.scan = run[r].scan /\ x.work = "EFFECT" /\ x.undo = run[r].undo
      BY <1>1 DEF RunType, WorkStates
    <3>2. run' = [run EXCEPT ![r] = x]
      BY <2>1 DEF Inv, Typed
    <3> HIDE DEF x
    <3> QED
      BY <1>2, <2>1, <3>1, <3>2
  <2>2. ASSUME run[r].undo = "RUNNING", run' = [run EXCEPT ![r].undo = "EFFECT", ![r].effect = n]
        PROVE  \E x \in RunType :
                           /\ run' = [run EXCEPT ![r] = x] /\ x.effect = n
                           /\ x.recon = run[r].recon /\ x.scan = run[r].scan
                           /\ x.recon = "COMPLETED" => x.undo = "EFFECT"
                           /\ x.work = "EFFECT" \/ x.undo = "EFFECT"
                           /\ x.recon # "NOT_STARTED" \/ x.undo # "NONE" => x.work = "SETTLED"
    <3> DEFINE x == [run[r] EXCEPT !.undo = "EFFECT", !.effect = n]
    <3>1. /\ x \in RunType /\ x.effect = n /\ x.recon = run[r].recon
          /\ x.scan = run[r].scan /\ x.undo = "EFFECT" /\ x.work = run[r].work
      BY <1>1 DEF RunType, WorkStates
    <3>2. run' = [run EXCEPT ![r] = x]
      BY <2>2 DEF Inv, Typed
    <3> HIDE DEF x
    <3> QED
      BY <1>2, <2>2, <3>1, <3>2
  <2>3. \/ run[r].work = "RUNNING" /\ run' = [run EXCEPT ![r].work = "EFFECT", ![r].effect = n]
        \/ run[r].undo = "RUNNING" /\ run' = [run EXCEPT ![r].undo = "EFFECT", ![r].effect = n]
    BY <1>4 DEF Effect
  <2> QED
    BY <2>1, <2>2, <2>3
<1>6. run' \in [Runs -> RunType] /\ run'[r] = x /\ \A q \in Runs : q # r => run'[q] = run[q]
  BY <1>5 DEF Inv, Typed
<1>7. UNCHANGED <<root, scan, command, report, local, clock, counts>>
  BY DEF Effect
<1>8. Typed'
  BY <1>3, <1>6, <1>7 DEF Inv, Typed
<1>9. LocalTyped' /\ \A v \in Workers : Leaves(v)
  BY <1>7, RequestsKeep DEF Inv
<1>10. Settled
  BY <1>5, <1>6 DEF Settled, Quiet
<1>11. Calm
  BY <1>1, <1>7, <1>9, <1>10, ScansKeep DEF Calm
<1>12. ReconInv'
  <2> SUFFICES ASSUME NEW q \in Runs
               PROVE  /\ run'[q].effect <= disk'.effects
                      /\ run'[q].recon # "NOT_STARTED" \/ run'[q].undo # "NONE" => run'[q].work = "SETTLED"
                      /\ run'[q].recon = "COMPLETED" /\ run'[q].undo # "EFFECT" =>
                            /\ run'[q].scan \in Scans
                            /\ scan'[run'[q].scan].status \notin {"NONE", "SCANNING"}
                            /\ scan'[run'[q].scan].imported => scan'[run'[q].scan].seen >= run'[q].effect
    BY DEF ReconInv
  <2>1. CASE q = r
    BY <1>1, <1>3, <1>4, <1>5, <1>6, <2>1
  <2>2. CASE q # r
    <3>1. run'[q] = run[q] /\ run[q].effect \in Nat /\ scan' = scan
      BY <1>6, <1>7, <2>2 DEF Inv, Typed, RunType
    <3> QED
      BY <1>1, <1>3, <3>1 DEF Inv, ReconInv
  <2> QED
    BY <2>1, <2>2
<1> QED
  BY <1>8, <1>9, <1>11, <1>12, CalmKeeps DEF Inv

(* requireExecutionReconciliation begins a new generation. *)
LEMMA StepPublishOutcome == ASSUME Inv, NEW r \in Runs, PublishOutcome(r) PROVE Inv'
<1> DEFINE work == IF run[r].work = "EFFECT" THEN "SETTLED" ELSE run[r].work
           undo == IF run[r].undo = "EFFECT" THEN "SETTLED" ELSE run[r].undo
           scans == SupersededScans(root.gen + 1)
           bound == run[r].scan
<1>1. run[r] \in RunType /\ root \in RootType /\ root.gen \in Nat
  BY GenerationTyped DEF Inv, Typed
<1>2. UNCHANGED <<disk, report, local, clock, counts>>
  BY DEF PublishOutcome
<1>3. root' \in RootType /\ root'.gen = root.gen + 1
  BY <1>1 DEF PublishOutcome, RootType
<1>4. /\ command' \in [Scans -> CommandType]
      /\ \A s \in Scans : command[s].status = "NONE" => command'[s].status = "NONE"
  BY CommandsClose DEF Inv, PublishOutcome
<1>5. scan' \in [Scans -> ScanType] /\ \A s \in Scans : Mild(s)
  <2>1. \A s \in Scans : scans[s] = IF Active(s) /\ scan[s].gen < root.gen + 1
                                    THEN [scan[s] EXCEPT !.status = "FAILED"] ELSE scan[s]
    BY DEF SupersededScans
  <2>2. scan' = IF bound # None /\ scans[bound].status \in {"SCANNING", "READING"}
                THEN [scans EXCEPT ![bound].status = "FAILED"] ELSE scans
    BY DEF PublishOutcome
  <2>3. scans = [s \in Scans |-> scans[s]]
    BY DEF SupersededScans
  <2> HIDE DEF scans
  <2>4. ASSUME NEW s \in Scans PROVE scan'[s] \in ScanType /\ Mild(s)
    <3>1. scan[s] \in ScanType /\ [scan[s] EXCEPT !.status = "FAILED"] \in ScanType
      BY DEF Inv, Typed, ScanType
    <3>2. Active(s) => scan[s].status # "NONE"
      BY DEF Active
    <3>3. \/ scan'[s] = scan[s]
          \/ Active(s) /\ scan'[s] = [scan[s] EXCEPT !.status = "FAILED"]
      <4>1. \/ scans[s] = scan[s]
            \/ Active(s) /\ scans[s] = [scan[s] EXCEPT !.status = "FAILED"]
        BY <2>1
      <4>2. \/ scan'[s] = scans[s]
            \/ scans[s].status \in {"SCANNING", "READING"} /\ scan'[s] = [scans[s] EXCEPT !.status = "FAILED"]
        BY <2>2, <2>3
      <4>3. [scan[s] EXCEPT !.status = "FAILED"].status = "FAILED"
        BY <3>1 DEF ScanType
      <4>4. CASE scans[s] = scan[s]
        BY <4>2, <4>4 DEF Active
      <4>5. CASE Active(s) /\ scans[s] = [scan[s] EXCEPT !.status = "FAILED"]
        BY <4>2, <4>3, <4>5
      <4> QED
        BY <4>1, <4>4, <4>5
    <3>4. CASE scan'[s] = scan[s]
      BY <3>1, <3>4 DEF Mild
    <3>5. CASE Active(s) /\ scan'[s] = [scan[s] EXCEPT !.status = "FAILED"]
      BY <3>1, <3>2, <3>5 DEF Mild, ScanType
    <3> QED
      BY <3>3, <3>4, <3>5
  <2>5. scan' = [s \in Scans |-> scan'[s]]
    BY <2>2, <2>3
  <2> QED
    BY <2>4, <2>5
<1>6. /\ run' \in [Runs -> RunType] /\ \A q \in Runs : q # r => run'[q] = run[q]
      /\ run'[r].effect = run[r].effect /\ run'[r].recon = "REQUIRED" /\ run'[r].work = work
  <2>1. work \in WorkStates /\ undo \in WorkStates
    BY <1>1 DEF RunType, WorkStates
  <2>2. run' = Required(r, work, undo)
    BY DEF PublishOutcome
  <2> HIDE DEF work, undo
  <2> QED
    BY <2>1, <2>2, RunRequired DEF Inv
<1>7. work = "SETTLED"
  <2>1. run[r].work = "EFFECT" \/ run[r].undo = "EFFECT"
    BY DEF PublishOutcome
  <2>2. run[r].undo # "NONE" => run[r].work = "SETTLED"
    BY DEF Inv, ReconInv
  <2> QED
    BY <2>1, <2>2
<1> HIDE DEF work, undo, scans, bound
<1>8. Typed'
  BY <1>2, <1>3, <1>4, <1>5, <1>6 DEF Inv, Typed
<1>9. LocalTyped' /\ \A v \in Workers : Leaves(v)
  BY <1>2, RequestsKeep DEF Inv
<1>10. Calm
  BY <1>1, <1>2, <1>3, <1>4, <1>5, <1>9 DEF Calm, Settled
<1>11. ReconInv'
  <2>1. disk'.effects >= disk.effects
    BY <1>2, GenerationTyped DEF Inv
  <2>2. \A q \in Runs : run[q].recon # "NOT_STARTED" \/ run[q].undo # "NONE" => run[q].work = "SETTLED"
    BY DEF Inv, ReconInv
  <2> QED
    BY <1>5, <1>6, <1>7, <1>8, <2>1, <2>2, ReconKept
<1> QED
  BY <1>8, <1>9, <1>10, <1>11, CalmKeeps DEF Inv
-----------------------------------------------------------------------------
(* Steps that leave runs, effects and the generation alone. *)

(* A step whose scans only move on, and whose requests only leave, keeps the
   invariant. *)
LEMMA MildStep ==
    ASSUME Inv, Typed', LocalTyped', \A v \in Workers : Leaves(v), \A s \in Scans : Mild(s),
           \A s \in Scans : command[s].status = "NONE" => command'[s].status = "NONE",
           UNCHANGED <<run, report>>, root'.gen = root.gen, disk'.effects = disk.effects
    PROVE  Inv'
<1>1. root.gen \in Nat /\ disk.effects \in Nat
  BY GenerationTyped DEF Inv
<1>2. Settled
  BY NothingPublished
<1>3. Calm
  BY <1>1, <1>2 DEF Calm
<1>4. ReconInv'
  BY <1>1, RunsKeep
<1> QED
  BY <1>3, <1>4, CalmKeeps DEF Inv

(* Only the status of a scan and its command change. *)
LEMMA ScanStep ==
    ASSUME Inv, UNCHANGED <<root, disk, run, report, clock>>, counts' \in CountType,
           local' \in [Workers -> Requests], LocalTyped', \A v \in Workers : Leaves(v),
           scan' \in [Scans -> ScanType], \A s \in Scans : Mild(s),
           command' \in [Scans -> CommandType],
           \A s \in Scans : command[s].status = "NONE" => command'[s].status = "NONE"
    PROVE  Inv'
<1>1. Typed'
  BY DEF Inv, Typed
<1> QED
  BY <1>1, MildStep

(* The command of an open scan belongs to a scan that exists. *)
LEMMA OpenExists ==
    ASSUME Inv, NEW s \in Scans, command[s].status = "OPEN" \/ report[s].files # None \/ scan[s].rows # {}
    PROVE  scan[s].status # "NONE"
BY DEF Inv, ScanInv

(* A failed command fails the scan that awaits it. *)
LEMMA StepFailRemoteScan == ASSUME Inv, NEW s \in Scans, FailRemoteScan(s) PROVE Inv'
<1>1. PICK x : x = IF scan[s].status = "SCANNING" THEN "FAILED" ELSE scan[s].status
  OBVIOUS
<1>2. scan' = [scan EXCEPT ![s].status = x]
  BY <1>1 DEF FailRemoteScan
<1>3. scan[s].status # "NONE" /\ scan[s].status \in {"SCANNING", "READING", "COMPLETED", "FAILED"}
  BY OpenExists DEF FailRemoteScan, Inv, Typed, ScanType
<1>4. x \in {"READING", "COMPLETED", "FAILED"}
  BY <1>1, <1>3
<1>5. scan' \in [Scans -> ScanType] /\ \A t \in Scans : Mild(t)
  BY <1>2, <1>3, <1>4, ScanMoves DEF Inv
<1>6. /\ command' \in [Scans -> CommandType]
      /\ \A t \in Scans : command[t].status = "NONE" => command'[t].status = "NONE"
  BY CommandsClose DEF Inv, FailRemoteScan
<1>7. counts' \in CountType
  BY EventCounted DEF Inv, FailRemoteScan
<1>8. local' \in [Workers -> Requests] /\ LocalTyped' /\ \A v \in Workers : Leaves(v)
  BY RequestsKeep DEF Inv, FailRemoteScan
<1>9. UNCHANGED <<root, disk, run, report, clock>>
  BY DEF FailRemoteScan
<1> QED
  BY <1>5, <1>6, <1>7, <1>8, <1>9, ScanStep

(* A step that moves one scan on and touches no command or request. *)
LEMMA StatusStep ==
    ASSUME Inv, UNCHANGED <<root, disk, run, report, local, command, clock>>, counts' \in CountType,
           scan' \in [Scans -> ScanType], \A s \in Scans : Mild(s)
    PROVE  Inv'
<1>1. local' \in [Workers -> Requests] /\ LocalTyped' /\ \A v \in Workers : Leaves(v)
  BY RequestsKeep DEF Inv
<1>2. command' \in [Scans -> CommandType]
  BY DEF Inv, Typed
<1> QED
  BY <1>1, <1>2, ScanStep

(* The reads of a scan are finished. *)
LEMMA StepCompleteScan == ASSUME Inv, NEW s \in Scans, CompleteScan(s) PROVE Inv'
<1> DEFINE x == [scan[s] EXCEPT !.status = "COMPLETED", !.published = FALSE]
<1>1. scan[s] \in ScanType /\ scan[s].status = "READING"
  BY DEF Inv, Typed, CompleteScan
<1>2. /\ x \in ScanType /\ x.gen = scan[s].gen /\ x.seen = scan[s].seen /\ x.hash = scan[s].hash
      /\ x.rows = scan[s].rows /\ x.imported = scan[s].imported /\ x.status = "COMPLETED"
  BY <1>1 DEF ScanType
<1>3. scan' = [scan EXCEPT ![s] = x]
  BY <1>1 DEF CompleteScan, Inv, Typed
<1> HIDE DEF x
<1>4. /\ scan' \in [Scans -> ScanType] /\ scan'[s] = x
      /\ \A t \in Scans : t # s => scan'[t] = scan[t]
  BY <1>2, <1>3 DEF Inv, Typed
<1>5. \A t \in Scans : Mild(t)
  BY <1>1, <1>2, <1>4 DEF Mild
<1>6. UNCHANGED <<root, disk, run, report, local, command, clock>> /\ counts' \in CountType
  BY DEF CompleteScan, Inv, Typed
<1> QED
  BY <1>4, <1>5, <1>6, StatusStep

(* The scan's knowledge is published. *)
LEMMA Published ==
    ASSUME Typed, NEW s \in Scans, NEW b \in BOOLEAN, scan' = [scan EXCEPT ![s].published = b]
    PROVE  scan' \in [Scans -> ScanType] /\ \A t \in Scans : Mild(t)
<1> DEFINE x == [scan[s] EXCEPT !.published = b]
<1>1. scan[s] \in ScanType
  BY DEF Typed
<1>2. /\ x \in ScanType /\ x.gen = scan[s].gen /\ x.seen = scan[s].seen /\ x.hash = scan[s].hash
      /\ x.rows = scan[s].rows /\ x.imported = scan[s].imported /\ x.status = scan[s].status
  BY <1>1 DEF ScanType
<1>3. scan' = [scan EXCEPT ![s] = x]
  OBVIOUS
<1> HIDE DEF x
<1>4. /\ scan' \in [Scans -> ScanType] /\ scan'[s] = x
      /\ \A t \in Scans : t # s => scan'[t] = scan[t]
  BY <1>2, <1>3 DEF Typed
<1> QED
  BY <1>2, <1>4 DEF Mild

(* A current scan is published. *)
LEMMA StepPublish == ASSUME Inv, NEW s \in Scans, Publish(s) PROVE Inv'
<1>1. scan' \in [Scans -> ScanType] /\ \A t \in Scans : Mild(t)
  BY Published DEF Inv, Publish
<1>2. UNCHANGED <<root, disk, run, report, local, command, clock>> /\ counts' \in CountType
  BY DEF Publish, Inv, Typed
<1> QED
  BY <1>1, <1>2, StatusStep

(* A read of a scan with rows is queued again. *)
LEMMA StepRetryRead == ASSUME Inv, NEW s \in Scans, RetryRead(s) PROVE Inv'
<1>1. scan' \in [Scans -> ScanType] /\ \A t \in Scans : Mild(t)
  <2>1. scan' = [scan EXCEPT ![s].status = "READING"] /\ scan[s].status # "NONE"
    BY OpenExists DEF RetryRead
  <2> QED
    BY <2>1, ScanMoves DEF Inv
<1>2. UNCHANGED <<root, disk, run, report, local, command, clock>> /\ counts' \in CountType
  BY EventCounted DEF Inv, RetryRead
<1> QED
  BY <1>1, <1>2, StatusStep

(* A session is marked failed. *)
LEMMA StepFailScan == ASSUME Inv, NEW s \in Scans, FailScan(s) PROVE Inv'
<1>1. scan' \in [Scans -> ScanType] /\ \A t \in Scans : Mild(t)
  <2>1. scan' = [scan EXCEPT ![s].status = "FAILED"] /\ scan[s].status # "NONE"
    BY DEF FailScan
  <2> QED
    BY <2>1, ScanMoves DEF Inv
<1>2. UNCHANGED <<root, disk, run, report, local, command, clock>> /\ counts' \in CountType
  BY EventCounted DEF Inv, FailScan
<1> QED
  BY <1>1, <1>2, StatusStep

(* The connection ends, or begins anew: active scans fail, commands close. *)
LEMMA ConnectionStep ==
    ASSUME Inv, root' \in RootType, root'.gen = root.gen, scan' = Retired, command' = Close(Scans),
           counts' \in CountType, UNCHANGED <<disk, run, report, local, clock>>
    PROVE  Inv'
<1>1. scan' \in [Scans -> ScanType] /\ \A t \in Scans : Mild(t)
  <2>1. scan' = [s \in Scans |-> IF s \in Scans /\ Active(s)
                                 THEN [scan[s] EXCEPT !.status = "FAILED"] ELSE scan[s]]
    BY DEF Retired
  <2> QED
    BY <2>1, ScansFail DEF Inv
<1>2. /\ command' \in [Scans -> CommandType]
      /\ \A s \in Scans : command[s].status = "NONE" => command'[s].status = "NONE"
  BY CommandsClose DEF Inv
<1>3. LocalTyped' /\ \A v \in Workers : Leaves(v)
  BY RequestsKeep DEF Inv
<1>4. Typed'
  BY <1>1, <1>2 DEF Inv, Typed
<1> QED
  BY <1>1, <1>2, <1>3, <1>4, MildStep

(* The root is disconnected. *)
LEMMA StepDisconnect == ASSUME Inv, Disconnect PROVE Inv'
<1>1. root' \in RootType /\ root'.gen = root.gen
  BY DEF Inv, Typed, Disconnect, RootType
<1>2. counts' \in CountType
  BY EventCounted DEF Inv, Disconnect
<1> QED
  BY <1>1, <1>2, ConnectionStep DEF Disconnect

(* The root is connected again. *)
LEMMA StepReconnect == ASSUME Inv, Reconnect PROVE Inv'
<1>1. root' \in RootType /\ root'.gen = root.gen
  <2>1. PICK n \in Nat : n = root.rev + 1
    BY GenerationTyped DEF Inv
  <2>2. root' = [root EXCEPT !.readable = TRUE, !.rev = n]
    BY <2>1 DEF Reconnect
  <2> QED
    BY <2>2 DEF Inv, Typed, RootType
<1>2. counts' \in CountType
  BY EventCounted DEF Inv, Typed, Reconnect
<1> QED
  BY <1>1, <1>2, ConnectionStep DEF Reconnect

(* Another program adds or removes a file. *)
LEMMA StepChangeFile == ASSUME Inv, NEW p \in Paths, ChangeFile(p) PROVE Inv'
<1>1. disk' \in DiskType /\ disk'.effects = disk.effects
  BY DEF Inv, Typed, ChangeFile, DiskType, Inventories
<1>2. counts' \in CountType
  BY InventoryAssumption DEF Inv, Typed, ChangeFile, CountType
<1>3. UNCHANGED <<root, run, scan, command, report, local, clock>>
  BY DEF ChangeFile
<1>4. LocalTyped' /\ \A v \in Workers : Leaves(v)
  BY <1>3, RequestsKeep DEF Inv
<1>5. Typed'
  BY <1>1, <1>2, <1>3 DEF Inv, Typed
<1> QED
  BY <1>1, <1>3, <1>4, <1>5, ScansKeep, MildStep

-----------------------------------------------------------------------------
(* Requests that end, or begin something else than an import. *)

(* A request ends. *)
LEMMA RequestStep ==
    ASSUME Inv, NEW w \in Workers, Finish(w), UNCHANGED <<root, disk, run, scan, command, report, clock>>,
           counts' \in CountType
    PROVE  Inv'
BY RequestEnds, OnlyRequest DEF Inv

(* An import that is no longer admitted ends. *)
LEMMA StepImportRefused == ASSUME Inv, NEW w \in Workers, ImportRefused(w) PROVE Inv'
<1>1. Finish(w) /\ UNCHANGED <<root, disk, run, scan, command, report, clock>> /\ counts' \in CountType
  BY DEF Inv, Typed, ImportRefused
<1> QED
  BY <1>1, RequestStep

(* A local walk whose rows are no longer wanted, or already stored, ends. *)
LEMMA StepImportLocalEnds == ASSUME Inv, NEW w \in Workers, ImportLocalEnds(w) PROVE Inv'
<1>1. Finish(w) /\ UNCHANGED <<root, disk, run, scan, command, report, clock>> /\ counts' \in CountType
  BY DEF Inv, Typed, ImportLocalEnds
<1> QED
  BY <1>1, RequestStep

(* A recovery finds that its run needs none. *)
LEMMA StepAdmitEnds == ASSUME Inv, NEW w \in Workers, AdmitEnds(w) PROVE Inv'
<1>1. Finish(w) /\ UNCHANGED <<root, disk, run, scan, command, report, clock>> /\ counts' \in CountType
  BY DEF Inv, Typed, AdmitEnds
<1> QED
  BY <1>1, RequestStep

(* A request dies with the server. *)
LEMMA StepRequestDies == ASSUME Inv, NEW w \in Workers, RequestDies(w) PROVE Inv'
<1>1. Finish(w) /\ UNCHANGED <<root, disk, run, scan, command, report, clock>>
  BY DEF RequestDies
<1>2. counts' \in CountType
  BY EventCounted DEF Inv, RequestDies
<1> QED
  BY <1>1, <1>2, RequestStep

(* A local scan begins its walk under the current generation. *)
LEMMA LoadedRequest ==
    ASSUME Typed, LocalTyped, NEW w \in Workers, NEW r \in Runs \cup {None}, NEW epoch \in Nat,
           LoadRoot(w, r, epoch)
    PROVE  local' \in [Workers -> Requests] /\ LocalTyped' /\ \A v \in Workers : Leaves(v)
<1> DEFINE x == [Idle EXCEPT !.pc = "walk", !.run = r, !.epoch = epoch, !.gen = root.gen, !.rev = root.rev]
<1>1. root.gen \in Nat /\ root.rev \in Nat
  BY GenerationTyped
<1>2. x \in Requests /\ x.pc = "walk" /\ x.gen = root.gen
  BY <1>1 DEF Idle, Requests, Walking, Inventories
<1>3. local' = [local EXCEPT ![w] = x]
  BY DEF LoadRoot
<1> HIDE DEF x
<1>4. x.pc \notin Holding /\ x.pc \notin Recovering
  BY <1>2 DEF Holding, Recovering, Imports, Owning
<1> QED
  BY <1>2, <1>3, <1>4, RequestLeaves

(* A person starts a local scan. *)
LEMMA StepStartLocalScan == ASSUME Inv, NEW w \in Workers, StartLocalScan(w) PROVE Inv'
<1>1. local' \in [Workers -> Requests] /\ LocalTyped' /\ \A v \in Workers : Leaves(v)
  BY LoadedRequest DEF Inv, StartLocalScan
<1>2. counts' \in CountType /\ UNCHANGED <<root, disk, run, scan, command, report, clock>>
  BY EventCounted DEF Inv, StartLocalScan
<1> QED
  BY <1>1, <1>2, OnlyRequest

(* Recovery selects a run. *)
LEMMA StepSelectRun == ASSUME Inv, NEW w \in Workers, NEW r \in Runs, SelectRun(w, r) PROVE Inv'
<1> DEFINE x == [Idle EXCEPT !.pc = "admit", !.run = r]
<1>1. x \in Requests /\ x.pc = "admit" /\ x.run = r
  BY DEF Idle, Requests, Recovering, Inventories
<1>2. local' = [local EXCEPT ![w] = x]
  BY DEF SelectRun
<1>3. UNCHANGED <<root, disk, run, scan, command, report, clock>> /\ counts' \in CountType
  BY DEF SelectRun, Inv, Typed
<1> HIDE DEF x
<1>4. x.pc \notin Holding /\ x.pc \notin Imports \cup Walking
  BY <1>1 DEF Holding, Imports, Owning, Walking
<1>5. local' \in [Workers -> Requests] /\ LocalTyped' /\ \A v \in Workers : Leaves(v)
  BY <1>1, <1>2, <1>4, RequestLeaves DEF Inv
<1> QED
  BY <1>3, <1>5, OnlyRequest
-----------------------------------------------------------------------------
(* The import of a remote scan. *)

(* What a request carries. *)
LEMMA RequestFacts ==
    ASSUME Inv, NEW w \in Workers
    PROVE  /\ local[w] \in Requests
           /\ local[w].pc \in Imports \cup {"report"} => local[w].scan \in Scans /\ scan[local[w].scan] \in ScanType
BY DEF Inv, Typed, LocalTyped, Holding

(* An inventory of an older generation. *)
LEMMA StepImportSuperseded == ASSUME Inv, NEW w \in Workers, ImportSuperseded(w) PROVE Inv'
<1>1. PICK s \in Scans : s = local[w].scan /\ scan[s].status # "NONE"
  <2>1. local[w].pc \in Imports
    BY DEF ImportSuperseded, Importing, Imports, Owning
  <2> QED
    BY <2>1, RequestFacts DEF Inv, ImportInv
<1>2. scan' \in [Scans -> ScanType] /\ \A t \in Scans : Mild(t)
  <2>1. scan' = [scan EXCEPT ![s].status = "FAILED"]
    BY <1>1 DEF ImportSuperseded
  <2> QED
    BY <1>1, <2>1, ScanMoves DEF Inv
<1>3. /\ command' \in [Scans -> CommandType]
      /\ \A t \in Scans : command[t].status = "NONE" => command'[t].status = "NONE"
  BY CommandsClose DEF Inv, ImportSuperseded
<1>4. local' \in [Workers -> Requests] /\ LocalTyped' /\ \A v \in Workers : Leaves(v)
  BY RequestEnds DEF Inv, ImportSuperseded
<1>5. UNCHANGED <<root, disk, run, report, clock>> /\ counts' \in CountType
  BY DEF ImportSuperseded, Inv, Typed
<1> QED
  BY <1>2, <1>3, <1>4, <1>5, ScanStep

(* The report is acknowledged. *)
LEMMA StepCloseCommand == ASSUME Inv, NEW w \in Workers, CloseCommand(w) PROVE Inv'
<1>1. /\ command' \in [Scans -> CommandType]
      /\ \A t \in Scans : command[t].status = "NONE" => command'[t].status = "NONE"
  BY CommandsClose DEF Inv, CloseCommand
<1>2. local' \in [Workers -> Requests] /\ LocalTyped' /\ \A v \in Workers : Leaves(v)
  BY RequestEnds DEF Inv, CloseCommand
<1>3. /\ UNCHANGED <<root, disk, run, report, clock>> /\ counts' \in CountType
      /\ scan' \in [Scans -> ScanType] /\ \A t \in Scans : Mild(t)
  BY ScansKeep DEF CloseCommand, Inv, Typed
<1> QED
  BY <1>1, <1>2, <1>3, ScanStep

(* A replay of an imported inventory. *)
LEMMA StepReplayImport == ASSUME Inv, NEW w \in Workers, ReplayImport(w) PROVE Inv'
<1>1. UNCHANGED <<root, disk, run, scan, command, report, clock>> /\ counts' \in CountType
  BY DEF ReplayImport, Inv, Typed
<1>2. ASSUME Finish(w) PROVE Inv'
  BY <1>1, <1>2, RequestStep
<1>3. ASSUME local' = [local EXCEPT ![w].pc = "report"] PROVE Inv'
  <2> DEFINE x == [local[w] EXCEPT !.pc = "report"]
  <2>1. local[w] \in Requests /\ local[w].scan \in Scans
    BY RequestFacts DEF ReplayImport, Imports
  <2>2. x \in Requests /\ x.pc = "report" /\ x.scan = local[w].scan
    BY <2>1 DEF Requests, Holding
  <2>3. local' = [local EXCEPT ![w] = x]
    BY <1>3
  <2> HIDE DEF x
  <2>4. x.pc \notin Recovering /\ x.pc \notin Imports \cup Walking
    BY <2>2 DEF Recovering, Imports, Owning, Walking
  <2>5. local' \in [Workers -> Requests] /\ LocalTyped' /\ \A v \in Workers : Leaves(v)
    BY <2>1, <2>2, <2>3, <2>4, RequestLeaves DEF Inv
  <2> QED
    BY <1>1, <2>5, OnlyRequest
<1> QED
  BY <1>2, <1>3 DEF ReplayImport

(* A step that gives one request a scan to import, or moves it on. *)
LEMMA ImportMoves ==
    ASSUME Inv, NEW w \in Workers, NEW x \in Requests, local' = [local EXCEPT ![w] = x],
           UNCHANGED <<root, disk, run, scan, command, report, clock, counts>>,
           x.pc \in Imports, x.scan \in Scans, scan[x.scan].status # "NONE",
           scan[x.scan].status = "SCANNING" =>
               /\ x.pc \in Owning => scan[x.scan].hash = x.files
               /\ x.pc \in Stored => scan[x.scan].rows = x.files,
           Quiet /\ scan[x.scan].gen = root.gen => x.seen = disk.effects
    PROVE  Inv'
<1>1. x.pc \notin Recovering /\ x.pc \notin Walking /\ x.pc # "import"
  BY DEF Recovering, Walking, Imports, Owning
<1>2. /\ local' \in [Workers -> Requests] /\ LocalTyped'
      /\ \A v \in Workers : v # w => local'[v] = local[v]
      /\ local'[w] = x
  BY <1>1, RequestMoves DEF Inv
<1>3. Typed'
  BY <1>2 DEF Inv, Typed
<1>4. ScanInv'
  BY DEF Inv, ScanInv
<1>5. ImportInv'
  <2> SUFFICES ASSUME NEW v \in Workers
               PROVE  /\ local'[v].pc \in Imports =>
                            /\ scan[local'[v].scan].status # "NONE"
                            /\ scan[local'[v].scan].status = "SCANNING" =>
                                  /\ local'[v].pc \in Owning => scan[local'[v].scan].hash = local'[v].files
                                  /\ local'[v].pc \in Stored => scan[local'[v].scan].rows = local'[v].files
                      /\ local'[v].pc \in Walking => local'[v].gen <= root.gen
    BY DEF ImportInv
  <2>1. CASE v = w
    BY <1>1, <1>2, <2>1
  <2>2. CASE v # w
    BY <1>2, <2>2 DEF Inv, ImportInv
  <2> QED
    BY <2>1, <2>2
<1>6. SeenInv'
  <2>1. Quiet' = Quiet
    BY DEF Quiet
  <2> SUFFICES ASSUME Quiet
               PROVE  /\ \A s \in Scans : scan[s].gen = root.gen =>
                            /\ report[s].files # None => report[s].seen = disk.effects
                            /\ scan[s].imported => scan[s].seen = disk.effects
                      /\ \A v \in Workers :
                            /\ local'[v].pc \in Imports /\ scan[local'[v].scan].gen = root.gen
                                  => local'[v].seen = disk.effects
                            /\ local'[v].pc = "import" /\ local'[v].gen = root.gen => local'[v].seen = disk.effects
    BY <2>1 DEF SeenInv
  <2>2. ASSUME NEW v \in Workers
        PROVE  /\ local'[v].pc \in Imports /\ scan[local'[v].scan].gen = root.gen
                     => local'[v].seen = disk.effects
               /\ local'[v].pc = "import" /\ local'[v].gen = root.gen => local'[v].seen = disk.effects
    <3>1. CASE v = w
      BY <1>1, <1>2, <3>1
    <3>2. CASE v # w
      BY <1>2, <3>2 DEF Inv, SeenInv
    <3> QED
      BY <3>1, <3>2
  <2> QED
    BY <2>2 DEF Inv, SeenInv
<1>7. ReconInv'
  <2>1. disk.effects \in Nat
    BY GenerationTyped DEF Inv
  <2> QED
    BY <1>3, <2>1, RunsKeep, ScansKeep
<1> QED
  BY <1>2, <1>3, <1>4, <1>5, <1>6, <1>7 DEF Inv

(* A report reaches the import. *)
LEMMA StepDeliver == ASSUME Inv, NEW w \in Workers, NEW s \in Scans, Deliver(w, s) PROVE Inv'
<1>1. PICK pc \in {"claim", "replay"} : pc = IF scan[s].status = "SCANNING" THEN "claim" ELSE "replay"
  OBVIOUS
<1> DEFINE x == [Idle EXCEPT !.pc = pc, !.scan = s, !.files = report[s].files, !.seen = report[s].seen]
<1>2. report[s] \in ReportType /\ report[s].files # None
  BY DEF Deliver, Inv, Typed
<1>3. /\ x \in Requests /\ x.pc = pc /\ x.scan = s /\ x.files = report[s].files
      /\ x.seen = report[s].seen
  BY <1>2 DEF Idle, Requests, ReportType, Holding, Imports
<1>4. local' = [local EXCEPT ![w] = x]
  BY <1>1 DEF Deliver
<1>5. UNCHANGED <<root, disk, run, scan, command, report, clock, counts>>
  BY DEF Deliver
<1>6. scan[s].status # "NONE"
  BY <1>2, OpenExists
<1>7. Quiet /\ scan[s].gen = root.gen => report[s].seen = disk.effects
  BY <1>2 DEF Inv, SeenInv
<1> HIDE DEF x
<1>8. x.pc \in Imports /\ x.pc \notin Owning /\ x.pc \notin Stored
  BY <1>3 DEF Imports, Owning, Stored
<1> QED
  BY <1>3, <1>4, <1>5, <1>6, <1>7, <1>8, ImportMoves

(* Media metadata is stored. *)
LEMMA StepStoreMedia == ASSUME Inv, NEW w \in Workers, StoreMedia(w) PROVE Inv'
<1> DEFINE x == [local[w] EXCEPT !.pc = "finish"]
<1>1. local[w] \in Requests /\ local[w].scan \in Scans /\ local[w].pc = "media"
  BY RequestFacts DEF StoreMedia, Imports, Owning
<1>2. /\ x \in Requests /\ x.pc = "finish" /\ x.scan = local[w].scan /\ x.files = local[w].files
      /\ x.seen = local[w].seen
  BY <1>1 DEF Requests, Holding, Imports, Owning
<1>3. local' = [local EXCEPT ![w] = x]
  BY DEF StoreMedia
<1>4. UNCHANGED <<root, disk, run, scan, command, report, clock, counts>>
  BY DEF StoreMedia
<1>5. local[w].pc \in Imports /\ local[w].pc \in Owning /\ local[w].pc \in Stored
  BY <1>1 DEF Imports, Owning, Stored
<1>6. /\ scan[local[w].scan].status # "NONE"
      /\ scan[local[w].scan].status = "SCANNING" =>
            scan[local[w].scan].hash = local[w].files /\ scan[local[w].scan].rows = local[w].files
      /\ Quiet /\ scan[local[w].scan].gen = root.gen => local[w].seen = disk.effects
  BY <1>5 DEF Inv, ImportInv, SeenInv
<1> HIDE DEF x
<1>7. x.pc \in Imports
  BY <1>2 DEF Imports, Owning
<1> QED
  BY <1>1, <1>2, <1>3, <1>4, <1>6, <1>7, ImportMoves
(* A request changes the scan that awaits its inventory: it may claim an
   unowned one, add rows while some are missing, and finish a whole one. *)
LEMMA TakeIn ==
    ASSUME Inv, NEW w \in Workers, NEW s \in Scans, NEW x \in Requests, NEW y \in ScanType,
           scan' = [scan EXCEPT ![s] = y], local' = [local EXCEPT ![w] = x],
           UNCHANGED <<root, disk, run, command, report, clock, counts>>,
           scan[s].status = "SCANNING", y.gen = scan[s].gen, y.status # "NONE",
           y.status = "SCANNING" =>
               /\ y.hash = scan[s].hash \/ scan[s].hash = None
               /\ y.rows = scan[s].rows \/ scan[s].rows # scan[s].hash
               /\ IF y.hash = None THEN y.rows = {} ELSE y.rows \subseteq y.hash,
           y.imported =>
               /\ y.status # "SCANNING" /\ y.rows = y.hash
               /\ Quiet /\ scan[s].gen = root.gen => y.seen = disk.effects,
           x.pc \notin Recovering \cup Walking, x.pc \in Holding => x.scan \in Scans,
           x.pc \in Imports =>
               /\ x.scan = s
               /\ x.pc \in Owning /\ y.status = "SCANNING" => y.hash = x.files
               /\ x.pc \in Stored /\ y.status = "SCANNING" => y.rows = x.files
               /\ Quiet /\ scan[s].gen = root.gen => x.seen = disk.effects
    PROVE  Inv'
<1>1. scan' \in [Scans -> ScanType] /\ scan'[s] = y /\ \A t \in Scans : t # s => scan'[t] = scan[t]
  BY DEF Inv, Typed
<1>2. /\ local' \in [Workers -> Requests] /\ LocalTyped'
      /\ \A v \in Workers : v # w => local'[v] = local[v]
      /\ local'[w] = x
  BY RequestMoves DEF Inv
<1>3. Typed'
  BY <1>1, <1>2 DEF Inv, Typed
<1>4. ScanInv'
  <2> SUFFICES ASSUME NEW t \in Scans
               PROVE  /\ scan'[t].gen <= root.gen
                      /\ scan'[t].status = "NONE" =>
                            command[t].status = "NONE" /\ report[t].files = None /\ scan'[t].rows = {}
                      /\ scan'[t].imported => scan'[t].status \notin {"NONE", "SCANNING"} /\ scan'[t].rows = scan'[t].hash
                      /\ scan'[t].status = "SCANNING" =>
                            IF scan'[t].hash = None THEN scan'[t].rows = {} ELSE scan'[t].rows \subseteq scan'[t].hash
    BY DEF ScanInv
  <2>1. CASE t = s
    <3>1. scan[s].gen <= root.gen
      BY DEF Inv, ScanInv
    <3> QED
      BY <1>1, <2>1, <3>1
  <2>2. CASE t # s
    BY <1>1, <2>2 DEF Inv, ScanInv
  <2> QED
    BY <2>1, <2>2
<1>5. ImportInv'
  <2> SUFFICES ASSUME NEW v \in Workers
               PROVE  /\ local'[v].pc \in Imports =>
                            /\ scan'[local'[v].scan].status # "NONE"
                            /\ scan'[local'[v].scan].status = "SCANNING" =>
                                  /\ local'[v].pc \in Owning => scan'[local'[v].scan].hash = local'[v].files
                                  /\ local'[v].pc \in Stored => scan'[local'[v].scan].rows = local'[v].files
                      /\ local'[v].pc \in Walking => local'[v].gen <= root.gen
    BY DEF ImportInv
  <2>1. CASE v = w
    BY <1>1, <1>2, <2>1
  <2>2. CASE v # w
    <3>1. local'[v] = local[v] /\ (local[v].pc \in Imports => local[v].scan \in Scans)
      BY <1>2, <2>2, RequestFacts
    <3>2. CASE local[v].pc \in Imports /\ local[v].scan = s
      <4>1. local[v].files # None
        BY RequestFacts, InventoryAssumption DEF Requests, Inventories
      <4>2. local[v].pc \in Stored => local[v].pc \in Owning
        BY DEF Owning, Stored
      <4>3. /\ local[v].pc \in Owning => scan[s].hash = local[v].files
            /\ local[v].pc \in Stored => scan[s].rows = local[v].files
        BY <3>2 DEF Inv, ImportInv
      <4>4. local[v].pc \in Walking => local[v].gen <= root.gen
        BY DEF Inv, ImportInv
      <4> QED
        BY <1>1, <3>1, <3>2, <4>1, <4>2, <4>3, <4>4
    <3>3. CASE ~(local[v].pc \in Imports /\ local[v].scan = s)
      BY <1>1, <3>1, <3>3 DEF Inv, ImportInv
    <3> QED
      BY <3>2, <3>3
  <2> QED
    BY <2>1, <2>2
<1>6. SeenInv'
  <2>1. Quiet' = Quiet
    BY DEF Quiet
  <2> SUFFICES ASSUME Quiet
               PROVE  /\ \A t \in Scans : scan'[t].gen = root.gen =>
                            /\ report[t].files # None => report[t].seen = disk.effects
                            /\ scan'[t].imported => scan'[t].seen = disk.effects
                      /\ \A v \in Workers :
                            /\ local'[v].pc \in Imports /\ scan'[local'[v].scan].gen = root.gen
                                  => local'[v].seen = disk.effects
                            /\ local'[v].pc = "import" /\ local'[v].gen = root.gen => local'[v].seen = disk.effects
    BY <2>1 DEF SeenInv
  <2>2. \A t \in Scans : scan'[t].gen = scan[t].gen
    BY <1>1
  <2>3. ASSUME NEW t \in Scans, scan'[t].gen = root.gen
        PROVE  /\ report[t].files # None => report[t].seen = disk.effects
               /\ scan'[t].imported => scan'[t].seen = disk.effects
    <3>1. CASE t = s
      BY <1>1, <2>3, <3>1 DEF Inv, SeenInv
    <3>2. CASE t # s
      BY <1>1, <2>3, <3>2 DEF Inv, SeenInv
    <3> QED
      BY <3>1, <3>2
  <2>4. ASSUME NEW v \in Workers
        PROVE  /\ local'[v].pc \in Imports /\ scan'[local'[v].scan].gen = root.gen
                     => local'[v].seen = disk.effects
               /\ local'[v].pc = "import" /\ local'[v].gen = root.gen => local'[v].seen = disk.effects
    <3>1. CASE v = w
      BY <1>1, <1>2, <2>2, <3>1 DEF Walking
    <3>2. CASE v # w
      <4>1. local'[v] = local[v] /\ (local[v].pc \in Imports => local[v].scan \in Scans)
        BY <1>2, <3>2, RequestFacts
      <4> QED
        BY <2>2, <4>1 DEF Inv, SeenInv
    <3> QED
      BY <3>1, <3>2
  <2> QED
    BY <2>3, <2>4
<1>7. ReconInv'
  <2>1. disk.effects \in Nat
    BY GenerationTyped DEF Inv
  <2>2. \A t \in Scans : scan[t].status \in {"NONE", "SCANNING"} \/ Mild(t)
    BY <1>1 DEF Mild
  <2> QED
    BY <1>3, <2>1, <2>2, RunsKeep
<1> QED
  BY <1>2, <1>3, <1>4, <1>5, <1>6, <1>7 DEF Inv

(* What the request that imports a scan knows of it. *)
LEMMA ImportFacts ==
    ASSUME Inv, NEW w \in Workers, local[w].pc \in Imports, NEW s \in Scans, s = local[w].scan,
           scan[s].status = "SCANNING"
    PROVE  /\ local[w] \in Requests /\ local[w].files \in Inventories /\ local[w].files # None
           /\ scan[s] \in ScanType /\ ~scan[s].imported
           /\ IF scan[s].hash = None THEN scan[s].rows = {} ELSE scan[s].rows \subseteq scan[s].hash
           /\ local[w].pc \in Owning => scan[s].hash = local[w].files
           /\ local[w].pc \in Stored => scan[s].rows = local[w].files
           /\ Quiet /\ scan[s].gen = root.gen => local[w].seen = disk.effects
<1>1. local[w] \in Requests /\ scan[s] \in ScanType
  BY RequestFacts
<1>2. local[w].files \in Inventories /\ local[w].files # None
  BY <1>1, InventoryAssumption DEF Requests, Inventories
<1>3. /\ ~scan[s].imported
      /\ IF scan[s].hash = None THEN scan[s].rows = {} ELSE scan[s].rows \subseteq scan[s].hash
  BY DEF Inv, ScanInv
<1>4. /\ local[w].pc \in Owning => scan[s].hash = local[w].files
      /\ local[w].pc \in Stored => scan[s].rows = local[w].files
  BY DEF Inv, ImportInv
<1>5. Quiet /\ scan[s].gen = root.gen => local[w].seen = disk.effects
  BY DEF Inv, SeenInv
<1> QED
  BY <1>1, <1>2, <1>3, <1>4, <1>5

(* The first inventory owns the session. *)
LEMMA StepClaimInventory == ASSUME Inv, NEW w \in Workers, ClaimInventory(w) PROVE Inv'
<1>1. local[w].pc = "claim" /\ local[w].pc \in Imports
  BY DEF ClaimInventory, Imports
<1>2. PICK s \in Scans : s = local[w].scan
  BY <1>1, RequestFacts
<1>3. scan[s].status = "SCANNING"
  BY <1>1, <1>2 DEF ClaimInventory, Admitted
<1>4. /\ local[w] \in Requests /\ local[w].files \in Inventories /\ local[w].files # None
      /\ scan[s] \in ScanType /\ ~scan[s].imported
      /\ IF scan[s].hash = None THEN scan[s].rows = {} ELSE scan[s].rows \subseteq scan[s].hash
      /\ Quiet /\ scan[s].gen = root.gen => local[w].seen = disk.effects
  BY <1>1, <1>2, <1>3, ImportFacts
<1>5. PICK owner : owner = IF scan[s].hash = None THEN local[w].files ELSE scan[s].hash
  OBVIOUS
<1> DEFINE y == [scan[s] EXCEPT !.hash = owner]
<1>6. owner \in Inventories /\ owner # None
  BY <1>4, <1>5 DEF ScanType
<1>7. /\ y \in ScanType /\ y.gen = scan[s].gen /\ y.status = "SCANNING" /\ y.hash = owner
      /\ y.rows = scan[s].rows /\ y.imported = scan[s].imported
  BY <1>3, <1>4, <1>6 DEF ScanType
<1>8. /\ scan' = [scan EXCEPT ![s] = y]
      /\ UNCHANGED <<root, disk, run, command, report, clock, counts>>
      /\ IF owner = local[w].files THEN local' = [local EXCEPT ![w].pc = "store"] ELSE Finish(w)
  BY <1>2, <1>5 DEF ClaimInventory
<1>9. y.rows \subseteq y.hash /\ (y.hash = scan[s].hash \/ scan[s].hash = None)
  BY <1>4, <1>5, <1>7
<1> HIDE DEF y
<1>10. ASSUME owner = local[w].files, local' = [local EXCEPT ![w].pc = "store"] PROVE Inv'
  <2> DEFINE x == [local[w] EXCEPT !.pc = "store"]
  <2>1. /\ x \in Requests /\ x.pc = "store" /\ x.scan = local[w].scan /\ x.files = local[w].files
        /\ x.seen = local[w].seen
    BY <1>4 DEF Requests, Holding, Imports, Owning
  <2>2. local' = [local EXCEPT ![w] = x]
    BY <1>10
  <2> HIDE DEF x
  <2>3. x.pc \notin Recovering \cup Walking /\ x.pc \notin Stored
    BY <2>1 DEF Recovering, Walking, Stored
  <2>4. /\ y.imported = scan[s].imported /\ ~scan[s].imported
        /\ y.status = "SCANNING" /\ y.hash = x.files /\ y.hash # None
        /\ x.scan = s /\ (Quiet /\ scan[s].gen = root.gen => x.seen = disk.effects)
    BY <1>2, <1>4, <1>6, <1>7, <1>10, <2>1
  <2>5. ~y.imported
    BY <2>4
  <2> QED
    BY <1>3, <1>7, <1>8, <1>9, <2>1, <2>2, <2>3, <2>4, <2>5, TakeIn
<1>11. ASSUME Finish(w) PROVE Inv'
  <2>1. /\ Idle \in Requests /\ Idle.pc \notin Recovering \cup Walking /\ Idle.pc \notin Holding
        /\ Idle.pc \notin Imports
    BY IdleTyped DEF Holding, Recovering, Imports, Owning, Walking
  <2>2. local' = [local EXCEPT ![w] = Idle]
    BY <1>11 DEF Finish
  <2> QED
    BY <1>3, <1>4, <1>6, <1>7, <1>8, <1>9, <2>1, <2>2, TakeIn
<1> QED
  BY <1>8, <1>10, <1>11

(* One page of rows, or the end of them. *)
LEMMA StepStorePage == ASSUME Inv, NEW w \in Workers, StorePage(w) PROVE Inv'
<1>1. local[w].pc = "store" /\ local[w].pc \in Imports /\ local[w].pc \in Owning /\ local[w].pc \notin Stored
  BY DEF StorePage, Imports, Owning, Stored
<1>2. PICK s \in Scans : s = local[w].scan
  BY <1>1, RequestFacts
<1>3. ASSUME local[w].files \subseteq scan[s].rows, local' = [local EXCEPT ![w].pc = "media"], UNCHANGED scan
      PROVE  Inv'
  <2> DEFINE x == [local[w] EXCEPT !.pc = "media"]
  <2>1. local[w] \in Requests
    BY RequestFacts
  <2>2. /\ x \in Requests /\ x.pc = "media" /\ x.scan = s /\ x.files = local[w].files
        /\ x.seen = local[w].seen
    BY <1>2, <2>1 DEF Requests, Holding, Imports, Owning
  <2>3. local' = [local EXCEPT ![w] = x]
    BY <1>3
  <2>4. scan[s].status = "SCANNING" => scan[s].hash = local[w].files /\ scan[s].rows = local[w].files
    <3> SUFFICES ASSUME scan[s].status = "SCANNING" PROVE scan[s].hash = local[w].files /\ scan[s].rows = local[w].files
      OBVIOUS
    <3>1. scan[s].hash = local[w].files /\ local[w].files # None
      BY <1>1, <1>2, ImportFacts
    <3>2. scan[s].rows \subseteq scan[s].hash
      BY <1>1, <1>2, <3>1, ImportFacts
    <3> QED
      BY <1>3, <3>1, <3>2
  <2>5. scan[s].status # "NONE" /\ (Quiet /\ scan[s].gen = root.gen => local[w].seen = disk.effects)
    BY <1>1, <1>2 DEF Inv, ImportInv, SeenInv
  <2>6. UNCHANGED <<root, disk, run, scan, command, report, clock, counts>>
    BY <1>3 DEF StorePage
  <2> HIDE DEF x
  <2>7. x.pc \in Imports
    BY <2>2 DEF Imports, Owning
  <2> QED
    BY <2>2, <2>3, <2>4, <2>5, <2>6, <2>7, ImportMoves
<1>4. ASSUME Admitted(w), NEW p \in local[w].files \ scan[s].rows,
             scan' = [scan EXCEPT ![s].rows = @ \cup {p}], UNCHANGED local
      PROVE  Inv'
  <2>1. scan[s].status = "SCANNING"
    BY <1>1, <1>2, <1>4 DEF Admitted
  <2>2. /\ local[w] \in Requests /\ local[w].files \in Inventories /\ local[w].files # None
        /\ scan[s] \in ScanType /\ ~scan[s].imported
        /\ IF scan[s].hash = None THEN scan[s].rows = {} ELSE scan[s].rows \subseteq scan[s].hash
        /\ scan[s].hash = local[w].files
        /\ Quiet /\ scan[s].gen = root.gen => local[w].seen = disk.effects
    BY <1>1, <1>2, <2>1, ImportFacts
  <2>3. PICK rows \in Inventories : rows = scan[s].rows \cup {p}
    BY <1>4, <2>2 DEF Inventories, ScanType
  <2> DEFINE y == [scan[s] EXCEPT !.rows = rows]
  <2>4. /\ y \in ScanType /\ y.gen = scan[s].gen /\ y.status = "SCANNING" /\ y.hash = scan[s].hash
        /\ y.rows = rows /\ y.imported = scan[s].imported
    BY <2>1, <2>2, <2>3 DEF ScanType
  <2>5. scan' = [scan EXCEPT ![s] = y]
    BY <1>4, <2>3
  <2>6. y.rows \subseteq y.hash /\ scan[s].rows # scan[s].hash /\ y.hash # None
    BY <1>4, <2>2, <2>3, <2>4
  <2>7. UNCHANGED <<root, disk, run, command, report, clock, counts>>
    BY DEF StorePage
  <2>8. local' = [local EXCEPT ![w] = local[w]]
    BY <1>4 DEF Inv, Typed
  <2>9. local[w].pc \notin Recovering \cup Walking
    BY <1>1 DEF Recovering, Walking
  <2> HIDE DEF y
  <2> QED
    BY <1>1, <1>2, <2>1, <2>2, <2>4, <2>5, <2>6, <2>7, <2>8, <2>9, TakeIn
<1> QED
  BY <1>2, <1>3, <1>4 DEF StorePage

(* The session is imported. *)
LEMMA StepFinishImport == ASSUME Inv, NEW w \in Workers, FinishImport(w) PROVE Inv'
<1>1. local[w].pc = "finish" /\ local[w].pc \in Imports /\ local[w].pc \in Owning /\ local[w].pc \in Stored
  BY DEF FinishImport, Imports, Owning, Stored
<1>2. PICK s \in Scans : s = local[w].scan
  BY <1>1, RequestFacts
<1>3. scan[s].status = "SCANNING"
  BY <1>1, <1>2 DEF FinishImport, Admitted
<1>4. /\ local[w] \in Requests /\ scan[s] \in ScanType
      /\ scan[s].hash = local[w].files /\ scan[s].rows = local[w].files
      /\ Quiet /\ scan[s].gen = root.gen => local[w].seen = disk.effects
  BY <1>1, <1>2, <1>3, ImportFacts
<1>5. PICK status \in {"READING", "COMPLETED"} :
          scan' = [scan EXCEPT ![s].status = status, ![s].seen = local[w].seen, ![s].imported = TRUE]
  BY <1>2 DEF FinishImport, AfterImport
<1>6. PICK seen \in Nat : seen = local[w].seen
  BY <1>4 DEF Requests
<1> DEFINE x == [local[w] EXCEPT !.pc = "report"]
           y == [scan[s] EXCEPT !.status = status, !.seen = seen, !.imported = TRUE]
<1>7. x \in Requests /\ x.pc = "report" /\ x.scan = s
  BY <1>2, <1>4 DEF Requests, Holding
<1>8. /\ y \in ScanType /\ y.gen = scan[s].gen /\ y.status = status /\ y.hash = scan[s].hash
      /\ y.rows = scan[s].rows /\ y.seen = seen
  BY <1>4 DEF ScanType
<1>9. scan' = [scan EXCEPT ![s] = y]
  BY <1>5, <1>6 DEF Inv, Typed
<1>10. /\ local' = [local EXCEPT ![w] = x]
       /\ UNCHANGED <<root, disk, run, command, report, clock, counts>>
  BY DEF FinishImport
<1> HIDE DEF x, y
<1>11. x.pc \notin Recovering \cup Walking /\ x.pc \notin Imports
  BY <1>7 DEF Recovering, Walking, Imports, Owning
<1>12. /\ y.status # "NONE" /\ y.status # "SCANNING" /\ y.rows = y.hash
       /\ Quiet /\ scan[s].gen = root.gen => y.seen = disk.effects
  BY <1>4, <1>6, <1>8
<1> QED
  BY <1>3, <1>7, <1>8, <1>9, <1>10, <1>11, <1>12, TakeIn
-----------------------------------------------------------------------------
(* Scans that begin, and discoveries. *)

(* A new scan takes the place of one that did not exist: no report, request or
   reconciliation knew it. *)
LEMMA NewScan ==
    ASSUME Inv, Typed', LocalTyped', NEW s \in Scans, NEW y \in ScanType, scan' = [scan EXCEPT ![s] = y],
           scan[s].status = "NONE", y.gen = root.gen, y.status # "NONE",
           y.status = "SCANNING" => y.hash = None /\ y.rows = {},
           y.imported => y.status # "SCANNING" /\ y.rows = y.hash /\ (Quiet => y.seen = disk.effects),
           \A t \in Scans : t # s /\ command[t].status = "NONE" => command'[t].status = "NONE",
           UNCHANGED <<root, disk, report>>, Quiet' => Quiet, \A v \in Workers : Leaves(v),
           \A r \in Runs :
               /\ run'[r].effect = run[r].effect
               /\ run'[r].recon # "NOT_STARTED" \/ run'[r].undo # "NONE" => run'[r].work = "SETTLED"
               /\ run'[r].recon = "COMPLETED" /\ run'[r].undo # "EFFECT" =>
                     run[r].recon = "COMPLETED" /\ run[r].undo # "EFFECT" /\ run'[r].scan = run[r].scan
    PROVE  Inv'
<1>1. scan'[s] = y /\ \A t \in Scans : t # s => scan'[t] = scan[t]
  BY DEF Inv, Typed
<1>2. root.gen \in Nat /\ disk.effects \in Nat
  BY GenerationTyped DEF Inv
<1>3. ASSUME NEW v \in Workers
      PROVE  /\ \/ local'[v].pc \notin Imports
                \/ /\ local'[v] = local[v] /\ local[v].scan \in Scans /\ scan'[local[v].scan] = scan[local[v].scan]
             /\ local'[v].pc = "import" => local'[v] = local[v]
             /\ local'[v].pc \in Walking => local'[v] = local[v] \/ local'[v].gen = root.gen
  <2>1. Leaves(v)
    OBVIOUS
  <2>2. local[v].pc \in Imports => local[v].scan \in Scans /\ scan[local[v].scan].status # "NONE"
    BY RequestFacts DEF Inv, ImportInv
  <2>3. local[v].pc \in Imports => local[v].scan \in Scans /\ scan'[local[v].scan] = scan[local[v].scan]
    BY <1>1, <2>2
  <2> QED
    BY <2>1, <2>3 DEF Leaves, Imports, Owning, Walking
<1>4. ScanInv'
  <2> SUFFICES ASSUME NEW t \in Scans
               PROVE  /\ scan'[t].gen <= root.gen
                      /\ scan'[t].status = "NONE" =>
                            command'[t].status = "NONE" /\ report[t].files = None /\ scan'[t].rows = {}
                      /\ scan'[t].imported => scan'[t].status \notin {"NONE", "SCANNING"} /\ scan'[t].rows = scan'[t].hash
                      /\ scan'[t].status = "SCANNING" =>
                            IF scan'[t].hash = None THEN scan'[t].rows = {} ELSE scan'[t].rows \subseteq scan'[t].hash
    BY DEF ScanInv
  <2>1. CASE t = s
    BY <1>1, <1>2, <2>1
  <2>2. CASE t # s
    BY <1>1, <2>2 DEF Inv, ScanInv
  <2> QED
    BY <2>1, <2>2
<1>5. ImportInv'
  <2> SUFFICES ASSUME NEW v \in Workers
               PROVE  /\ local'[v].pc \in Imports =>
                            /\ scan'[local'[v].scan].status # "NONE"
                            /\ scan'[local'[v].scan].status = "SCANNING" =>
                                  /\ local'[v].pc \in Owning => scan'[local'[v].scan].hash = local'[v].files
                                  /\ local'[v].pc \in Stored => scan'[local'[v].scan].rows = local'[v].files
                      /\ local'[v].pc \in Walking => local'[v].gen <= root.gen
    BY DEF ImportInv
  <2>1. local'[v].pc \in Walking => local'[v].gen <= root.gen
    BY <1>2, <1>3 DEF Inv, ImportInv
  <2>2. CASE local'[v].pc \in Imports
    <3>1. local'[v] = local[v] /\ scan'[local[v].scan] = scan[local[v].scan]
      BY <1>3, <2>2
    <3> QED
      BY <2>1, <2>2, <3>1 DEF Inv, ImportInv
  <2> QED
    BY <2>1, <2>2
<1>6. SeenInv'
  <2> SUFFICES ASSUME Quiet
               PROVE  /\ \A t \in Scans : scan'[t].gen = root.gen =>
                            /\ report[t].files # None => report[t].seen = disk.effects
                            /\ scan'[t].imported => scan'[t].seen = disk.effects
                      /\ \A v \in Workers :
                            /\ local'[v].pc \in Imports /\ scan'[local'[v].scan].gen = root.gen
                                  => local'[v].seen = disk.effects
                            /\ local'[v].pc = "import" /\ local'[v].gen = root.gen => local'[v].seen = disk.effects
    BY DEF SeenInv
  <2>1. ASSUME NEW t \in Scans, scan'[t].gen = root.gen
        PROVE  /\ report[t].files # None => report[t].seen = disk.effects
               /\ scan'[t].imported => scan'[t].seen = disk.effects
    <3>1. report[s].files = None
      BY DEF Inv, ScanInv
    <3>2. CASE t = s
      BY <1>1, <3>1, <3>2
    <3>3. CASE t # s
      BY <1>1, <2>1, <3>3 DEF Inv, SeenInv
    <3> QED
      BY <3>2, <3>3
  <2>2. ASSUME NEW v \in Workers
        PROVE  /\ local'[v].pc \in Imports /\ scan'[local'[v].scan].gen = root.gen
                     => local'[v].seen = disk.effects
               /\ local'[v].pc = "import" /\ local'[v].gen = root.gen => local'[v].seen = disk.effects
    BY <1>3 DEF Inv, SeenInv
  <2> QED
    BY <2>1, <2>2
<1>7. ReconInv'
  <2>1. \A t \in Scans : scan[t].status \in {"NONE", "SCANNING"} \/ Mild(t)
    BY <1>1 DEF Mild
  <2> QED
    BY <1>2, <2>1, ReconKept
<1> QED
  BY <1>4, <1>5, <1>6, <1>7 DEF Inv

(* What CreateRemoteScan writes. *)
LEMMA CreatedScan ==
    ASSUME Inv, NEW s \in Scans, CreateRemoteScan(s)
    PROVE  \E y \in ScanType :
               /\ scan' = [scan EXCEPT ![s] = y] /\ scan' \in [Scans -> ScanType]
               /\ scan[s].status = "NONE"
               /\ y.gen = root.gen /\ y.status = "SCANNING" /\ y.hash = None /\ y.rows = {} /\ ~y.imported
               /\ command' \in [Scans -> CommandType]
               /\ \A t \in Scans : t # s => command'[t] = command[t]
               /\ clock' \in Nat
<1>1. root.gen \in Nat /\ root.rev \in Nat /\ clock \in Nat
  BY GenerationTyped DEF Inv, Typed
<1>2. PICK n \in Nat : n = clock + 1
  BY <1>1
<1> DEFINE y == [NoScan EXCEPT !.status = "SCANNING", !.gen = root.gen, !.started = n]
<1>3. NoScan \in ScanType /\ NoScan.hash = None /\ NoScan.rows = {} /\ ~NoScan.imported
  BY DEF NoScan, ScanType, Inventories
<1>4. /\ y \in ScanType /\ y.gen = root.gen /\ y.status = "SCANNING" /\ y.hash = NoScan.hash
      /\ y.rows = NoScan.rows /\ y.imported = NoScan.imported
  BY <1>1, <1>3 DEF ScanType
<1>5. scan' = [scan EXCEPT ![s] = y] /\ clock' = n /\ scan[s].status = "NONE"
  BY <1>2 DEF CreateRemoteScan, Fresh
<1> HIDE DEF y
<1>6. scan' \in [Scans -> ScanType]
  BY <1>4, <1>5 DEF Inv, Typed
<1>7. [status |-> "OPEN", rev |-> root.rev] \in CommandType
  BY <1>1 DEF CommandType
<1>8. command' \in [Scans -> CommandType] /\ \A t \in Scans : t # s => command'[t] = command[t]
  BY <1>7 DEF CreateRemoteScan, Inv, Typed
<1>9. ~y.imported
  BY <1>3, <1>4
<1> QED
  BY <1>2, <1>3, <1>4, <1>5, <1>6, <1>8, <1>9

(* Nothing is published, and no reconciliation completes. *)
LEMMA SameRuns ==
    ASSUME Inv, UNCHANGED run
    PROVE  /\ Quiet' => Quiet
           /\ \A r \in Runs :
               /\ run'[r].effect = run[r].effect
               /\ run'[r].recon # "NOT_STARTED" \/ run'[r].undo # "NONE" => run'[r].work = "SETTLED"
               /\ run'[r].recon = "COMPLETED" /\ run'[r].undo # "EFFECT" =>
                     run[r].recon = "COMPLETED" /\ run[r].undo # "EFFECT" /\ run'[r].scan = run[r].scan
BY DEF Inv, ReconInv, Quiet

(* A person, or a monitor, asks the paired Mac for a scan. *)
LEMMA StepQueueScan == ASSUME Inv, NEW s \in Scans, QueueScan(s) PROVE Inv'
<1>1. UNCHANGED <<root, disk, run, report, local>> /\ counts' \in CountType
  BY EventCounted DEF Inv, QueueScan
<1>2. PICK y \in ScanType :
               /\ scan' = [scan EXCEPT ![s] = y] /\ scan' \in [Scans -> ScanType]
               /\ scan[s].status = "NONE"
               /\ y.gen = root.gen /\ y.status = "SCANNING" /\ y.hash = None /\ y.rows = {} /\ ~y.imported
               /\ command' \in [Scans -> CommandType]
               /\ \A t \in Scans : t # s => command'[t] = command[t]
               /\ clock' \in Nat
  BY CreatedScan DEF QueueScan
<1>3. LocalTyped' /\ \A v \in Workers : Leaves(v)
  BY <1>1, RequestsKeep DEF Inv
<1>4. Typed'
  BY <1>1, <1>2 DEF Inv, Typed
<1> QED
  BY <1>1, <1>2, <1>3, <1>4, SameRuns, NewScan

(* The Bridge walks the folder: what it reports saw every effect. *)
LEMMA StepDiscover == ASSUME Inv, NEW s \in Scans, Discover(s) PROVE Inv'
<1>1. disk.files \in Inventories /\ disk.effects \in Nat /\ root.gen \in Nat
  BY GenerationTyped DEF Inv
<1>2. [files |-> disk.files, seen |-> disk.effects] \in ReportType
  BY <1>1 DEF ReportType
<1>3. /\ report' \in [Scans -> ReportType] /\ report'[s].seen = disk.effects
      /\ \A t \in Scans : t # s => report'[t] = report[t]
  BY <1>2 DEF Discover, Inv, Typed
<1>4. UNCHANGED <<root, disk, run, scan, command, local, clock>>
  BY DEF Discover
<1>5. counts' \in CountType
  BY EventCounted DEF Inv, Typed, Discover
<1>6. LocalTyped'
  BY <1>4, RequestsKeep DEF Inv
<1>7. Typed'
  BY <1>3, <1>4, <1>5 DEF Inv, Typed
<1>8. ScanInv'
  <2>1. scan[s].status # "NONE"
    BY OpenExists DEF Discover
  <2> QED
    BY <1>3, <1>4, <2>1 DEF Inv, ScanInv
<1>9. ImportInv'
  BY <1>4 DEF Inv, ImportInv
<1>10. SeenInv'
  <2>1. Quiet' = Quiet
    BY <1>4 DEF Quiet
  <2> QED
    BY <1>3, <1>4, <2>1 DEF Inv, SeenInv
<1>11. ReconInv'
  BY <1>1, <1>4, <1>7, RunsKeep, ScansKeep
<1> QED
  BY <1>6, <1>7, <1>8, <1>9, <1>10, <1>11 DEF Inv

(* A local scan walks the folder. *)
LEMMA StepWalk == ASSUME Inv, NEW w \in Workers, Walk(w) PROVE Inv'
<1>1. disk.files \in Inventories /\ disk.effects \in Nat /\ root.gen \in Nat
  BY GenerationTyped DEF Inv
<1>2. PICK n \in Nat : n = clock + 1
  BY DEF Inv, Typed
<1> DEFINE x == [local[w] EXCEPT !.pc = "import", !.files = disk.files, !.seen = disk.effects, !.started = n]
<1>3. local[w] \in Requests /\ local[w].pc = "walk"
  BY RequestFacts DEF Walk
<1>4. x \in Requests /\ x.pc = "import" /\ x.seen = disk.effects /\ x.gen = local[w].gen
  BY <1>1, <1>3 DEF Requests, Walking
<1>5. local' = [local EXCEPT ![w] = x] /\ clock' = n
  BY <1>2 DEF Walk
<1>6. UNCHANGED <<root, disk, run, scan, command, report, counts>>
  BY DEF Walk
<1> HIDE DEF x
<1>7. x.pc \notin Holding /\ x.pc \notin Recovering /\ x.pc \notin Imports
  BY <1>4 DEF Holding, Recovering, Imports, Owning
<1>8. /\ local' \in [Workers -> Requests] /\ LocalTyped'
      /\ \A v \in Workers : v # w => local'[v] = local[v]
      /\ local'[w] = x
  BY <1>4, <1>5, <1>7, RequestMoves DEF Inv
<1>9. Typed'
  BY <1>5, <1>6, <1>8 DEF Inv, Typed
<1>10. ScanInv'
  BY <1>6 DEF Inv, ScanInv
<1>11. local[w].gen <= root.gen
  BY <1>3 DEF Inv, ImportInv, Walking
<1>12. ImportInv'
  BY <1>4, <1>6, <1>7, <1>8, <1>11 DEF Inv, ImportInv
<1>13. SeenInv'
  <2>1. Quiet' = Quiet
    BY <1>6 DEF Quiet
  <2> QED
    BY <1>4, <1>6, <1>7, <1>8, <2>1 DEF Inv, SeenInv
<1>14. ReconInv'
  BY <1>1, <1>6, <1>9, RunsKeep, ScansKeep
<1> QED
  BY <1>8, <1>9, <1>10, <1>12, <1>13, <1>14 DEF Inv
-----------------------------------------------------------------------------
(* The recovery of reconciliations. *)

(* A step of recovery: runs keep their work, none completes its reconciliation. *)
LEMMA RecoveryKeeps ==
    ASSUME Inv, Typed', LocalTyped', \A v \in Workers : Leaves(v), \A s \in Scans : Mild(s),
           \A s \in Scans : command[s].status = "NONE" => command'[s].status = "NONE",
           UNCHANGED <<root, disk, report>>, NEW r \in Runs, run[r].work = "SETTLED",
           \A q \in Runs : q # r => run'[q] = run[q],
           run'[r].work = run[r].work, run'[r].undo = run[r].undo, run'[r].effect = run[r].effect,
           run'[r].recon # "COMPLETED"
    PROVE  Inv'
<1>1. root.gen \in Nat /\ disk.effects \in Nat
  BY GenerationTyped DEF Inv
<1>2. Settled
  BY NothingPublished
<1>3. Calm
  BY <1>1, <1>2 DEF Calm
<1>4. \A q \in Runs : run[q].recon # "NOT_STARTED" \/ run[q].undo # "NONE" => run[q].work = "SETTLED"
  BY DEF Inv, ReconInv
<1>5. ReconInv'
  BY <1>1, <1>4, ReconKept
<1> QED
  BY <1>3, <1>5, CalmKeeps DEF Inv

(* The run a recovery works on. *)
LEMMA RecoveredRun ==
    ASSUME Inv, NEW w \in Workers, local[w].pc \in Recovering
    PROVE  local[w] \in Requests /\ local[w].run \in Runs /\ run[local[w].run] \in RunType
BY RequestFacts DEF Inv, LocalTyped, Typed

(* The binding of a run to a scan. *)
LEMMA RunBound ==
    ASSUME Typed, NEW r \in Runs, NEW s \in Scans, NEW epoch \in Nat,
           run' = [run EXCEPT ![r] = [run[r] EXCEPT !.recon = "IN_PROGRESS", !.scan = s,
                                                    !.epoch = epoch, !.rev = root.rev]]
    PROVE  /\ run' \in [Runs -> RunType]
           /\ \A q \in Runs : q # r => run'[q] = run[q]
           /\ run'[r].work = run[r].work /\ run'[r].undo = run[r].undo
           /\ run'[r].effect = run[r].effect /\ run'[r].recon = "IN_PROGRESS"
<1> DEFINE x == [run[r] EXCEPT !.recon = "IN_PROGRESS", !.scan = s, !.epoch = epoch, !.rev = root.rev]
<1>1. run[r] \in RunType /\ root.rev \in Nat
  BY GenerationTyped DEF Typed
<1>2. x \in RunType
  <2>1. \A y \in RunType, n \in Nat : [y EXCEPT !.epoch = n] \in RunType /\ [y EXCEPT !.rev = n] \in RunType
    BY DEF RunType
  <2>2. \A y \in RunType : [y EXCEPT !.recon = "IN_PROGRESS"] \in RunType /\ [y EXCEPT !.scan = s] \in RunType
    BY DEF RunType
  <2> QED
    BY <1>1, <2>1, <2>2
<1>3. x.work = run[r].work /\ x.undo = run[r].undo /\ x.effect = run[r].effect /\ x.recon = "IN_PROGRESS"
  BY <1>1, Zenon DEF RunType
<1> HIDE DEF x
<1>4. run'[r] = x /\ \A q \in Runs : q # r => run'[q] = run[q]
  BY DEF Typed, x
<1> QED
  BY <1>2, <1>3, <1>4 DEF Typed, x

(* Bind is such a binding. *)
LEMMA BindBinds ==
    ASSUME Typed, NEW r \in Runs, NEW s \in Scans, run' = Bind(r, s)
    PROVE  /\ run' \in [Runs -> RunType]
           /\ \A q \in Runs : q # r => run'[q] = run[q]
           /\ run'[r].work = run[r].work /\ run'[r].undo = run[r].undo
           /\ run'[r].effect = run[r].effect /\ run'[r].recon = "IN_PROGRESS"
<1>1. run[r] \in RunType /\ run[r].epoch \in Nat /\ run \in [Runs -> RunType]
  BY DEF Typed, RunType
<1>2. [run[r] EXCEPT !.recon = "IN_PROGRESS", !.scan = s, !.rev = root.rev]
        = [run[r] EXCEPT !.recon = "IN_PROGRESS", !.scan = s, !.epoch = run[r].epoch, !.rev = root.rev]
  BY <1>1 DEF RunType
<1>3. run' = [run EXCEPT ![r] = [run[r] EXCEPT !.recon = "IN_PROGRESS", !.scan = s, !.rev = root.rev]]
  BY <1>1 DEF Bind
<1>4. run' = [run EXCEPT ![r] = [run[r] EXCEPT !.recon = "IN_PROGRESS", !.scan = s,
                                               !.epoch = run[r].epoch, !.rev = root.rev]]
  BY <1>2, <1>3, Zenon
<1> QED
  BY <1>1, <1>4, RunBound

(* The request goes on to inspect a scan. *)
LEMMA Inspects ==
    ASSUME Inv, NEW w \in Workers, local[w].pc \in Recovering, NEW s \in Scans, ToInspect(w, s)
    PROVE  local' \in [Workers -> Requests] /\ LocalTyped' /\ \A v \in Workers : Leaves(v)
<1> DEFINE x == [local[w] EXCEPT !.pc = "inspect", !.scan = s, !.rev = root.rev]
<1>1. local[w] \in Requests /\ local[w].run \in Runs /\ root.rev \in Nat
  BY RecoveredRun, GenerationTyped DEF Inv
<1>2. x \in Requests /\ x.pc = "inspect" /\ x.scan = s /\ x.run = local[w].run
  BY <1>1 DEF Requests, Holding
<1>3. local' = [local EXCEPT ![w] = x]
  BY DEF ToInspect, Inv, Typed
<1> HIDE DEF x
<1>4. x.pc \notin Imports \cup Walking
  BY <1>2 DEF Imports, Owning, Walking
<1> QED
  BY <1>1, <1>2, <1>3, <1>4, RequestLeaves DEF Inv

(* The scan of a binding that is given up fails if it is active. *)
LEMMA GivenUp ==
    ASSUME Typed, NEW s \in Scans,
           scan' = IF Active(s) THEN [scan EXCEPT ![s].status = "FAILED"] ELSE scan
    PROVE  scan' \in [Scans -> ScanType] /\ \A t \in Scans : Mild(t)
<1>1. CASE Active(s)
  <2>1. scan[s].status # "NONE"
    BY <1>1 DEF Active
  <2> QED
    BY <1>1, <2>1, ScanMoves
<1>2. CASE ~Active(s)
  BY <1>2, ScansKeep DEF Typed
<1> QED
  BY <1>1, <1>2

(* A binding of an older connection is given up. *)
LEMMA StepAdmitStaleRevision == ASSUME Inv, NEW w \in Workers, AdmitStaleRevision(w) PROVE Inv'
<1>1. PICK r \in Runs : r = local[w].run /\ run[r].work = "SETTLED" /\ run[r] \in RunType
  BY RecoveredRun DEF AdmitStaleRevision, Admissible, Obliged, Recovering
<1>2. PICK s \in Scans : s = run[r].scan
  BY <1>1 DEF AdmitStaleRevision, RunType
<1>3. scan' \in [Scans -> ScanType] /\ \A t \in Scans : Mild(t)
  <2>1. scan' = IF Active(s) THEN [scan EXCEPT ![s].status = "FAILED"] ELSE scan
    BY <1>1, <1>2 DEF AdmitStaleRevision
  <2>2. Typed
    BY DEF Inv
  <2> QED
    BY <2>1, <2>2, GivenUp
<1>4. /\ command' \in [Scans -> CommandType]
      /\ \A t \in Scans : command[t].status = "NONE" => command'[t].status = "NONE"
  BY CommandsClose DEF Inv, AdmitStaleRevision
<1>5. /\ run' \in [Runs -> RunType] /\ \A q \in Runs : q # r => run'[q] = run[q]
      /\ run'[r].work = run[r].work /\ run'[r].undo = run[r].undo
      /\ run'[r].effect = run[r].effect /\ run'[r].recon = "REQUIRED"
  <2>1. run' = Required(r, run[r].work, run[r].undo)
    BY <1>1 DEF AdmitStaleRevision
  <2>2. run[r].work \in WorkStates /\ run[r].undo \in WorkStates
    BY <1>1 DEF RunType
  <2> QED
    BY <2>1, <2>2, RunRequired DEF Inv
<1>6. local' \in [Workers -> Requests] /\ LocalTyped' /\ \A v \in Workers : Leaves(v)
  BY RequestEnds DEF Inv, AdmitStaleRevision
<1>7. UNCHANGED <<root, disk, report, clock, counts>>
  BY DEF AdmitStaleRevision
<1>8. Typed'
  BY <1>3, <1>4, <1>5, <1>6, <1>7 DEF Inv, Typed
<1> QED
  BY <1>1, <1>3, <1>4, <1>5, <1>6, <1>7, <1>8, RecoveryKeeps

(* A binding is inspected, or a newer scan adopted in its place. *)
LEMMA StepAdmitBound == ASSUME Inv, NEW w \in Workers, AdmitBound(w) PROVE Inv'
<1> DEFINE r == local[w].run
           b == run[r].scan
<1>1. r \in Runs /\ run[r].work = "SETTLED" /\ run[r] \in RunType
  BY RecoveredRun DEF AdmitBound, Admissible, Obliged, Recovering
<1>2. b \in Scans
  BY <1>1 DEF AdmitBound, RunType
<1>3. local[w].pc \in Recovering /\ Typed
  BY DEF AdmitBound, Admissible, Recovering, Inv
<1>4. /\ UNCHANGED <<root, disk, report, clock, counts>>
      /\ \/ ToInspect(w, b) /\ UNCHANGED <<run, scan, command>>
         \/ \E s \in Adoptable(r) :
               /\ command' = Close({b}) /\ ToInspect(w, s)
               /\ scan' = IF Active(b) THEN [scan EXCEPT ![b].status = "FAILED"] ELSE scan
               /\ run' = [run EXCEPT ![r] = [run[r] EXCEPT !.recon = "IN_PROGRESS", !.scan = s,
                                                        !.epoch = run[r].epoch + 1, !.rev = root.rev]]
  BY Zenon DEF AdmitBound
<1> HIDE DEF r, b
<1>5. ASSUME ToInspect(w, b), UNCHANGED <<run, scan, command>> PROVE Inv'
  <2>1. local' \in [Workers -> Requests] /\ LocalTyped' /\ \A v \in Workers : Leaves(v)
    BY <1>2, <1>3, <1>5, Inspects
  <2>2. counts' \in CountType
    BY <1>4 DEF Inv, Typed
  <2> QED
    BY <1>4, <1>5, <2>1, <2>2, OnlyRequest
<1>6. ASSUME NEW s \in Scans, command' = Close({b}), ToInspect(w, s),
             scan' = IF Active(b) THEN [scan EXCEPT ![b].status = "FAILED"] ELSE scan,
             run' = [run EXCEPT ![r] = [run[r] EXCEPT !.recon = "IN_PROGRESS", !.scan = s,
                                                      !.epoch = run[r].epoch + 1, !.rev = root.rev]]
      PROVE  Inv'
  <2>1. scan' \in [Scans -> ScanType] /\ \A t \in Scans : Mild(t)
    BY <1>2, <1>3, <1>6, GivenUp
  <2>2. /\ command' \in [Scans -> CommandType]
        /\ \A t \in Scans : command[t].status = "NONE" => command'[t].status = "NONE"
    BY <1>3, <1>6, CommandsClose
  <2>3. local' \in [Workers -> Requests] /\ LocalTyped' /\ \A v \in Workers : Leaves(v)
    BY <1>3, <1>6, Inspects
  <2>4. PICK epoch \in Nat : epoch = run[r].epoch + 1
    BY <1>1 DEF RunType
  <2>5. /\ run' \in [Runs -> RunType]
        /\ \A q \in Runs : q # r => run'[q] = run[q]
        /\ run'[r].work = run[r].work /\ run'[r].undo = run[r].undo
        /\ run'[r].effect = run[r].effect /\ run'[r].recon = "IN_PROGRESS"
    <3>1. run' = [run EXCEPT ![r] = [run[r] EXCEPT !.recon = "IN_PROGRESS", !.scan = s,
                                                   !.epoch = epoch, !.rev = root.rev]]
      BY <1>6, <2>4
    <3> QED
      BY <1>1, <1>3, <3>1, RunBound
  <2>6. Typed'
    BY <1>4, <2>1, <2>2, <2>3, <2>5 DEF Inv, Typed
  <2> QED
    BY <1>1, <1>4, <2>1, <2>2, <2>3, <2>5, <2>6, RecoveryKeeps
<1>7. Adoptable(r) \subseteq Scans
  BY DEF Adoptable, Latest, CompletedScans
<1> QED
  BY <1>4, <1>5, <1>6, <1>7

(* Without a binding: a remote scan is bound, or a local walk begins. *)
LEMMA StepAdmitUnbound == ASSUME Inv, NEW w \in Workers, NEW s \in Scans, AdmitUnbound(w, s) PROVE Inv'
<1>1. PICK r \in Runs : r = local[w].run /\ run[r].work = "SETTLED" /\ run[r] \in RunType
  BY RecoveredRun DEF AdmitUnbound, Admissible, Obliged, Recovering
<1>2. local[w].pc \in Recovering
  BY DEF AdmitUnbound, Admissible, Recovering
<1>3. UNCHANGED <<root, disk, report, counts>>
  BY DEF AdmitUnbound
<1>4. \A q \in Runs : run[q].recon # "NOT_STARTED" \/ run[q].undo # "NONE" => run[q].work = "SETTLED"
  BY DEF Inv, ReconInv
<1>5. ASSUME CreateRemoteScan(s), run' = Bind(r, s), ToInspect(w, s) PROVE Inv'
  <2>1. PICK y \in ScanType :
               /\ scan' = [scan EXCEPT ![s] = y] /\ scan' \in [Scans -> ScanType]
               /\ scan[s].status = "NONE"
               /\ y.gen = root.gen /\ y.status = "SCANNING" /\ y.hash = None /\ y.rows = {} /\ ~y.imported
               /\ command' \in [Scans -> CommandType]
               /\ \A t \in Scans : t # s => command'[t] = command[t]
               /\ clock' \in Nat
    BY <1>5, CreatedScan
  <2>2. local' \in [Workers -> Requests] /\ LocalTyped' /\ \A v \in Workers : Leaves(v)
    BY <1>2, <1>5, Inspects
  <2>3. /\ run' \in [Runs -> RunType]
        /\ \A q \in Runs : q # r => run'[q] = run[q]
        /\ run'[r].work = run[r].work /\ run'[r].undo = run[r].undo
        /\ run'[r].effect = run[r].effect /\ run'[r].recon = "IN_PROGRESS"
    BY <1>5, BindBinds DEF Inv
  <2>4. Typed'
    BY <1>3, <2>1, <2>2, <2>3 DEF Inv, Typed
  <2>5. Quiet' => Quiet
    BY <2>3 DEF Quiet
  <2>6. ASSUME NEW q \in Runs
        PROVE  /\ run'[q].effect = run[q].effect
               /\ run'[q].recon # "NOT_STARTED" \/ run'[q].undo # "NONE" => run'[q].work = "SETTLED"
               /\ run'[q].recon = "COMPLETED" /\ run'[q].undo # "EFFECT" =>
                     run[q].recon = "COMPLETED" /\ run[q].undo # "EFFECT" /\ run'[q].scan = run[q].scan
    BY <1>1, <1>4, <2>3
  <2> QED
    BY <1>3, <2>1, <2>2, <2>4, <2>5, <2>6, NewScan
<1>6. ASSUME LoadRoot(w, r, run[r].epoch), run' = [run EXCEPT ![r].recon = "REQUIRED"],
             UNCHANGED <<scan, command, clock>>
      PROVE  Inv'
  <2> DEFINE x == [run[r] EXCEPT !.recon = "REQUIRED"]
  <2>1. /\ x \in RunType /\ x.work = run[r].work /\ x.undo = run[r].undo /\ x.effect = run[r].effect
        /\ x.recon = "REQUIRED" /\ run[r].epoch \in Nat
    BY <1>1 DEF RunType
  <2>2. run' = [run EXCEPT ![r] = x]
    BY <1>6
  <2> HIDE DEF x
  <2>3. run' \in [Runs -> RunType] /\ run'[r] = x /\ \A q \in Runs : q # r => run'[q] = run[q]
    BY <2>1, <2>2 DEF Inv, Typed
  <2>4. local' \in [Workers -> Requests] /\ LocalTyped' /\ \A v \in Workers : Leaves(v)
    BY <1>6, <2>1, LoadedRequest DEF Inv
  <2>5. Typed'
    BY <1>3, <1>6, <2>3, <2>4 DEF Inv, Typed
  <2> QED
    BY <1>1, <1>3, <1>6, <2>1, <2>3, <2>4, <2>5, ScansKeep, RecoveryKeeps
<1> QED
  BY <1>1, <1>5, <1>6 DEF AdmitUnbound

(* The bound scan is published, released or left for later. *)
LEMMA StepInspect == ASSUME Inv, NEW w \in Workers, Inspect(w) PROVE Inv'
<1>1. PICK r \in Runs : r = local[w].run /\ run[r] \in RunType
  BY RecoveredRun DEF Inspect, Recovering
<1>2. PICK s \in Scans : s = local[w].scan
  BY DEF Inspect, Inv, LocalTyped, Holding
<1>3. UNCHANGED <<root, disk, command, report, clock, counts>>
  BY DEF Inspect
<1>4. counts' \in CountType /\ command' \in [Scans -> CommandType]
  BY <1>3 DEF Inv, Typed
<1>5. Finish(w) => local' \in [Workers -> Requests] /\ LocalTyped' /\ \A v \in Workers : Leaves(v)
  BY RequestEnds DEF Inv
<1>6. ASSUME NEW b \in BOOLEAN, scan' = [scan EXCEPT ![s].published = b], UNCHANGED run,
             local' = [local EXCEPT ![w].pc = "complete"] \/ Finish(w)
      PROVE  Inv'
  <2>1. scan' \in [Scans -> ScanType] /\ \A t \in Scans : Mild(t)
    BY <1>6, Published DEF Inv
  <2>2. ASSUME local' = [local EXCEPT ![w].pc = "complete"]
        PROVE  local' \in [Workers -> Requests] /\ LocalTyped' /\ \A v \in Workers : Leaves(v)
    <3> DEFINE x == [local[w] EXCEPT !.pc = "complete"]
    <3>1. local[w] \in Requests
      BY RequestFacts
    <3>2. x \in Requests /\ x.pc = "complete" /\ x.scan = s /\ x.run = r
      BY <1>1, <1>2, <3>1 DEF Requests, Holding
    <3>3. local' = [local EXCEPT ![w] = x]
      BY <2>2
    <3> HIDE DEF x
    <3>4. x.pc \notin Imports \cup Walking
      BY <3>2 DEF Imports, Owning, Walking
    <3> QED
      BY <3>2, <3>3, <3>4, RequestLeaves DEF Inv
  <2> QED
    BY <1>3, <1>4, <1>5, <1>6, <2>1, <2>2, ScanStep
<1>7. ASSUME Finish(w), UNCHANGED scan, UNCHANGED run PROVE Inv'
  BY <1>3, <1>4, <1>7, RequestStep
<1>8. ASSUME Finish(w), UNCHANGED scan, run[r].recon = "IN_PROGRESS",
             run' = Required(r, run[r].work, run[r].undo)
      PROVE  Inv'
  <2>1. run[r].work = "SETTLED"
    BY <1>8 DEF Inv, ReconInv
  <2>2. run[r].work \in WorkStates /\ run[r].undo \in WorkStates
    BY <1>1 DEF RunType
  <2>3. /\ run' \in [Runs -> RunType] /\ \A q \in Runs : q # r => run'[q] = run[q]
        /\ run'[r].work = run[r].work /\ run'[r].undo = run[r].undo
        /\ run'[r].effect = run[r].effect /\ run'[r].recon = "REQUIRED"
    BY <1>8, <2>2, RunRequired DEF Inv
  <2>4. Typed'
    BY <1>3, <1>5, <1>8, <2>3 DEF Inv, Typed
  <2> QED
    BY <1>3, <1>5, <1>8, <2>1, <2>3, <2>4, ScansKeep, RecoveryKeeps
<1>9. PICK b \in BOOLEAN : b = (scan[s].published \/ Current(s))
  OBVIOUS
<1>10. CASE scan[s].status = "COMPLETED"
  BY <1>2, <1>6, <1>9, <1>10 DEF Inspect
<1>11. CASE scan[s].status # "COMPLETED"
  BY <1>1, <1>2, <1>7, <1>8, <1>11 DEF Inspect
<1> QED
  BY <1>10, <1>11
(* Without an open run no effect waits for its publication. *)
LEMMA QuietWhenClosed == ASSUME OpenRuns = {} PROVE Quiet
<1>1. \A r \in Runs : ~OpenWork(run[r].work) /\ ~OpenWork(run[r].undo)
  BY DEF OpenRuns
<1> QED
  BY <1>1 DEF Quiet, OpenWork

(* The rows of a local walk are stored, if its generation is still current. *)
LEMMA StepImportLocal == ASSUME Inv, NEW w \in Workers, NEW s \in Scans, ImportLocal(w, s) PROVE Inv'
<1>1. local[w] \in Requests /\ local[w].pc = "import"
  BY RequestFacts DEF ImportLocal
<1>2. local[w].gen = root.gen /\ Quiet /\ local[w].seen = disk.effects
  <2>1. local[w].gen = root.gen /\ OpenRuns = {}
    BY DEF ImportLocal, Importable, AfterOutcomes
  <2> QED
    BY <1>1, <2>1, QuietWhenClosed DEF Inv, SeenInv
<1>3. PICK files \in Inventories : files = local[w].files
  BY <1>1 DEF Requests
<1>4. PICK started \in Nat : started = local[w].started
  BY <1>1 DEF Requests
<1>5. PICK seen \in Nat : seen = local[w].seen
  BY <1>1 DEF Requests
<1>6. PICK status \in {"READING", "COMPLETED"} :
          scan' = [scan EXCEPT ![s] = [status |-> status, gen |-> root.gen, hash |-> files,
                           started |-> started, seen |-> seen, rows |-> files,
                           published |-> FALSE, imported |-> TRUE]]
  BY <1>3, <1>4, <1>5 DEF ImportLocal, AfterImport
<1> DEFINE y == [status |-> status, gen |-> root.gen, hash |-> files, started |-> started,
                 seen |-> seen, rows |-> files, published |-> FALSE, imported |-> TRUE]
<1>7. root.gen \in Nat /\ root.rev \in Nat
  BY GenerationTyped DEF Inv
<1>8. /\ y \in ScanType /\ y.gen = root.gen /\ y.status = status /\ y.hash = files /\ y.rows = files
      /\ y.seen = seen
  BY <1>7 DEF ScanType
<1>9. /\ scan' = [scan EXCEPT ![s] = y] /\ scan[s].status = "NONE"
      /\ UNCHANGED <<root, disk, command, report, clock, counts>>
  BY <1>6 DEF ImportLocal, Fresh
<1> HIDE DEF y
<1>10. scan' \in [Scans -> ScanType]
  BY <1>8, <1>9 DEF Inv, Typed
<1>11. /\ y.status # "NONE" /\ y.status # "SCANNING" /\ y.rows = y.hash /\ y.seen = disk.effects
  BY <1>2, <1>5, <1>8
<1>12. \A q \in Runs : run[q].recon # "NOT_STARTED" \/ run[q].undo # "NONE" => run[q].work = "SETTLED"
  BY DEF Inv, ReconInv
<1>13. ASSUME run' = run, Finish(w) PROVE Inv'
  <2>1. local' \in [Workers -> Requests] /\ LocalTyped' /\ \A v \in Workers : Leaves(v)
    BY <1>13, RequestEnds DEF Inv
  <2>2. Typed'
    BY <1>9, <1>10, <1>13, <2>1 DEF Inv, Typed
  <2> QED
    BY <1>8, <1>9, <1>11, <1>13, <2>1, <2>2, SameRuns, NewScan
<1>14. ASSUME NEW r \in Runs, r = local[w].run, run' = Bind(r, s), run[r].recon = "REQUIRED",
              local' = [local EXCEPT ![w] = [Idle EXCEPT !.pc = "inspect", !.run = r,
                                                    !.scan = s, !.rev = root.rev]]
       PROVE  Inv'
  <2> DEFINE x == [Idle EXCEPT !.pc = "inspect", !.run = r, !.scan = s, !.rev = root.rev]
  <2>1. x \in Requests /\ x.pc = "inspect" /\ x.scan = s /\ x.run = r
    BY <1>7 DEF Idle, Requests, Holding, Inventories
  <2>2. local' = [local EXCEPT ![w] = x]
    BY <1>14
  <2> HIDE DEF x
  <2>3. x.pc \notin Imports \cup Walking
    BY <2>1 DEF Imports, Owning, Walking
  <2>4. local' \in [Workers -> Requests] /\ LocalTyped' /\ \A v \in Workers : Leaves(v)
    BY <2>1, <2>2, <2>3, RequestLeaves DEF Inv
  <2>5. /\ run' \in [Runs -> RunType]
        /\ \A q \in Runs : q # r => run'[q] = run[q]
        /\ run'[r].work = run[r].work /\ run'[r].undo = run[r].undo
        /\ run'[r].effect = run[r].effect /\ run'[r].recon = "IN_PROGRESS"
    BY <1>14, BindBinds DEF Inv
  <2>6. Typed'
    BY <1>9, <1>10, <2>4, <2>5 DEF Inv, Typed
  <2>7. Quiet' => Quiet
    BY <2>5 DEF Quiet
  <2>8. ASSUME NEW q \in Runs
        PROVE  /\ run'[q].effect = run[q].effect
               /\ run'[q].recon # "NOT_STARTED" \/ run'[q].undo # "NONE" => run'[q].work = "SETTLED"
               /\ run'[q].recon = "COMPLETED" /\ run'[q].undo # "EFFECT" =>
                     run[q].recon = "COMPLETED" /\ run[q].undo # "EFFECT" /\ run'[q].scan = run[q].scan
    BY <1>12, <1>14, <2>5
  <2> QED
    BY <1>8, <1>9, <1>11, <2>4, <2>6, <2>7, <2>8, NewScan
<1>15. CASE local[w].run = None
  BY <1>13, <1>15 DEF ImportLocal
<1>16. CASE local[w].run # None
  <2>1. PICK r \in Runs : r = local[w].run
    BY <1>1, <1>16 DEF Requests
  <2>2. run[r].recon = "REQUIRED"
    BY <1>16, <2>1 DEF ImportLocal, Importable, OwnsReconciliation
  <2>3. /\ run' = Bind(r, s)
        /\ local' = [local EXCEPT ![w] = [Idle EXCEPT !.pc = "inspect", !.run = r,
                                                    !.scan = s, !.rev = root.rev]]
    BY <1>16, <2>1 DEF ImportLocal
  <2> QED
    BY <1>14, <2>1, <2>2, <2>3
<1> QED
  BY <1>15, <1>16

(* A reconciliation completes: its scan is current, so what it saw is
   everything the run and its Undo did. *)
LEMMA StepCompleteReconciliation ==
    ASSUME Inv, NEW w \in Workers, CompleteReconciliation(w) PROVE Inv'
<1>1. PICK r \in Runs : r = local[w].run /\ run[r] \in RunType
  BY RecoveredRun DEF CompleteReconciliation, Recovering
<1>2. PICK s \in Scans : s = local[w].scan
  BY DEF CompleteReconciliation, Inv, LocalTyped, Holding
<1>3. Finish(w) /\ UNCHANGED <<root, disk, scan, command, report, clock, counts>>
  BY DEF CompleteReconciliation
<1>4. ASSUME run' = run PROVE Inv'
  BY <1>3, <1>4, RequestStep DEF Inv, Typed
<1>5. ASSUME Settles(w), run' = [run EXCEPT ![r].recon = "COMPLETED"] PROVE Inv'
  <2> DEFINE x == [run[r] EXCEPT !.recon = "COMPLETED"]
  <2>1. /\ x \in RunType /\ x.work = run[r].work /\ x.undo = run[r].undo /\ x.effect = run[r].effect
        /\ x.recon = "COMPLETED" /\ x.scan = run[r].scan
    BY <1>1 DEF RunType
  <2>2. run' = [run EXCEPT ![r] = x]
    BY <1>5
  <2> HIDE DEF x
  <2>3. run' \in [Runs -> RunType] /\ run'[r] = x /\ \A q \in Runs : q # r => run'[q] = run[q]
    BY <2>1, <2>2 DEF Inv, Typed
  <2>4. local' \in [Workers -> Requests] /\ LocalTyped' /\ \A v \in Workers : Leaves(v)
    BY <1>3, RequestEnds DEF Inv
  <2>5. Typed'
    BY <1>3, <2>3, <2>4 DEF Inv, Typed
  <2>6. root.gen \in Nat /\ disk.effects \in Nat /\ run[r].effect \in Nat
    BY <1>1, GenerationTyped DEF Inv, RunType
  <2>7. Settled
    BY <1>3, <2>1, <2>3, NothingPublished
  <2>8. Calm
    BY <1>3, <2>4, <2>6, <2>7, ScansKeep DEF Calm
  <2>9. ReconInv'
    <3>1. /\ run[r].scan = s /\ run[r].recon = "IN_PROGRESS" /\ scan[s].status = "COMPLETED"
          /\ scan[s].gen = root.gen /\ Quiet
      <4>1. run[r].scan = s /\ run[r].recon = "IN_PROGRESS" /\ Current(s)
        BY <1>1, <1>2, <1>5 DEF Settles
      <4>2. OpenRuns = {} /\ s \in {t \in CompletedScans : scan[t].gen = root.gen}
        BY <4>1 DEF Current, Latest
      <4> QED
        BY <4>1, <4>2, QuietWhenClosed DEF CompletedScans
    <3>2. scan[s].imported => scan[s].seen = disk.effects
      BY <3>1 DEF Inv, SeenInv
    <3>3. run[r].effect <= disk.effects /\ run[r].work = "SETTLED"
      BY <3>1 DEF Inv, ReconInv
    <3> SUFFICES ASSUME NEW q \in Runs
                 PROVE  /\ run'[q].effect <= disk.effects
                        /\ run'[q].recon # "NOT_STARTED" \/ run'[q].undo # "NONE" => run'[q].work = "SETTLED"
                        /\ run'[q].recon = "COMPLETED" /\ run'[q].undo # "EFFECT" =>
                              /\ run'[q].scan \in Scans
                              /\ scan[run'[q].scan].status \notin {"NONE", "SCANNING"}
                              /\ scan[run'[q].scan].imported => scan[run'[q].scan].seen >= run'[q].effect
      BY <1>3 DEF ReconInv
    <3>4. CASE q = r
      BY <2>1, <2>3, <2>6, <3>1, <3>2, <3>3, <3>4
    <3>5. CASE q # r
      BY <2>3, <3>5 DEF Inv, ReconInv
    <3> QED
      BY <3>4, <3>5
  <2> QED
    BY <2>4, <2>5, <2>8, <2>9, CalmKeeps DEF Inv
<1> QED
  BY <1>1, <1>4, <1>5 DEF CompleteReconciliation

-----------------------------------------------------------------------------
(* The theorems. *)

(* Nothing was scanned, run or requested yet. *)
LEMMA InitInv == Init => Inv
<1> SUFFICES ASSUME Init PROVE Inv
  OBVIOUS
<1>1. root \in RootType /\ root.gen = 0
  <2>1. 0 \in Nat /\ TRUE \in BOOLEAN
    OBVIOUS
  <2>2. root \in [rev : {0}, readable : {TRUE}, gen : {0}, device : BOOLEAN]
    BY DEF Init
  <2>3. root.gen = 0
    BY <2>2
  <2>4. root \in RootType
    BY <2>1, <2>2, ZenonT(30) DEF RootType
  <2> QED
    BY <2>3, <2>4
<1>2. disk \in DiskType /\ disk.effects = 0
  BY DEF Init, DiskType, Inventories
<1>3. NoScan \in ScanType /\ NoScan.status = "NONE" /\ NoScan.gen = 0 /\ NoScan.rows = {} /\ ~NoScan.imported
  BY DEF NoScan, ScanType, Inventories
<1>4. scan \in [Scans -> ScanType] /\ \A s \in Scans : scan[s] = NoScan
  BY <1>3 DEF Init
<1>5. local \in [Workers -> Requests] /\ \A w \in Workers : local[w].pc = "idle"
  BY IdleTyped DEF Init
<1>6. /\ run \in [Runs -> RunType]
      /\ \A r \in Runs : /\ run[r].work = "NONE" /\ run[r].undo = "NONE" /\ run[r].effect = 0
                         /\ run[r].recon = "NOT_STARTED"
  BY DEF Init, RunType, WorkStates
<1>7. command \in [Scans -> CommandType] /\ \A s \in Scans : command[s].status = "NONE"
  BY DEF Init, CommandType
<1>8. report \in [Scans -> ReportType] /\ \A s \in Scans : report[s].files = None
  BY DEF Init, ReportType
<1>9. clock \in Nat /\ counts \in CountType
  BY InventoryAssumption DEF Init, CountType
<1>10. Typed
  BY <1>1, <1>2, <1>4, <1>5, <1>6, <1>7, <1>8, <1>9 DEF Typed
<1>11. LocalTyped /\ ImportInv
  BY <1>5 DEF LocalTyped, ImportInv, Holding, Recovering, Imports, Owning, Walking
<1>12. ScanInv
  BY <1>1, <1>3, <1>4, <1>7, <1>8 DEF ScanInv
<1>13. SeenInv
  BY <1>3, <1>4, <1>5, <1>8 DEF SeenInv, Imports, Owning
<1>14. ReconInv
  BY <1>2, <1>6 DEF ReconInv
<1> QED
  BY <1>10, <1>11, <1>12, <1>13, <1>14 DEF Inv

(* Every step keeps the invariant. *)
LEMMA NextInv == Inv /\ [Next]_vars => Inv'
<1> SUFFICES ASSUME Inv, [Next]_vars PROVE Inv'
  OBVIOUS
<1>1. ASSUME NEW r \in Runs, AdmitRun(r) \/ AdmitUndo(r) \/ RunStep(r) PROVE Inv'
  BY <1>1, StepAdmitRun, StepAdmitUndo, StepEffect, StepSettleWithoutEffect,
     StepPublishOutcome DEF RunStep
<1>2. ASSUME NEW s \in Scans, QueueScan(s) \/ Discover(s) \/ FailRemoteScan(s) \/ CompleteScan(s)
                                 \/ Publish(s) \/ RetryRead(s) \/ FailScan(s)
      PROVE  Inv'
  BY <1>2, StepQueueScan, StepDiscover, StepFailRemoteScan, StepCompleteScan, StepPublish,
     StepRetryRead, StepFailScan
<1>3. ASSUME NEW w \in Workers, NEW s \in Scans, Deliver(w, s) PROVE Inv'
  BY <1>3, StepDeliver
<1>4. ASSUME NEW w \in Workers, NEW r \in Runs, SelectRun(w, r) PROVE Inv'
  BY <1>4, StepSelectRun
<1>5. ASSUME NEW w \in Workers, ImportStep(w) PROVE Inv'
  BY <1>5, StepImportSuperseded, StepImportRefused, StepClaimInventory, StepStorePage,
     StepStoreMedia,
     StepFinishImport, StepReplayImport, StepCloseCommand, StepWalk, StepImportLocalEnds, StepImportLocal
     DEF ImportStep
<1>6. ASSUME NEW w \in Workers, RecoveryStep(w) PROVE Inv'
  BY <1>6, StepAdmitEnds, StepAdmitStaleRevision, StepAdmitBound, StepAdmitUnbound, StepInspect,
     StepCompleteReconciliation DEF RecoveryStep
<1>7. ASSUME NEW w \in Workers, StartLocalScan(w) \/ RequestDies(w) PROVE Inv'
  BY <1>7, StepStartLocalScan, StepRequestDies
<1>8. ASSUME NEW p \in Paths, ChangeFile(p) PROVE Inv'
  BY <1>8, StepChangeFile
<1>9. ASSUME Disconnect \/ Reconnect PROVE Inv'
  BY <1>9, StepDisconnect, StepReconnect
<1>10. ASSUME UNCHANGED vars PROVE Inv'
  <2>1. UNCHANGED <<root, disk, run, scan, command, report, clock>> /\ counts' \in CountType /\ UNCHANGED local
    BY <1>10 DEF vars, Inv, Typed
  <2> QED
    BY <2>1, RequestsKeep, OnlyRequest DEF Inv
<1> QED
  BY <1>1, <1>2, <1>3, <1>4, <1>5, <1>6, <1>7, <1>8, <1>9, <1>10 DEF Next

(* The inductive invariant: what every report, request, session and
   reconciliation implies about the disk and about each other. *)
THEOREM Invariance == Spec => []Inv
BY InitInv, NextInv, PTL DEF Spec

(* Root, disk, runs, scans, commands and reports stay well typed. *)
THEOREM TypeCorrect == Spec => []TypeOK
<1>1. Inv => TypeOK
  BY DEF Inv, Typed, TypeOK, RootType, DiskType, RunType, ScanType, CommandType, ReportType,
     CountType
<1> QED
  BY <1>1, Invariance, PTL

(* An imported scan of the current generation saw the disk as every authorised
   effect left it, whatever raced its discovery and its import. *)
THEOREM InventoryIsFresh == Spec => []InventoryFresh
<1>1. Inv => InventoryFresh
  BY QuietWhenClosed DEF Inv, SeenInv, InventoryFresh, Imported
<1> QED
  BY <1>1, Invariance, PTL

(* A reconciliation completes only against an inventory discovered after the
   last effect of its run and of the Undo. *)
THEOREM ReconciledIsAfterOutcome == Spec => []ReconciledAfterOutcome
<1>1. Inv => ReconciledAfterOutcome
  <2> SUFFICES ASSUME Inv, NEW r \in Runs, run[r].recon = "COMPLETED", ~OpenWork(run[r].undo)
               PROVE  /\ run[r].scan # None
                      /\ scan[run[r].scan].imported => scan[run[r].scan].seen >= run[r].effect
    BY DEF ReconciledAfterOutcome
  <2>1. run[r].undo # "EFFECT"
    BY DEF OpenWork
  <2>2. None \notin Scans
    BY InventoryAssumption DEF Scans
  <2> QED
    BY <2>1, <2>2 DEF Inv, ReconInv
<1> QED
  BY <1>1, Invariance, PTL

(* An imported session holds exactly the inventory that owns it, however its
   report was paged, retried and delivered twice. *)
THEOREM InventoryIsWhole == Spec => []InventoryWhole
<1>1. Inv => InventoryWhole
  BY DEF Inv, ScanInv, InventoryWhole, Imported
<1> QED
  BY <1>1, Invariance, PTL
=============================================================================
