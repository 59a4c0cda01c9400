------------------------------ MODULE OwnedWork ------------------------------
(***************************************************************************)
(* What a claim on a row promises: work on an item is done once, by the    *)
(* worker that holds the item, in the step that gives it up.  A worker     *)
(* that lost its item may go on believing in it, and achieves nothing.     *)
(*                                                                         *)
(* ScanProcessing implements it with the observation claims of scanned     *)
(* files, Publication with the search claims of its backfill rows.         *)
(***************************************************************************)
EXTENDS Integers

CONSTANTS
    Workers,    \* requests
    Items,      \* rows that are claimed
    NoWorker,   \* the holder of an item nobody holds
    Orphan,     \* the holder that is gone
    NoItem      \* what an idle worker works on

VARIABLES
    holder,     \* item -> who holds it
    lapsed,     \* items whose claim is past its time
    belief,     \* worker -> the item it works on
    product     \* item -> how many results it carries

vars == <<holder, lapsed, belief, product>>

Init ==
    /\ holder = [i \in Items |-> NoWorker] /\ lapsed = {}
    /\ belief = [w \in Workers |-> NoItem]
    /\ product = [i \in Items |-> 0]

(* An item nobody holds, or whose holder is late; one item per worker. *)
Take(w, i) ==
    /\ belief[w] = NoItem /\ \A j \in Items : holder[j] # w
    /\ holder[i] = NoWorker \/ i \in lapsed
    /\ holder' = [holder EXCEPT ![i] = w] /\ lapsed' = lapsed \ {i}
    /\ belief' = [belief EXCEPT ![w] = i]
    /\ UNCHANGED product

(* The one result, by the holder, even a late one while nobody took over. *)
Make(w, i) ==
    /\ belief[w] = i /\ holder[i] = w /\ product[i] = 0
    /\ product' = [product EXCEPT ![i] = 1]
    /\ holder' = [holder EXCEPT ![i] = NoWorker] /\ lapsed' = lapsed \ {i}
    /\ belief' = [belief EXCEPT ![w] = NoItem]

(* The holder gives up its claim; it may not know it yet. *)
Release(w, i) ==
    /\ belief[w] = i /\ holder[i] = w
    /\ holder' = [holder EXCEPT ![i] = NoWorker] /\ lapsed' = lapsed \ {i}
    /\ belief' = belief \/ belief' = [belief EXCEPT ![w] = NoItem]
    /\ UNCHANGED product

(* A worker finds that it holds its item no more. *)
Lose(w, i) ==
    /\ belief[w] = i /\ \A j \in Items : holder[j] # w
    /\ belief' = [belief EXCEPT ![w] = NoItem]
    /\ UNCHANGED <<holder, lapsed, product>>

(* A worker dies, or ends without giving its item back: the claim, with nobody
   to use it, stays until its time is over. *)
Die(w) ==
    /\ belief' = [belief EXCEPT ![w] = NoItem]
    /\ holder' = [i \in Items |-> IF holder[i] = w THEN Orphan ELSE holder[i]]
    /\ UNCHANGED <<lapsed, product>>

(* The time of a claim passes. *)
Lapse(i) ==
    /\ holder[i] # NoWorker
    /\ lapsed' = lapsed \cup {i}
    /\ UNCHANGED <<holder, belief, product>>

(* A recovery clears a late claim. *)
Clear(i) ==
    /\ i \in lapsed
    /\ holder' = [holder EXCEPT ![i] = NoWorker] /\ lapsed' = lapsed \ {i}
    /\ UNCHANGED <<belief, product>>

(* A result is withdrawn: the work may be done again. *)
Discard(i) ==
    /\ product[i] = 1
    /\ product' = [product EXCEPT ![i] = 0]
    /\ UNCHANGED <<holder, lapsed, belief>>

Next ==
    \/ \E w \in Workers : Die(w)
    \/ \E w \in Workers, i \in Items : Take(w, i) \/ Make(w, i) \/ Release(w, i) \/ Lose(w, i)
    \/ \E i \in Items : Lapse(i) \/ Clear(i) \/ Discard(i)

Spec == Init /\ [][Next]_vars
=============================================================================
