-------------------------- MODULE CommandContract --------------------------
(***************************************************************************)
(* What the delivery of physical commands promises, without polls,         *)
(* journals, outboxes or a network: a command has at most one effect,      *)
(* never once it was withdrawn, and is settled once, with the verdict that *)
(* matches the effect it had then.  The one freedom: a command settled     *)
(* without effect may still be begun, once, by a Bridge that restarted     *)
(* before it archived the command's journal.                               *)
(* CommandDelivery is proved to implement it.                              *)
(***************************************************************************)
CONSTANT Commands

VARIABLES
    effect,     \* "none", "journaled" (admitted, outcome open) or "done"
    settled     \* "open", "CHANGED", "NONE" or "withdrawn"

vars == <<effect, settled>>

Init ==
    /\ effect = [c \in Commands |-> "none"]
    /\ settled = [c \in Commands |-> "open"]

(* The Bridge admits the only effect of a command that was not withdrawn. *)
Admit(c) ==
    /\ settled[c] \in {"open", "NONE"} /\ effect[c] = "none"
    /\ effect' = [effect EXCEPT ![c] = "journaled"]
    /\ UNCHANGED settled

(* The admitted effect is proved complete. *)
Finish(c) ==
    /\ settled[c] \in {"open", "NONE"} /\ effect[c] = "journaled"
    /\ effect' = [effect EXCEPT ![c] = "done"]
    /\ UNCHANGED settled

Settle(c) ==
    /\ settled[c] = "open"
    /\ \/ effect[c] = "done" /\ settled' = [settled EXCEPT ![c] = "CHANGED"]
       \/ effect[c] = "none" /\ settled' = [settled EXCEPT ![c] = "NONE"]
    /\ UNCHANGED effect

(* Expiry or loss of authority withdraws open commands without effect. *)
Withdraw(S) ==
    /\ \A c \in S : settled[c] = "open" /\ effect[c] = "none"
    /\ settled' = [c \in Commands |-> IF c \in S THEN "withdrawn" ELSE settled[c]]
    /\ UNCHANGED effect

Next ==
    \/ \E c \in Commands : Admit(c) \/ Finish(c) \/ Settle(c)
    \/ \E S \in SUBSET Commands : Withdraw(S)

Spec == Init /\ [][Next]_vars
=============================================================================
