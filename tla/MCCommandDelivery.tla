------------------------- MODULE MCCommandDelivery -------------------------
(* Model values for CommandDelivery: a physical and a control command of
   the same root share the poll, the outbox and the replay cache. *)
EXTENDS CommandDelivery, TLC

CONSTANTS p1, q1

OnePhysical == {p1}
OneControl == {q1}
=============================================================================
