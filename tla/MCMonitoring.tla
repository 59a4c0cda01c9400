---------------------------- MODULE MCMonitoring ----------------------------
(* Small instances of module Monitoring. *)
EXTENDS Monitoring, TLC

(* A switch and a fault, or a scan of a person. *)
PersonScans == Cardinality({s \in DOMAIN scans : scans[s].batch = None})
FewEvents == 2 * PersonScans + spent.switches + spent.faults <= 2

Symmetry == Permutations(Workers)
=============================================================================
