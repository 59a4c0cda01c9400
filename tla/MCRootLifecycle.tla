--------------------------- MODULE MCRootLifecycle ---------------------------
(* Instances of RootLifecycle for TLC. *)
EXTENDS RootLifecycle
==============================================================================
