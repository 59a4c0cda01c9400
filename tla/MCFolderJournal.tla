-------------------------- MODULE MCFolderJournal --------------------------
(* Model values for FolderJournal: three directories (the Bridge's, a foreign one
   and the copy that exposes it) and one item that can sit in any of them. *)
EXTENDS FolderJournal, TLC

CONSTANTS i1, i2, i3, a, d1, d2

MCInodes == {i1, i2, i3}
MCItems == {a}
OneDir == {d1}
TwoDirs == {d1, d2}
Symmetry == Permutations(MCInodes)
=============================================================================
