--------------------------- MODULE MCMoveJournal ---------------------------
(* Model values for MoveJournal: three inodes, so that a foreign file can appear
   under either public name while the moved file exists; one capture directory
   per live attempt. *)
EXTENDS MoveJournal, TLC

CONSTANTS i1, i2, i3, x, y, d1, d2

MCInodes == {i1, i2, i3}
MCChecksums == {x, y}
OneDir == {d1}
TwoDirs == {d1, d2}
=============================================================================
