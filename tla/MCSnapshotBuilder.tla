--------------------------- MODULE MCSnapshotBuilder ---------------------------
(* Two fields, one of them critical; every legal window on a short line of time. *)
EXTENDS SnapshotBuilder

CONSTANTS cash, cap

TheFields == {cash, cap}
TheCritical == {cash}
=============================================================================
