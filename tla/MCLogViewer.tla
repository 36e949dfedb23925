---------------------------- MODULE MCLogViewer ----------------------------
(***************************************************************************)
(* A small instance of LogViewer: a buffer of two short lines, so that     *)
(* lines are dropped between pulls, and a line that does not fit in it.    *)
(***************************************************************************)
EXTENDS LogViewer

SomeSizes == {1, 3}
=============================================================================
