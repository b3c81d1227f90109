------------------------------ MODULE MCSplash ------------------------------
(* Splash with a command line of at most three images.                     *)
EXTENDS Splash

MCLoopStarts == -1 .. 2
MCLoopCounts == {-1, 0, 2}
=============================================================================
