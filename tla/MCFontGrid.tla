----------------------------- MODULE MCFontGrid -----------------------------
(* FontGrid with a monitor of low density, which leaves the scaling alone, *)
(* and one of high density.                                                *)
EXTENDS FontGrid

MCVts == 0 .. 2
MCMonitors == {[size |-> 1, scaling |-> 0], [size |-> 2, scaling |-> 2]}
=============================================================================
