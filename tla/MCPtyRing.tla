----------------------------- MODULE MCPtyRing ------------------------------
(* PtyRing with the code's arithmetic on a small size_t.                *)
EXTENDS PtyRing, RingBits
=============================================================================
