------------------------------- MODULE MCInput -------------------------------
(* Input with two paths, on which keyboards come and go, and one modifier: *)
(* each has a flag of its own, set and cleared in the same way.            *)
EXTENDS Input

MCPaths == {"event0", "event1"}
MCModifiers == {"ctrl"}
=============================================================================
