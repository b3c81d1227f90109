---------------------------- MODULE MCDrmBuffers ----------------------------
(* DrmBuffers with two drm objects, so that the old one outlives a hotplug *)
(* while a terminal holds it.  The addresses are interchangeable.          *)
EXTENDS DrmBuffers, TLC

CONSTANTS o1, o2

MCVts == 0 .. 1
Addresses == Permutations({o1, o2})
=============================================================================
