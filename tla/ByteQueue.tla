------------------------------ MODULE ByteQueue ------------------------------
(***************************************************************************)
(* What the output buffer of a pty promises: bytes leave it in the order   *)
(* they were written, each once, and a refused write leaves no trace.      *)
(***************************************************************************)
EXTENDS Naturals, Sequences

CONSTANTS
  Byte,
  MaxWrite  \* bytes in one write

VARIABLES
  queue,  \* written and not yet taken by the kernel
  wire    \* what the kernel took last

vars == <<queue, wire>>

Init == queue = <<>> /\ wire = <<>>

Write ==
  /\ \E data \in UNION {[1 .. n -> Byte] : n \in 0 .. MaxWrite} : queue' = queue \o data
  /\ UNCHANGED wire

Flush ==
  \E n \in 0 .. Len(queue) :
    /\ wire' = SubSeq(queue, 1, n)
    /\ queue' = SubSeq(queue, n + 1, Len(queue))

Next == Write \/ Flush

Spec == Init /\ [][Next]_vars
=============================================================================
