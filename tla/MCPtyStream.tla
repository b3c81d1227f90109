---------------------------- MODULE MCPtyStream -----------------------------
(* PtyStream with a child two of whose bytes make the emulator answer.  *)
EXTENDS PtyStream

MCAsks == {1, 3}
=============================================================================
