------------------------------- MODULE MCPty --------------------------------
(* The two specifications of a pty, which share no variable, so that one   *)
(* run looks at both: at either of them alone, in turn.                    *)
EXTENDS MCPtyRing, MCPtyStream

VARIABLE part  \* which one it is

PtyInit == part \in {"ring", "stream"} /\ RingInit /\ Init

RingStep == part = "ring" /\ RingNext /\ UNCHANGED <<part, vars>>
FreconStep == part = "stream" /\ Frecon /\ UNCHANGED <<part, ringVars>>
ChildReadsStep == part = "stream" /\ ChildReads /\ UNCHANGED <<part, ringVars>>
StreamStep == part = "stream" /\ Next /\ UNCHANGED <<part, ringVars>>

PtySpec ==
  /\ PtyInit /\ [][RingStep \/ StreamStep]_<<part, ringVars, vars>>
  /\ WF_vars(FreconStep) /\ WF_vars(ChildReadsStep)
=============================================================================
