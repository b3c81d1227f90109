------------------------------ MODULE MCDevices -----------------------------
(* What udev tells of, the display and the keyboards.  The two             *)
(* specifications share no variable, so one run looks at both: at either   *)
(* of them alone, in turn.                                                 *)
EXTENDS MCDisplay, MCInput

VARIABLE part  \* which one it is

\* While it is the keyboards there is no display.
NoDisplay ==
  /\ devices = <<>> /\ lid = FALSE /\ changed = TRUE /\ drm = NoDrm
  /\ drawn = {} /\ asked = Nothing

DevicesInit ==
  /\ Init
  /\ \/ part = "display" /\ DisplayInit
     \/ part = "keyboards" /\ NoDisplay

DisplayStep == part = "display" /\ DisplayNext /\ UNCHANGED <<part, vars>>
StartStep == part = "keyboards" /\ Start /\ UNCHANGED <<part, displayVars>>
LoopStep == part = "keyboards" /\ Loop /\ UNCHANGED <<part, displayVars>>
KeyboardStep == part = "keyboards" /\ Next /\ UNCHANGED <<part, displayVars>>

DevicesSpec ==
  /\ DevicesInit /\ [][DisplayStep \/ KeyboardStep]_<<part, displayVars, vars>>
  /\ WF_vars(StartStep) /\ WF_vars(LoopStep)
=============================================================================
