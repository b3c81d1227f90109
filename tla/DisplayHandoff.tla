--------------------------- MODULE DisplayHandoff ---------------------------
(***************************************************************************)
(* What the hand-over of the display promises, without terminals, calls or *)
(* retries: who owns it, and whether frecon has stepped back.  Ownership   *)
(* always passes through nobody, frecon gives it up in the very step in    *)
(* which it steps back, and takes it only while it has not.                *)
(***************************************************************************)

VARIABLES background, owner

vars == <<background, owner>>

Init == background = FALSE /\ owner \in {"none", "frecon"}

StepBack ==
  /\ ~background
  /\ background' = TRUE
  /\ owner' = IF owner = "frecon" THEN "none" ELSE owner

StepForward == background /\ background' = FALSE /\ UNCHANGED owner

FreconTakes ==
  ~background /\ owner = "none" /\ owner' = "frecon" /\ UNCHANGED background

FreconYields == owner = "frecon" /\ owner' = "none" /\ UNCHANGED background

ChromeTakes == owner = "none" /\ owner' = "chrome" /\ UNCHANGED background

ChromeYields == owner = "chrome" /\ owner' = "none" /\ UNCHANGED background

Next == StepBack \/ StepForward \/ FreconTakes \/ FreconYields \/ ChromeTakes
        \/ ChromeYields

Spec == Init /\ [][Next]_vars
=============================================================================
