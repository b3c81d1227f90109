----------------------------- MODULE MCVtSwitch -----------------------------
(* Instances of VtSwitch for TLC.                                          *)
EXTENDS VtSwitch

CommandLine(on) ==
  [daemon |-> "daemon" \in on, enable_vts |-> "vts" \in on, enable_vt1 |-> "vt1" \in on,
   enable_osc |-> "osc" \in on, splash_only |-> "splash_only" \in on,
   wait_drop_master |-> "wait" \in on, pre_create_vts |-> "pre" \in on]

\* The command lines frecon is started with, one for every branch of main()'s
\* tail and of the handlers: boot splash on a normal image, developer mode,
\* VT1 kept with every escape, held splash, interactive, splash only.
AllFlags == {CommandLine({"daemon"}),
             CommandLine({"daemon", "vts", "pre"}),
             CommandLine({"daemon", "vts", "vt1", "osc"}),
             CommandLine({"daemon", "vts", "osc", "wait"}),
             CommandLine({"vts"}),
             CommandLine({"daemon", "splash_only"})}
=============================================================================
