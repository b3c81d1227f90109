------------------------------ MODULE MCDaemon ------------------------------
(* Daemon on the command lines that decide who inherits what.            *)
EXTENDS Daemon

CommandLine(on) ==
  [daemon |-> "daemon" \in on, pre_create_vts |-> "pre" \in on, enable_vts |-> "vts" \in on,
   enable_vt1 |-> "vt1" \in on, no_login |-> "no_login" \in on]

\* Boot splash; developer mode with consoles nobody logs in to; VT1 kept with a
\* login; interactive.
AllFlags == {CommandLine({"daemon"}),
             CommandLine({"daemon", "pre", "vts", "no_login"}),
             CommandLine({"daemon", "vts", "vt1"}),
             CommandLine({"vts"})}
=============================================================================
