------------------------------- MODULE Daemon -------------------------------
(***************************************************************************)
(* The processes of a frecon that runs as a daemon: the parent that waits  *)
(* until the consoles exist, frecon from its start through the splash      *)
(* screen to the rounds of its event loop, and one child per terminal.     *)
(*                                                                         *)
(* They are tied together by descriptors that a fork copies.  Every child  *)
(* made before the report inherits the write end of the daemon pipe; one   *)
(* that runs no program also keeps the masters of the terminals before it; *)
(* and the parent keeps the master that main opened before it forked.      *)
(*                                                                         *)
(* A terminal object has an identity here, so that one used after it was   *)
(* closed is seen.  Which of them is active is the subject of VtSwitch.    *)
(***************************************************************************)
EXTENDS Integers, Sequences

CONSTANTS
  NumVts,       \* term_num_terminals
  FlagChoices,  \* the command lines considered
  MaxExits,     \* bound: children that exit of their own accord
  MaxKeys       \* bound: switches by key or escape

VT == 0 .. NumVts - 1
SplashVt == 0
Null == 0       \* no terminal

Flags == [daemon : BOOLEAN, pre_create_vts : BOOLEAN, enable_vts : BOOLEAN,
          enable_vt1 : BOOLEAN, no_login : BOOLEAN]

ASSUME NumVtsAssumption == NumVts \in 1 .. 12
ASSUME FlagsAssumption == FlagChoices \subseteq Flags
ASSUME BoundsAssumption == MaxExits \in Nat /\ MaxKeys \in Nat

VARIABLES
  command_flags,
  parent,     \* "none", "waiting" for the report, or its exit "success", "failure"
  told,       \* daemon_exit_code has written
  attempted,  \* history: VTs whose terminal main has tried to create
  pc,         \* where frecon is, "exit" when it leaves and "ended" once it is gone
  round,      \* what the round of the event loop belongs to: "splash" or "main"
  terms,      \* terminal objects in the order made, with the child of each
  terminals,  \* the table: an index in terms, or Null
  current_terminal,
  held,       \* the pointers splash_run and the round have read from the table
  ready,      \* the descriptors select reported: terminals, and Null for a keyboard
  splash,     \* the splash object exists
  bus,        \* "down", "deaf" (no callback was registered) or "up"
  login,      \* LoginPromptVisible: "none", "sent", "queued" in libdbus, "done"
  key,        \* a key that switches VTs waits in a keyboard
  left,       \* bounds: exits and keys left
  misused     \* history: uses of a closed terminal object

loopVars == <<round, held, ready, splash, bus, login, key, misused>>
vars == <<command_flags, parent, told, attempted, pc, terms, terminals,
          current_terminal, left, loopVars>>

Flag(name) == command_flags[name]
Running == pc # "ended"
NoPointers == [splash |-> Null, round |-> Null]
InTable(i) == \E v \in VT : terminals[v] = i
Ids == 1 .. Len(terms)
-----------------------------------------------------------------------------
(* Terminals and their children.                                           *)

Interactive(v) == ~Flag("no_login") /\ (v = SplashVt => Flag("enable_vt1"))

PipeOpen == Flag("daemon") /\ Flag("pre_create_vts") /\ ~told

\* Wrong: the child does not close the master it was made from.
InheritsOwn(v) == IF Interactive(v) THEN {} ELSE {i \in Ids : terms[i].open} \cup {Len(terms) + 1}

\* Masters are close-on-exec and a child closes its own: one that executes
\* nothing keeps those of the terminals open when it was forked.
Inherits(v) == IF Interactive(v) THEN {} ELSE {i \in Ids : terms[i].open}

\* term_init.  "shared": main opened the master, before the fork.
NewTerm(v) ==
  [vt |-> v, open |-> TRUE, shared |-> pc = "splash_init", child |-> "running", edge |-> TRUE,
   inherits |-> Inherits(v), pipe |-> PipeOpen]

\* term_init into the table: a new terminal, or NULL when one of its steps fails.
CreateIn(v) ==
  \/ /\ terms' = Append(terms, NewTerm(v))
     /\ terminals' = [terminals EXCEPT ![v] = Len(terms) + 1]
  \/ /\ terminals' = [terminals EXCEPT ![v] = Null]
     /\ UNCHANGED terms

\* An event of terminal t's bridge is there, or not.
Noticed(t) == [t EXCEPT !.edge = TRUE]
Unnoticed(t) == [t EXCEPT !.edge = FALSE]

\* term_close of t: the bridge and the master are closed.
Shut(t) == [Unnoticed(t) EXCEPT !.open = FALSE]

Closed(list, i) == IF i = Null THEN list ELSE [list EXCEPT ![i] = Shut(list[i])]

\* How far terminal i's child is in its end.
WithChild(i, state) == [terms EXCEPT ![i].child = state]

\* Wrong: the table keeps the terminal that is closed.
DestroyKeepsEntry ==
  IF Flag("enable_vt1") THEN UNCHANGED <<terms, terminals>>
  ELSE terms' = Closed(terms, terminals[SplashVt]) /\ UNCHANGED terminals

\* term_destroy_splash_term.
DestroySplashTerm ==
  IF Flag("enable_vt1") THEN UNCHANGED <<terms, terminals>>
  ELSE /\ terminals' = [terminals EXCEPT ![SplashVt] = Null]
       /\ terms' = Closed(terms, terminals[SplashVt])

\* term_switch_to, as far as it makes terminals.
SwitchTo(v) ==
  IF v \notin VT THEN UNCHANGED <<terms, terminals, current_terminal>>
  ELSE /\ current_terminal' = v
       /\ IF terminals[v] # Null \/ (v = SplashVt /\ ~Flag("enable_vt1"))
          THEN UNCHANGED <<terms, terminals>>
          ELSE CreateIn(v)

\* Some process has terminal i's master open.
MasterHeld(i) ==
  \/ Running /\ terms[i].open
  \/ parent = "waiting" /\ terms[i].shared
  \/ \E k \in Ids : terms[k].child = "running" /\ i \in terms[k].inherits

\* Some process can still write the report.
ReportExpected ==
  \/ Running /\ ~told
  \/ \E k \in Ids : terms[k].child = "running" /\ terms[k].pipe
-----------------------------------------------------------------------------
(* main, up to the event loop.                                             *)

Init ==
  /\ command_flags \in FlagChoices
  /\ parent = "none" /\ told = FALSE /\ attempted = {} /\ pc = "daemonize"
  /\ round = "splash" /\ terms = <<>> /\ terminals = [v \in VT |-> Null]
  /\ current_terminal = SplashVt /\ held = NoPointers /\ ready = {}
  /\ splash = FALSE /\ bus = "down" /\ login = "none" /\ key = FALSE
  /\ left = [exits |-> MaxExits, keys |-> MaxKeys] /\ misused = {}

\* daemonize: the parent waits only for consoles; without a fork frecon goes on
\* as it was started.
Daemonize ==
  /\ pc = "daemonize"
  /\ pc' = "init"
  /\ \/ Flag("daemon") /\ parent' = IF Flag("pre_create_vts") THEN "waiting" ELSE "success"
     \/ UNCHANGED parent
  /\ UNCHANGED <<command_flags, told, attempted, terms, terminals, current_terminal,
                 left, loopVars>>

\* input_init and dev_init; a failure ends the program.
InitDevices ==
  /\ pc = "init"
  /\ pc' \in {"splash_init", "exit"}
  /\ UNCHANGED <<command_flags, parent, told, attempted, terms, terminals,
                 current_terminal, left, loopVars>>

\* splash_init goes on without a terminal when there is none.
SplashInit ==
  /\ pc = "splash_init"
  /\ CreateIn(SplashVt)
  /\ attempted' = attempted \cup {SplashVt}
  /\ splash' = TRUE
  /\ pc' = "create"
  /\ UNCHANGED <<command_flags, parent, told, current_terminal, left, round, held,
                 ready, bus, login, key, misused>>

\* The VTs the loop of main visits.
PreCreated ==
  IF ~Flag("pre_create_vts") THEN {}
  ELSE (IF Flag("enable_vt1") THEN SplashVt ELSE 1)
       .. (IF Flag("enable_vts") THEN NumVts - 1 ELSE 0)

Remaining == PreCreated \ attempted

PreCreate ==
  /\ pc = "create"
  /\ \E v \in Remaining :
       /\ \A w \in Remaining : v <= w
       /\ IF terminals[v] = Null THEN CreateIn(v) ELSE UNCHANGED <<terms, terminals>>
       /\ attempted' = attempted \cup {v}
  /\ UNCHANGED <<command_flags, parent, told, current_terminal, pc, left, loopVars>>

\* Wrong: the parent is released before the consoles are there.
ReportFirst ==
  /\ pc = "create"
  /\ IF told \/ ~Flag("daemon") \/ ~Flag("pre_create_vts")
     THEN Remaining = {} /\ pc' = "splash_run" /\ UNCHANGED told
     ELSE told' = TRUE /\ UNCHANGED pc
  /\ UNCHANGED <<command_flags, parent, attempted, terms, terminals, current_terminal,
                 left, loopVars>>

\* daemon_exit_code.
Report ==
  /\ pc = "create" /\ Remaining = {}
  /\ told' = (Flag("daemon") /\ Flag("pre_create_vts"))
  /\ pc' = "splash_run"
  /\ UNCHANGED <<command_flags, parent, attempted, terms, terminals, current_terminal,
                 left, loopVars>>

\* splash_run, when there is a drm object and an image: it reads the terminal
\* once, for all its frames.
SplashRun ==
  /\ pc = "splash_run"
  /\ \/ pc' = "leave_splash" /\ UNCHANGED <<held, current_terminal>>
     \/ /\ terminals[SplashVt] = Null
        /\ pc' = IF Flag("daemon") THEN "leave_splash" ELSE "exit"
        /\ UNCHANGED <<held, current_terminal>>
     \/ /\ terminals[SplashVt] # Null
        /\ held' = [held EXCEPT !.splash = terminals[SplashVt]] /\ current_terminal' = SplashVt
        /\ pc' = "frame"
  /\ UNCHANGED <<command_flags, parent, told, attempted, terms, terminals, left, round,
                 ready, splash, bus, login, key, misused>>

Misuse(i, how) == IF i # Null /\ ~terms[i].open THEN misused \cup {how} ELSE misused

\* A frame of the animation is shown on the terminal splash_run has read, and
\* the bus may be found; the round that follows is told to wait a microsecond.
SplashFrame ==
  /\ pc = "frame"
  /\ misused' = Misuse(held.splash, "frame")
  /\ bus' \in IF bus = "down" THEN {"down", "deaf"} ELSE {bus}
  /\ pc' = "select"
  /\ UNCHANGED <<command_flags, parent, told, attempted, terms, terminals,
                 current_terminal, left, round, held, ready, splash, login, key>>

\* splash_run returns; an error stops a frecon that is no daemon.
SplashEnds ==
  /\ pc = "frame"
  /\ pc' \in IF Flag("daemon") THEN {"leave_splash"} ELSE {"leave_splash", "exit"}
  /\ held' = NoPointers
  /\ UNCHANGED <<command_flags, parent, told, attempted, terms, terminals,
                 current_terminal, left, round, ready, splash, bus, login, key, misused>>

\* The part of main after splash_run when not --daemon.
LeaveInteractive ==
  /\ pc = "leave_splash" /\ ~Flag("daemon") /\ splash
  /\ DestroySplashTerm
  /\ splash' = FALSE
  /\ UNCHANGED <<command_flags, parent, told, attempted, current_terminal, pc, left,
                 round, held, ready, bus, login, key, misused>>

LeaveSplash ==
  /\ pc = "leave_splash" /\ (Flag("daemon") \/ ~splash)
  /\ round' = "main" /\ pc' = "top"
  /\ IF Flag("daemon") /\ ~Flag("enable_vt1")
     THEN UNCHANGED <<terms, terminals, current_terminal>>
     ELSE SwitchTo(IF Flag("enable_vt1") THEN SplashVt ELSE 1)
  /\ UNCHANGED <<command_flags, parent, told, attempted, left, held, ready, splash,
                 bus, login, key, misused>>
-----------------------------------------------------------------------------
(* main_loop and main_process_events.                                      *)

mainVars == <<command_flags, parent, told, attempted, splash>>
roundVars == <<round, ready, held, misused>>

\* get_process_events_timeout.
Top ==
  /\ pc = "top"
  /\ bus' \in IF bus = "down" THEN {"down", "up"} ELSE {bus}
  /\ pc' = "select"
  /\ UNCHANGED <<mainVars, roundVars, terms, terminals, current_terminal, left, login, key>>

Readable == {i \in Ids : InTable(i) /\ terms[i].edge} \cup (IF key THEN {Null} ELSE {})
Woken == Readable # {} \/ login = "sent"

Back == IF round = "splash" THEN "frame" ELSE "top"
Broken == IF round = "splash" THEN "frame" ELSE "exit"

\* select returns 0, and the round with it: nothing else is looked at.
SelectTimesOut ==
  /\ pc = "select" /\ ~Woken
  /\ round = "splash" \/ bus = "down"
  /\ pc' = Back
  /\ UNCHANGED <<mainVars, roundVars, terms, terminals, current_terminal, left, bus,
                 login, key>>

Select ==
  /\ pc = "select" /\ Woken
  /\ held' = [held EXCEPT !.round = terminals[current_terminal]]
  /\ ready' = Readable
  /\ pc' = "dbus"
  /\ UNCHANGED <<mainVars, round, misused, terms, terminals, current_terminal, left, bus,
                 login, key>>

\* dbus_dispatch_io with main_on_login_prompt_visible, which is heard only when
\* get_process_events_timeout has registered it.
LoginPrompt ==
  IF login \notin {"sent", "queued"} \/ bus # "up"
  THEN pc' = "input" /\ UNCHANGED <<terms, terminals, splash>>
  ELSE IF Flag("daemon") /\ ~Flag("enable_vts")
  THEN pc' = "exit" /\ UNCHANGED <<terms, terminals, splash>>
  ELSE /\ splash' = FALSE
       /\ IF splash THEN DestroySplashTerm ELSE UNCHANGED <<terms, terminals>>
       /\ pc' \in IF splash /\ held.round = terminals[SplashVt] /\ held.round # terminals'[SplashVt]
                  THEN {"input", Broken} ELSE {"input"}

\* The handlers of the bus, then term_exception on the pointer read before.  What
\* an object says that they have closed is anybody's guess.
DbusDispatch ==
  /\ pc = "dbus"
  /\ login' = IF login = "none" THEN "none" ELSE "done"
  /\ LoginPrompt
  /\ misused' = IF pc' \in {"input", Broken} /\ held.round # Null /\ ~terms'[held.round].open
                THEN misused \cup {"exception"} ELSE misused
  /\ UNCHANGED <<command_flags, parent, told, attempted, round, ready, held,
                 current_terminal, left, bus, key>>

\* input_dispatch_io: a key may switch VTs, and the calls it makes on the bus
\* read a signal that is on its way into libdbus' queue.
InputDispatch ==
  /\ pc = "input"
  /\ IF Null \notin ready
     THEN UNCHANGED <<terms, terminals, current_terminal, login, key>>
     ELSE /\ key' = FALSE
          /\ login' \in IF login = "sent" THEN {"sent", "queued"} ELSE {login}
          /\ \/ Flag("enable_vts") /\ \E v \in VT : SwitchTo(v)
             \/ UNCHANGED <<terms, terminals, current_terminal>>
  /\ pc' = "dispatch"
  /\ UNCHANGED <<mainVars, roundVars, left, bus>>

\* Wrong: only the terminal in front is read.
DispatchedCurrent == {terminals[current_terminal]}

\* The terminals the loop over the table dispatches.
Dispatched == {i \in Ids : InTable(i)}

\* term_dispatch_io takes the event of the bridge.
Dispatch ==
  /\ pc = "dispatch"
  /\ terms' = [i \in Ids |-> IF i \in ready \cap Dispatched THEN Unnoticed(terms[i]) ELSE terms[i]]
  /\ pc' = "restart"
  /\ UNCHANGED <<mainVars, roundVars, terminals, current_terminal, left, bus, login, key>>

\* Wrong: the pointer read at the start of the round.
TerminalOfRound == held.round

\* "Could have changed in input dispatch."
TerminalNow == terminals[current_terminal]

\* term_is_child_done and the restart, which first makes the new terminal and
\* then closes the old one; a failure leaves the old one open and forgotten.
RestartCheck ==
  LET t == TerminalNow IN
  /\ pc = "restart"
  /\ misused' = Misuse(t, "restart")
  /\ IF t = Null \/ t \notin Ids \/ terms[t].child # "zombie"
     THEN pc' = Back /\ UNCHANGED <<terms, terminals>>
     ELSE LET reaped == WithChild(t, "reaped") IN
          \/ /\ t = terminals[SplashVt] /\ ~Flag("enable_vt1")
             /\ terms' = reaped /\ pc' = Back /\ UNCHANGED terminals
          \/ /\ ~(t = terminals[SplashVt] /\ ~Flag("enable_vt1"))
             /\ terminals' = [terminals EXCEPT ![current_terminal] = Len(terms) + 1]
             /\ terms' = Append(Closed(reaped, t), NewTerm(current_terminal))
             /\ pc' = Back
          \/ /\ ~(t = terminals[SplashVt] /\ ~Flag("enable_vt1"))
             /\ terminals' = [terminals EXCEPT ![current_terminal] = Null]
             /\ terms' = reaped /\ pc' = Broken
  /\ ready' = {} /\ held' = [held EXCEPT !.round = Null]
  /\ UNCHANGED <<mainVars, round, current_terminal, left, bus, login, key>>
-----------------------------------------------------------------------------
(* The other processes, the user and the bus.                              *)

loopState == <<round, held, ready, splash, bus, misused, pc, attempted, terminals,
               current_terminal, told, command_flags>>

ChildTalks(i) ==
  /\ terms[i].child = "running" /\ terms[i].open
  /\ terms' = [terms EXCEPT ![i] = Noticed(terms[i])]
  /\ UNCHANGED <<loopState, parent, left, login, key>>

\* A process that ends closes its files, which is what frecon sees, some time
\* before it can be waited for.
ChildExits(i) ==
  /\ terms[i].child = "running" /\ left.exits > 0
  /\ terms' = [WithChild(i, "exiting") EXCEPT ![i] = Noticed(@)]
  /\ left' = [left EXCEPT !.exits = @ - 1]
  /\ UNCHANGED <<loopState, parent, login, key>>

\* The last process that held the master is gone: SIGHUP.
HangUp(i) ==
  /\ i \in Ids /\ terms[i].child = "running" /\ ~MasterHeld(i)
  /\ terms' = WithChild(i, "exiting")
  /\ UNCHANGED <<loopState, parent, left, login, key>>

ChildGone(i) ==
  /\ i \in Ids /\ terms[i].child = "exiting"
  /\ terms' = WithChild(i, "zombie")
  /\ UNCHANGED <<loopState, parent, left, login, key>>

\* The read in daemonize: the report, or the end of the pipe.
ParentReads ==
  /\ parent = "waiting"
  /\ \/ told /\ parent' = "success"
     \/ ~told /\ ~ReportExpected /\ parent' = "failure"
  /\ UNCHANGED <<loopState, terms, left, login, key>>

SignalLogin ==
  /\ Running /\ bus # "down" /\ login = "none"
  /\ login' = "sent"
  /\ UNCHANGED <<loopState, parent, terms, left, key>>

KeyPressed ==
  /\ Running /\ ~key /\ left.keys > 0
  /\ key' = TRUE
  /\ left' = [left EXCEPT !.keys = @ - 1]
  /\ UNCHANGED <<loopState, parent, terms, login>>

\* frecon is gone: its descriptors are closed and its memory is free.
Gone ==
  /\ pc' = "ended"
  /\ terms' = [i \in Ids |-> Shut(terms[i])]
  /\ terminals' = [v \in VT |-> Null] /\ current_terminal' = SplashVt
  /\ held' = NoPointers /\ ready' = {} /\ splash' = FALSE
  /\ bus' = "down" /\ login' = "none" /\ key' = FALSE
  /\ left' = [exits |-> 0, keys |-> 0]
  /\ UNCHANGED <<command_flags, parent, told, attempted, round, misused>>

Exit == pc = "exit" /\ Gone
Killed == Running /\ Gone

AllIds == 1 .. NumVts + MaxExits

Start == Daemonize \/ InitDevices \/ SplashInit \/ PreCreate \/ Report
Splash == SplashRun \/ SplashFrame \/ SplashEnds \/ LeaveInteractive \/ LeaveSplash
Loop == Top \/ SelectTimesOut \/ Select \/ DbusDispatch
        \/ InputDispatch \/ Dispatch \/ RestartCheck
Frecon == Start \/ Splash \/ Loop \/ Exit

Next ==
  \/ Frecon \/ Killed \/ ParentReads \/ SignalLogin \/ KeyPressed
  \/ \E i \in Ids : ChildTalks(i) \/ ChildExits(i) \/ HangUp(i) \/ ChildGone(i)

\* frecon and its parent run, and the kernel ends processes.
Spec ==
  /\ Init /\ [][Next]_vars
  /\ WF_vars(Frecon) /\ WF_vars(ParentReads)
  /\ \A i \in AllIds : WF_vars(HangUp(i)) /\ WF_vars(ChildGone(i))
-----------------------------------------------------------------------------
\* The table holds open terminals, each under its own VT (term_set_terminal,
\* term_destroy_splash_term, main_process_events).
TypeOK ==
  /\ parent \in {"none", "waiting", "success", "failure"}
  /\ round \in {"splash", "main"} /\ bus \in {"down", "deaf", "up"}
  /\ login \in {"none", "sent", "queued", "done"}
  /\ told \in BOOLEAN /\ splash \in BOOLEAN /\ key \in BOOLEAN
  /\ attempted \subseteq VT /\ current_terminal \in VT
  /\ Ids \subseteq AllIds /\ ready \subseteq Ids \cup {Null}
  /\ \A i \in Ids : terms[i].child \in {"running", "exiting", "zombie", "reaped"}
  /\ \A v \in VT : terminals[v] # Null =>
       terminals[v] \in Ids /\ terms[terminals[v]].vt = v /\ terms[terminals[v]].open

\* The parent reports success only when every console it waits for has been
\* tried, and failure only when nobody can report any more (daemonize,
\* daemon_exit_code, main).
ParentTold ==
  /\ parent = "success" /\ Flag("pre_create_vts") => PreCreated \subseteq attempted
  /\ parent = "failure" => ~Running /\ ~told

\* A closed terminal is touched in two situations only: the exception check of
\* the round in which the login prompt closed the splash terminal, and the
\* frames that follow a restart of VT1 during the animation
\* (main_process_events, splash_run).
UseAfterClose ==
  /\ misused \subseteq {"exception", "frame"}
  /\ "exception" \in misused => Flag("daemon") /\ ~Flag("enable_vt1") /\ ~splash
  /\ "frame" \in misused => Flag("enable_vt1")

\* No process outlives frecon by a descriptor it inherited: a parent that was
\* told returns, and once no parent waits every child is hung up, also the
\* ones whose master children forked after them hold (shl_pty_open,
\* daemonize).
EndsTogether ==
  /\ told ~> parent \in {"none", "success"}
  /\ (~Running /\ parent # "waiting") ~> (\A i \in Ids : terms[i].child # "running")

Unread(i) == i \in Ids /\ InTable(i) /\ Running /\ terms[i].edge
Exited(i) == /\ i \in Ids /\ Running /\ terms[i].child = "zombie"
             /\ terminals[current_terminal] = i
Signalled == Running /\ login \in {"sent", "queued"}

\* A round leaves nobody out: output of any terminal wakes it and is read; and if
\* rounds keep coming ([]<>(pc = "restart")), an exited child of the current
\* terminal is reaped and a signal is handled.  Neither the exit nor a signal in
\* libdbus' queue is sure to cause a round: that such a wake-up is lost is outside
\* this property (main_process_events, term_is_child_done, dbus_dispatch_io).
RoundServes ==
  /\ \A i \in AllIds : Unread(i) ~> ~Unread(i)
  /\ []<>(pc = "restart") =>
       /\ \A i \in AllIds : Exited(i) ~> ~Exited(i)
       /\ Signalled ~> ~Signalled

\* "Child has died? [...] Propagate child exit code." (util.c:74): the parent of a
\* frecon that died returns.  It does not when the splash terminal exists: its
\* child has the pipe's write end, and the parent itself keeps that child's
\* terminal alive.
ParentHearsDeath == ~Running ~> parent # "waiting"
=============================================================================
