------------------------------ MODULE VtSwitch ------------------------------
(***************************************************************************)
(* Virtual terminals and the display hand-over with Chrome: the single     *)
(* threaded event loop of main.c, the terminal table of term.c, the DRM    *)
(* master calls of drm.c and the D-Bus requests of dbus_full.c, together   *)
(* with the other parties they talk to (Chrome's DisplayService, the       *)
(* kernel's DRM master, the monitor and the user).                         *)
(*                                                                         *)
(* A handler of the event loop that never waits is one action.  A handler  *)
(* that blocks (a D-Bus call, the sleep between two attempts, the search   *)
(* for a DRM device) is split where it blocks: "pc" says where the process *)
(* is and "target" which term_switch_to call it has to finish, so Chrome,  *)
(* the monitor and the bus move while it waits.                            *)
(***************************************************************************)
EXTENDS Naturals, Sequences

CONSTANTS
  NumVts,       \* term_num_terminals
  FlagChoices,  \* the command lines considered
  Connectors,   \* DRM connector ids a monitor may be found on
  MaxRetry,     \* "retry" of term_foreground, 5 in the code
  MaxBacklog    \* the user switches only while Chrome lags by at most this

VT == 0 .. NumVts - 1
SplashVt == 0
NoVt == NumVts
NoMonitor == 0

Flags == [daemon : BOOLEAN, enable_vts : BOOLEAN, enable_vt1 : BOOLEAN,
          enable_osc : BOOLEAN, splash_only : BOOLEAN,
          wait_drop_master : BOOLEAN, pre_create_vts : BOOLEAN]

ASSUME NumVtsAssumption == NumVts \in 1 .. 12
ASSUME FlagsAssumption == FlagChoices \subseteq Flags
ASSUME ConnectorsAssumption == Connectors \subseteq Nat \ {NoMonitor}
ASSUME BoundsAssumption == MaxRetry \in Nat /\ MaxBacklog \in Nat

VARIABLES
  command_flags,     \* fixed at start-up
  terminals,         \* what terminals[] holds: no, an inactive or an active one
  current_terminal,
  vt_links,          \* VTs with a link /run/frecon/vt%u
  current_link,      \* the VT /run/frecon/current points to, or NoVt
  in_background,
  hotplug_occured,
  g_drm,             \* console_connector_id of g_drm, NoMonitor when it is NULL
  dbus,              \* dbus_is_initialized()
  login_cb,          \* login_prompt_visible_callback is set
  suspend_cb,        \* suspend_done_callback is set
  stage,             \* where main() is
  pc,                \* what the running handler waits for
  target,            \* the VT term_switch_to is bringing up, or NoVt
  retry,             \* attempts term_foreground has left
  master,            \* the kernel's DRM master
  connected,         \* the connector with a monitor on it
  uevent,            \* a HOTPLUG=1 uevent is queued
  chrome,            \* Chrome's DisplayService is up
  inbox,             \* requests it has not served, in the order sent
  reply              \* its answer to the request frecon waits for

termVars   == <<terminals, current_terminal, vt_links, current_link>>
busVars    == <<dbus, login_cb, suspend_cb>>
callVars   == <<pc, target, retry>>
chromeVars == <<chrome, inbox, reply>>
modeVars   == <<in_background, hotplug_occured>>
vars == <<command_flags, termVars, modeVars, g_drm, busVars, stage, callVars,
          master, connected, uevent, chromeVars>>

-----------------------------------------------------------------------------
(* Helpers: one per function the handlers share.                           *)

Flag(name) == command_flags[name]

Exists(v) == terminals[v] # "null"

\* Wrong: the terminal switched away from stays active.
DeactivateForgotten == terminals

\* The table once term_deactivate has been applied to the current terminal.
Deactivated ==
  [terminals EXCEPT ![current_terminal] = IF @ = "active" THEN "inactive" ELSE @]

\* What term_update_current_link leaves for VT v.
LinkTo(v) == IF v # SplashVt \/ Flag("enable_vt1") THEN v ELSE NoVt

\* Wrong: drm_dropmaster forgotten.
DropForgotten == master

\* Wrong: master taken from whoever has it.
TakeByForce == IF g_drm # NoMonitor THEN "frecon" ELSE master

DropMaster == IF master = "frecon" /\ g_drm # NoMonitor THEN "none" ELSE master
TakeMaster == IF master = "none"   /\ g_drm # NoMonitor THEN "frecon" ELSE master

\* Wrong: no new call while an older one has not been answered.
SendUnlessBusy(request) ==
  IF chrome = "up" /\ inbox = <<>>
  THEN inbox' = Append(inbox, request) /\ reply' = "none"
  ELSE reply' = "no" /\ UNCHANGED inbox

\* A blocking call is queued for Chrome, or refused at once when nobody owns
\* the DisplayService name.
Send(request) ==
  IF chrome = "up"
  THEN inbox' = Append(inbox, request) /\ reply' = "none"
  ELSE reply' = "no" /\ UNCHANGED inbox

\* Wrong: term_close without the unlink of the VT's link.
DestroyKeepsLink ==
  IF Flag("enable_vt1") THEN UNCHANGED termVars
  ELSE /\ terminals' = [terminals EXCEPT ![SplashVt] = "null"]
       /\ UNCHANGED <<vt_links, current_link, current_terminal>>

\* term_destroy_splash_term and the term_close in it.
DestroySplashTerm ==
  IF Flag("enable_vt1") THEN UNCHANGED termVars
  ELSE /\ terminals' = [terminals EXCEPT ![SplashVt] = "null"]
       /\ IF Exists(SplashVt)
          THEN /\ vt_links' = vt_links \ {SplashVt}
               /\ current_link' = IF current_terminal = SplashVt THEN NoVt ELSE current_link
          ELSE UNCHANGED <<vt_links, current_link>>
       /\ UNCHANGED current_terminal

\* The process ends: the kernel closes its DRM file.  main_done also unlinks
\* /run/frecon/current, exit() does not.
Stop(link) ==
  /\ stage' = "exited"
  /\ master' = IF master = "frecon" THEN "none" ELSE master
  /\ current_link' = link

Running == pc = "idle" /\ stage \in {"splash", "main"}
-----------------------------------------------------------------------------
(* term_switch_to, term_background, term_foreground.                       *)

Return == pc' = "idle" /\ target' = NoVt /\ UNCHANGED retry

\* term_background(true) with "table" as the terminals left by the caller:
\* master is dropped and one TakeOwnership call is made, if there is a bus.
TermBackground(table, cur) ==
  /\ terminals' = IF in_background THEN table
                  ELSE [table EXCEPT ![cur] = IF @ = "active" THEN "inactive" ELSE @]
  /\ in_background' = TRUE
  /\ master' = IF in_background THEN master ELSE DropMaster
  /\ IF ~in_background /\ dbus
     THEN pc' = "take" /\ Send("Take") /\ UNCHANGED <<target, retry>>
     ELSE Return /\ UNCHANGED <<inbox, reply>>

\* The tail of term_switch_to: v becomes current and its terminal, created if
\* there is none, active.  A term_init that fails closes what it has built,
\* which removes both links.
ShowVt(v, table) ==
  /\ current_terminal' = v
  /\ \/ /\ terminals' = [table EXCEPT ![v] = "active"]
        /\ vt_links' = vt_links \cup {v}
        /\ current_link' = LinkTo(v)
     \/ /\ table[v] = "null"
        /\ terminals' = table
        /\ vt_links' = vt_links \ {v}
        /\ current_link' = NoVt
  /\ Return

SwitchTo(v) ==
  \/ \* already there
     /\ v = current_terminal /\ Exists(v)
     /\ terminals' = [terminals EXCEPT ![v] = "active"]
     /\ Return
     /\ UNCHANGED <<current_terminal, vt_links, current_link, in_background, master,
                    inbox, reply>>
  \/ \* -EINVAL
     /\ v \notin VT
     /\ Return
     /\ UNCHANGED <<termVars, in_background, master, inbox, reply>>
  \/ \* back to Chrome
     /\ v = SplashVt /\ ~Flag("enable_vt1")
     /\ ~(v = current_terminal /\ Exists(v))
     /\ current_terminal' = v
     /\ current_link' = LinkTo(v)
     /\ TermBackground(Deactivated, v)
     /\ UNCHANGED vt_links
  \/ \* another terminal, the display being ours already
     /\ v \in VT /\ (v # SplashVt \/ Flag("enable_vt1"))
     /\ ~(v = current_terminal /\ Exists(v))
     /\ ~in_background
     /\ ShowVt(v, Deactivated)
     /\ UNCHANGED <<in_background, master, inbox, reply>>
  \/ \* another terminal, Chrome has to release the display first
     /\ v \in VT /\ (v # SplashVt \/ Flag("enable_vt1"))
     /\ ~(v = current_terminal /\ Exists(v))
     /\ in_background
     /\ in_background' = FALSE
     /\ terminals' = Deactivated
     /\ target' = v
     /\ IF dbus THEN pc' = "release" /\ retry' = MaxRetry /\ Send("Release")
                ELSE pc' = "setmaster" /\ UNCHANGED <<retry, inbox, reply>>
     /\ UNCHANGED <<current_terminal, vt_links, current_link, master>>

\* Chrome answered true.
ReleaseGranted ==
  /\ pc = "release" /\ reply = "yes"
  /\ pc' = "setmaster"
  /\ reply' = "none"
  /\ UNCHANGED <<command_flags, termVars, modeVars, g_drm, busVars, stage, target, retry,
                 master, connected, uevent, chrome, inbox>>

\* Wrong: one attempt too many.
AttemptsLeftOffByOne == retry >= 0

AttemptsLeft == retry > 0

\* Chrome answered false, could not be reached, or the call timed out: ask
\* again, and try to steal master after the last attempt.  A request that
\* timed out stays in Chrome's inbox.
ReleaseFailed ==
  /\ pc = "release" /\ reply # "yes"
  /\ IF AttemptsLeft
     THEN retry' = retry - 1 /\ Send("Release") /\ UNCHANGED pc
     ELSE pc' = "steal" /\ reply' = "none" /\ UNCHANGED <<retry, inbox>>
  /\ UNCHANGED <<command_flags, termVars, modeVars, g_drm, busVars, stage, target,
                 master, connected, uevent, chrome>>

\* What follows term_foreground or term_monitor_hotplug in their callers.
Finish ==
  IF target = NoVt THEN Return /\ UNCHANGED termVars
                   ELSE ShowVt(target, terminals)

\* drm_setmaster and the pending hotplug; the result of drmSetMaster is
\* only logged.
SetMaster ==
  /\ pc \in {"setmaster", "steal"}
  /\ master' = TakeMaster
  /\ hotplug_occured' = FALSE
  /\ IF hotplug_occured
     THEN pc' = "rescan" /\ UNCHANGED <<target, retry, termVars>>
     ELSE Finish
  /\ UNCHANGED <<command_flags, in_background, g_drm, busVars, stage, connected, uevent,
                 chromeVars>>

\* drm_rescan drops master so that the device it opens can have it ...
RescanDrop ==
  /\ pc = "rescan"
  /\ pc' = "scan"
  /\ master' = DropMaster
  /\ UNCHANGED <<command_flags, termVars, modeVars, g_drm, busVars, stage, target, retry,
                 connected, uevent, chromeVars>>

\* ... drm_scan retries for ever until it has got it, and keeps it only when
\* the monitor is a new one ...
Scan ==
  /\ pc = "scan" /\ master = "none"
  /\ IF connected = g_drm /\ connected # NoMonitor
     THEN pc' = "regain" /\ UNCHANGED <<g_drm, master, target, retry, termVars>>
     ELSE /\ g_drm' = connected
          /\ master' = IF connected # NoMonitor THEN "frecon" ELSE master
          /\ Finish
  /\ UNCHANGED <<command_flags, modeVars, busVars, stage, connected, uevent, chromeVars>>

\* ... and otherwise it is asked for again; the result is ignored.
Regain ==
  /\ pc = "regain"
  /\ master' = TakeMaster
  /\ Finish
  /\ UNCHANGED <<command_flags, modeVars, g_drm, busVars, stage, connected, uevent,
                 chromeVars>>

\* TakeOwnership is answered, refused or times out; it is not repeated.
TakeDone ==
  /\ pc = "take"
  /\ Return
  /\ reply' = "none"
  /\ UNCHANGED <<command_flags, termVars, modeVars, g_drm, busVars, stage, master,
                 connected, uevent, chrome, inbox>>
-----------------------------------------------------------------------------
(* Start-up: main() from the splash screen to the event loop.              *)

Init ==
  /\ command_flags \in FlagChoices
  /\ \E made \in SUBSET VT :
       /\ \A v \in made \ {SplashVt} :
            command_flags.pre_create_vts /\ command_flags.enable_vts
       /\ terminals = [v \in VT |-> IF v \in made THEN "inactive" ELSE "null"]
       /\ vt_links = made
  /\ current_terminal = SplashVt /\ current_link = NoVt
  /\ in_background = FALSE /\ hotplug_occured = FALSE
  /\ connected \in Connectors \cup {NoMonitor}
  /\ g_drm = connected
  /\ master = IF connected # NoMonitor THEN "frecon" ELSE "none"
  /\ dbus = FALSE /\ login_cb = FALSE /\ suspend_cb = FALSE
  /\ stage = "boot" /\ pc = "idle" /\ target = NoVt /\ retry = 0
  /\ uevent = FALSE
  /\ chrome \in {"up", "down"} /\ inbox = <<>> /\ reply = "none"

CanShowSplash == g_drm # NoMonitor /\ Exists(SplashVt)

\* splash_run up to its first frame.
SplashFirstFrame ==
  /\ stage = "boot" /\ CanShowSplash
  /\ stage' = "splash"
  /\ terminals' = [terminals EXCEPT ![SplashVt] = "active"]
  /\ current_terminal' = SplashVt
  /\ current_link' = LinkTo(SplashVt)
  /\ UNCHANGED <<command_flags, vt_links, modeVars, g_drm, busVars, callVars, master,
                 connected, uevent, chromeVars>>

\* No monitor, no images, no terminal, or no image that loads.
SplashSkipped ==
  /\ stage = "boot"
  /\ stage' = "tail"
  /\ \/ UNCHANGED <<current_link, dbus>>
     \/ CanShowSplash /\ current_link' = LinkTo(SplashVt) /\ (UNCHANGED dbus \/ dbus' = TRUE)
  /\ UNCHANGED <<command_flags, terminals, current_terminal, vt_links, modeVars, g_drm,
                 login_cb, suspend_cb, callVars, master, connected, uevent, chromeVars>>

\* splash_run returns.  Interactive frecon gives up when it failed and
\* otherwise destroys the splash terminal.
SplashDone ==
  /\ stage = "splash" /\ pc = "idle"
  /\ \/ /\ stage' = "tail"
        /\ IF Flag("daemon") THEN UNCHANGED termVars ELSE DestroySplashTerm
        /\ UNCHANGED master
     \/ /\ ~Flag("daemon")
        /\ Stop(current_link)
        /\ UNCHANGED <<terminals, current_terminal, vt_links>>
  /\ UNCHANGED <<command_flags, modeVars, g_drm, busVars, callVars, connected, uevent,
                 chromeVars>>

\* The rest of main() up to main_loop.
MainTail ==
  /\ stage = "tail"
  /\ \/ /\ Flag("splash_only")
        /\ Stop(NoVt)
        /\ UNCHANGED <<terminals, current_terminal, vt_links, in_background, callVars,
                       inbox, reply>>
     \/ /\ ~Flag("splash_only")
        /\ stage' = "main"
        /\ \/ /\ Flag("enable_vt1")
              /\ SwitchTo(SplashVt)
           \/ /\ ~Flag("daemon") /\ ~Flag("enable_vt1")
              /\ SwitchTo(1)
           \/ /\ Flag("daemon") /\ ~Flag("enable_vt1") /\ ~Flag("wait_drop_master")
              /\ TermBackground(terminals, current_terminal)
              /\ UNCHANGED <<current_terminal, vt_links, current_link>>
           \/ /\ Flag("daemon") /\ ~Flag("enable_vt1") /\ Flag("wait_drop_master")
              /\ UNCHANGED <<termVars, in_background, master, callVars, inbox, reply>>
  /\ UNCHANGED <<command_flags, hotplug_occured, g_drm, busVars, connected, uevent, chrome>>
-----------------------------------------------------------------------------
(* Event handlers.                                                         *)

\* Ctrl+Alt+Fn (input_special_key).
KeySwitch(v) ==
  /\ Running /\ Flag("enable_vts") /\ Len(inbox) <= MaxBacklog
  /\ SwitchTo(v)
  /\ UNCHANGED <<command_flags, hotplug_occured, g_drm, busVars, stage, connected, uevent,
                 chrome>>

\* The switchvt: escape, printed on any terminal, for any number.
OscSwitch(v) ==
  /\ Running /\ Flag("enable_osc") /\ Len(inbox) <= MaxBacklog
  /\ \E t \in VT : Exists(t)
  /\ SwitchTo(v)
  /\ UNCHANGED <<command_flags, hotplug_occured, g_drm, busVars, stage, connected, uevent,
                 chrome>>

\* The drmdropmaster escape.
OscDropMaster ==
  /\ Running /\ Flag("enable_osc") /\ Len(inbox) <= MaxBacklog
  /\ \E t \in VT : Exists(t)
  /\ TermBackground(terminals, current_terminal)
  /\ UNCHANGED <<command_flags, current_terminal, vt_links, current_link, hotplug_occured,
                 g_drm, busVars, stage, connected, uevent, chrome>>

\* Wrong: a hotplug in the background is dropped.
HotplugForgotten ==
  /\ Running
  /\ IF in_background THEN UNCHANGED pc ELSE pc' = "rescan"
  /\ UNCHANGED <<command_flags, termVars, modeVars, g_drm, busVars, stage, target, retry,
                 master, connected, chromeVars>>

\* term_monitor_hotplug as an event handler: remembered while in background.
MonitorHotplug ==
  /\ Running
  /\ IF in_background THEN hotplug_occured' = TRUE /\ UNCHANGED pc
                      ELSE pc' = "rescan" /\ UNCHANGED hotplug_occured
  /\ UNCHANGED <<command_flags, termVars, in_background, g_drm, busVars, stage, target,
                 retry, master, connected, chromeVars>>

HotplugEvent == uevent /\ uevent' = FALSE /\ MonitorHotplug

LidSwitch == MonitorHotplug /\ UNCHANGED uevent

SuspendDone == dbus /\ suspend_cb /\ MonitorHotplug /\ UNCHANGED uevent

\* dbus_init succeeds.  The one in splash_run registers no callback.
DbusConnect ==
  /\ Running /\ ~dbus
  /\ dbus' = TRUE
  /\ login_cb' = (stage = "main") /\ suspend_cb' = (stage = "main")
  /\ UNCHANGED <<command_flags, termVars, modeVars, g_drm, stage, callVars, master,
                 connected, uevent, chromeVars>>

\* Chrome shows the login prompt; the callback runs once.
LoginPromptVisible ==
  /\ Running /\ dbus /\ login_cb /\ chrome = "up"
  /\ login_cb' = FALSE
  /\ IF Flag("daemon") /\ ~Flag("enable_vts")
     THEN Stop(current_link) /\ UNCHANGED <<terminals, current_terminal, vt_links>>
     ELSE /\ IF Flag("daemon") THEN DestroySplashTerm ELSE UNCHANGED termVars
          /\ UNCHANGED <<stage, master>>
  /\ UNCHANGED <<command_flags, modeVars, g_drm, dbus, suspend_cb, callVars, connected,
                 uevent, chromeVars>>

\* The child of the current terminal has exited: a new terminal takes its
\* place and is activated, then the old one is closed.  When there is no new
\* one the event loop ends.
RestartChild ==
  /\ Running /\ Exists(current_terminal)
  /\ current_terminal # SplashVt \/ Flag("enable_vt1")
  /\ vt_links' = vt_links \ {current_terminal}
  /\ current_link' = NoVt
  /\ \/ /\ terminals' = [terminals EXCEPT ![current_terminal] = "active"]
        /\ UNCHANGED <<stage, master>>
     \/ /\ terminals' = [terminals EXCEPT ![current_terminal] = "null"]
        /\ IF stage = "main" THEN Stop(NoVt) ELSE UNCHANGED <<stage, master>>
  /\ UNCHANGED <<command_flags, current_terminal, modeVars, g_drm, busVars, callVars,
                 connected, uevent, chromeVars>>

\* An exception on the current pty ends the event loop.
PtyException ==
  /\ Running /\ stage = "main" /\ Exists(current_terminal)
  /\ Stop(NoVt)
  /\ UNCHANGED <<command_flags, terminals, current_terminal, vt_links, modeVars, g_drm,
                 busVars, callVars, connected, uevent, chromeVars>>
-----------------------------------------------------------------------------
(* Chrome, the kernel and the monitor.                                     *)

freconVars == <<command_flags, termVars, modeVars, g_drm, busVars, stage, callVars>>

ChromeStart ==
  /\ chrome = "down"
  /\ chrome' = "up"
  /\ UNCHANGED <<freconVars, master, connected, uevent, inbox, reply>>

\* The bus drops what was queued for it and fails the call frecon waits for.
ChromeCrash ==
  /\ chrome = "up"
  /\ chrome' = "down"
  /\ inbox' = <<>>
  /\ reply' = IF pc \in {"take", "release"} /\ reply = "none" THEN "no" ELSE reply
  /\ master' = IF master = "chrome" THEN "none" ELSE master
  /\ UNCHANGED <<freconVars, connected, uevent>>

\* Chrome configures its display on its own account, which only works when
\* nobody is master.
ChromeConfigure ==
  /\ chrome = "up" /\ master = "none"
  /\ master' = "chrome"
  /\ UNCHANGED <<freconVars, connected, uevent, chromeVars>>

\* The oldest request is served; the answer reaches frecon if it still waits
\* for this one.
ChromeServe ==
  /\ chrome = "up" /\ inbox # <<>>
  /\ inbox' = Tail(inbox)
  /\ LET answer == IF Head(inbox) = "Take" /\ master = "frecon" THEN "no" ELSE "yes"
     IN  reply' = IF pc \in {"take", "release"} /\ reply = "none" /\ Len(inbox) = 1
                  THEN answer ELSE reply
  /\ master' = CASE Head(inbox) = "Take" /\ master = "none" -> "chrome"
                 [] Head(inbox) = "Release" /\ master = "chrome" -> "none"
                 [] OTHER -> master
  /\ UNCHANGED <<freconVars, connected, uevent, chrome>>

MonitorChange ==
  /\ connected' \in (Connectors \cup {NoMonitor}) \ {connected}
  /\ uevent' = TRUE
  /\ UNCHANGED <<freconVars, master, chromeVars>>

-----------------------------------------------------------------------------
Startup == SplashFirstFrame \/ SplashSkipped \/ SplashDone \/ MainTail

Handlers ==
  \/ \E v \in VT : KeySwitch(v)
  \/ \E v \in VT \cup {NumVts} : OscSwitch(v)
  \/ OscDropMaster \/ HotplugEvent \/ LidSwitch \/ SuspendDone \/ DbusConnect
  \/ LoginPromptVisible \/ RestartChild \/ PtyException

Continue == ReleaseGranted \/ ReleaseFailed \/ SetMaster \/ RescanDrop \/ Scan
            \/ Regain \/ TakeDone

Environment == ChromeStart \/ ChromeCrash \/ ChromeConfigure \/ ChromeServe
               \/ MonitorChange

Next == Startup \/ Handlers \/ Continue \/ Environment

Spec == Init /\ [][Next]_vars

\* A handler that has begun goes on, for its sleeps and its calls time out; and
\* Chrome, while it is up, gets round to its requests.
ServedSpec == Spec /\ WF_vars(Continue) /\ WF_vars(ChromeServe)
-----------------------------------------------------------------------------
TypeOK ==
  /\ command_flags \in Flags
  /\ terminals \in [VT -> {"null", "inactive", "active"}]
  /\ current_terminal \in VT
  /\ vt_links \subseteq VT
  /\ current_link \in VT \cup {NoVt}
  /\ in_background \in BOOLEAN /\ hotplug_occured \in BOOLEAN
  /\ g_drm \in Connectors \cup {NoMonitor}
  /\ dbus \in BOOLEAN /\ login_cb \in BOOLEAN /\ suspend_cb \in BOOLEAN
  /\ stage \in {"boot", "splash", "tail", "main", "exited"}
  /\ pc \in {"idle", "release", "setmaster", "steal", "rescan", "scan", "regain",
            "take"}
  /\ target \in VT \cup {NoVt}
  /\ retry \in 0 .. MaxRetry
  /\ master \in {"none", "frecon", "chrome"}
  /\ connected \in Connectors \cup {NoMonitor}
  /\ uevent \in BOOLEAN
  /\ chrome \in {"up", "down"}
  /\ inbox \in Seq({"Take", "Release"})
  /\ reply \in {"none", "yes", "no"}

\* Key presses go to at most one terminal, and it is the current one: however
\* a switch, a restart and a destroyed splash screen interleave, no other
\* terminal is left active (term_switch_to, term_activate).
OnlyCurrentActive == \A v \in VT : terminals[v] = "active" => v = current_terminal

\* A frecon that considers itself in the background does not hold the display:
\* Chrome can always become master (term_background, term_foreground).
BackgroundYieldsMaster == in_background => master # "frecon"

\* While g_drm is not what is connected, a uevent is queued, a change is
\* remembered for the return to the foreground, or a rescan is under way.
HotplugTracked ==
  g_drm # connected => uevent \/ hotplug_occured \/ pc \in {"rescan", "scan"}

\* A remembered change is one that a later term_foreground will process.
HotplugPending ==
  hotplug_occured => in_background \/ pc \in {"release", "setmaster", "steal"}

\* A monitor change is never forgotten, and the record of it does not outlive
\* the moment at which it is looked at (term_monitor_hotplug, term_foreground).
HotplugKept == HotplugTracked /\ HotplugPending

\* No link in /run/frecon outlives its terminal, and "current" names no other
\* than the current one (term_init, term_close, term_update_current_link).
LinksSound ==
  /\ \A v \in vt_links : terminals[v] # "null"
  /\ current_link \in {current_terminal, NoVt}

\* Calls Chrome has not served yet, the timed-out ones included, end with the
\* one that asks for the mode frecon is in.
LastCallMatchesMode ==
  inbox # <<>> => (inbox[Len(inbox)] = "Take" <=> in_background)

\* The event loop always comes back from a handler, unless Chrome keeps
\* taking the display: drm_scan has no other way not to end.
LoopReturns == []<>(pc = "idle") \/ []<>(master = "chrome")

\* A TakeOwnership call that reached Chrome gives it the display, even after
\* frecon gave up waiting, unless frecon came back or ended, or Chrome died.
HandoffDelivered ==
  (pc = "take" /\ inbox # <<>>)
     ~> (master = "chrome" \/ ~in_background \/ chrome = "down" \/ stage = "exited")

\* The event loop hands the display over as DisplayHandoff says: frecon lets
\* go of it in the step in which it goes to the background, and ownership
\* never passes from one to the other without having been nobody's.
Handoff == INSTANCE DisplayHandoff WITH background <- in_background, owner <- master
ImplementsHandoff == Handoff!Spec
-----------------------------------------------------------------------------
(* What the comments and documents say and the code does not keep.         *)

\* README.md:155: "for every VT it creates, a link from /run/frecon/vt%u".
LinksComplete == stage = "main" /\ pc = "idle" => \A v \in VT : Exists(v) => v \in vt_links
=============================================================================
