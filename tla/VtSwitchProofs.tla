--------------------------- MODULE VtSwitchProofs ---------------------------
(***************************************************************************)
(* Invariance proofs for VtSwitch, for any number of terminals, any set of *)
(* connectors, command lines, attempts and backlog.                        *)
(***************************************************************************)
EXTENDS VtSwitch, TLAPS

USE NumVtsAssumption, FlagsAssumption, ConnectorsAssumption, BoundsAssumption

(* The bodies the handlers share keep the types of what they assign.       *)

LEMMA FlagType == ASSUME TypeOK, NEW n \in {"daemon", "enable_vts", "enable_vt1",
                    "enable_osc", "splash_only", "wait_drop_master", "pre_create_vts"}
                  PROVE Flag(n) \in BOOLEAN
BY DEF TypeOK, Flag, Flags

LEMMA VtFacts == /\ SplashVt \in VT /\ NoVt \notin VT /\ NoVt \in Nat
                 /\ VT \subseteq Nat
BY DEF VT, SplashVt, NoVt

\* Send appends one of the two requests.
LEMMA SendType ==
  ASSUME TypeOK, NEW request \in {"Take", "Release"}, Send(request)
  PROVE  inbox' \in Seq({"Take", "Release"}) /\ reply' \in {"none", "yes", "no"}
BY DEF TypeOK, Send

LEMMA ReturnType ==
  ASSUME TypeOK, Return
  PROVE  /\ pc' = "idle" /\ target' = NoVt
         /\ target' \in VT \cup {NoVt} /\ retry' \in 0 .. MaxRetry
BY DEF TypeOK, Return

TermTypes == /\ terminals \in [VT -> {"null", "inactive", "active"}]
             /\ current_terminal \in VT
             /\ vt_links \subseteq VT
             /\ current_link \in VT \cup {NoVt}

CallTypes == /\ pc \in {"idle", "release", "setmaster", "steal", "rescan", "scan", "regain",
                        "take"}
             /\ target \in VT \cup {NoVt}
             /\ retry \in 0 .. MaxRetry

BusTypes == inbox \in Seq({"Take", "Release"}) /\ reply \in {"none", "yes", "no"}

LEMMA DeactivatedType ==
  ASSUME TypeOK PROVE Deactivated \in [VT -> {"null", "inactive", "active"}]
BY DEF TypeOK, Deactivated

LEMMA ShowVtType ==
  ASSUME TypeOK, NEW v \in VT, NEW table \in [VT -> {"null", "inactive", "active"}],
         ShowVt(v, table)
  PROVE  TermTypes' /\ CallTypes'
<1>1. CallTypes'
  BY ReturnType DEF ShowVt, CallTypes
<1>2. TermTypes'
  BY DEF ShowVt, TermTypes, TypeOK, LinkTo
<1> QED
  BY <1>1, <1>2

LEMMA FinishType ==
  ASSUME TypeOK, Finish
  PROVE  TermTypes' /\ CallTypes'
<1>1. CASE target = NoVt
  BY <1>1, ReturnType DEF Finish, TermTypes, CallTypes, TypeOK, termVars
<1>2. CASE target # NoVt
  <2>1. target \in VT
    BY <1>2 DEF TypeOK
  <2> QED
    BY <1>2, <2>1, ShowVtType DEF Finish, TypeOK
<1> QED
  BY <1>1, <1>2

LEMMA DestroyType ==
  ASSUME TypeOK, DestroySplashTerm
  PROVE  TermTypes'
BY VtFacts DEF TypeOK, DestroySplashTerm, TermTypes, termVars

LEMMA MasterType ==
  ASSUME TypeOK
  PROVE  /\ DropMaster \in {"none", "frecon", "chrome"}
         /\ TakeMaster \in {"none", "frecon", "chrome"}
BY DEF TypeOK, DropMaster, TakeMaster

SwitchTypes == TermTypes /\ CallTypes /\ BusTypes /\ in_background \in BOOLEAN
               /\ master \in {"none", "frecon", "chrome"}

LEMMA BackgroundType ==
  ASSUME TypeOK, NEW v \in VT, NEW table \in [VT -> {"null", "inactive", "active"}],
         TermBackground(table, v)
  PROVE  /\ terminals' \in [VT -> {"null", "inactive", "active"}]
         /\ CallTypes' /\ BusTypes' /\ in_background' = TRUE
         /\ master' \in {"none", "frecon", "chrome"}
<1>1. CallTypes' /\ BusTypes'
  BY ReturnType, SendType DEF TermBackground, CallTypes, BusTypes, TypeOK
<1>2. terminals' \in [VT -> {"null", "inactive", "active"}]
  BY DEF TermBackground
<1> QED
  BY <1>1, <1>2, MasterType DEF TermBackground, TypeOK

LEMMA SwitchType ==
  ASSUME TypeOK, NEW v \in Nat, SwitchTo(v)
  PROVE  SwitchTypes'
<1>1. CASE /\ v = current_terminal /\ Exists(v)
           /\ terminals' = [terminals EXCEPT ![v] = "active"]
           /\ Return
           /\ UNCHANGED <<current_terminal, vt_links, current_link, in_background,
                          master, inbox, reply>>
  BY <1>1, ReturnType DEF TypeOK, SwitchTypes, TermTypes, CallTypes, BusTypes
<1>2. CASE Return /\ UNCHANGED <<termVars, in_background, master, inbox, reply>>
  BY <1>2, ReturnType DEF TypeOK, SwitchTypes, TermTypes, CallTypes, BusTypes, termVars
<1>3. CASE /\ v = SplashVt
           /\ current_terminal' = v /\ current_link' = LinkTo(v)
           /\ TermBackground(Deactivated, v) /\ UNCHANGED vt_links
  BY <1>3, BackgroundType, DeactivatedType, VtFacts
     DEF TypeOK, SwitchTypes, TermTypes, LinkTo
<1>4. CASE /\ v \in VT /\ ShowVt(v, Deactivated)
           /\ UNCHANGED <<in_background, master, inbox, reply>>
  BY <1>4, ShowVtType, DeactivatedType DEF TypeOK, SwitchTypes, BusTypes
<1>5. CASE /\ v \in VT /\ in_background' = FALSE
           /\ terminals' = Deactivated /\ target' = v
           /\ IF dbus THEN pc' = "release" /\ retry' = MaxRetry /\ Send("Release")
                      ELSE pc' = "setmaster" /\ UNCHANGED <<retry, inbox, reply>>
           /\ UNCHANGED <<current_terminal, vt_links, current_link, master>>
  <2>1. CallTypes' /\ BusTypes'
    BY <1>5, SendType DEF TypeOK, CallTypes, BusTypes
  <2> QED
    BY <1>5, <2>1, DeactivatedType DEF TypeOK, SwitchTypes, TermTypes
<1> QED
  BY <1>1, <1>2, <1>3, <1>4, <1>5 DEF SwitchTo

-----------------------------------------------------------------------------
(* Type correctness.                                                       *)

LEMMA InitType == Init => TypeOK
<1> SUFFICES ASSUME Init PROVE TypeOK
  OBVIOUS
<1>1. command_flags \in Flags
  BY DEF Init
<1>2. terminals \in [VT -> {"null", "inactive", "active"}] /\ vt_links \subseteq VT
  BY DEF Init
<1>3. g_drm \in Connectors \cup {NoMonitor} /\ connected \in Connectors \cup {NoMonitor}
  BY DEF Init
<1>4. retry \in 0 .. MaxRetry
  BY DEF Init
<1>5. current_terminal \in VT /\ current_link \in VT \cup {NoVt}
      /\ target \in VT \cup {NoVt}
  BY VtFacts DEF Init
<1>6. /\ in_background \in BOOLEAN /\ hotplug_occured \in BOOLEAN /\ uevent \in BOOLEAN
      /\ dbus \in BOOLEAN /\ login_cb \in BOOLEAN /\ suspend_cb \in BOOLEAN
  BY DEF Init
<1>7. /\ stage \in {"boot", "splash", "tail", "main", "exited"}
      /\ pc \in {"idle", "release", "setmaster", "steal", "rescan", "scan", "regain",
                 "take"}
      /\ master \in {"none", "frecon", "chrome"}
      /\ chrome \in {"up", "down"}
      /\ reply \in {"none", "yes", "no"}
  BY DEF Init
<1>8. inbox \in Seq({"Take", "Release"})
  BY DEF Init
<1> QED
  BY <1>1, <1>2, <1>3, <1>4, <1>5, <1>6, <1>7, <1>8 DEF TypeOK

LEMMA NextType == TypeOK /\ [Next]_vars => TypeOK'
<1> SUFFICES ASSUME TypeOK, [Next]_vars PROVE TypeOK'
  OBVIOUS
<1> USE DEF termVars, busVars, callVars, chromeVars, modeVars, freconVars
<1>1. CASE SplashFirstFrame
  BY <1>1, VtFacts DEF SplashFirstFrame, TypeOK, LinkTo
<1>2. CASE SplashSkipped
  <2>1. dbus' \in BOOLEAN
    BY <1>2 DEF SplashSkipped, TypeOK
  <2>2. current_link' \in VT \cup {NoVt} /\ stage' = "tail"
    BY <1>2, VtFacts DEF SplashSkipped, TypeOK, LinkTo
  <2>3. UNCHANGED <<command_flags, terminals, current_terminal, vt_links, modeVars, g_drm,
                    login_cb, suspend_cb, callVars, master, connected, uevent, chromeVars>>
    BY <1>2 DEF SplashSkipped
  <2> QED
    BY <2>1, <2>2, <2>3 DEF TypeOK
<1>3. CASE SplashDone
  BY <1>3, DestroyType DEF SplashDone, Stop, TypeOK, TermTypes
<1>4. CASE MainTail
  <2>1. CASE Flag("splash_only")
    BY <1>4, <2>1 DEF MainTail, Stop, TypeOK
  <2>2. CASE ~Flag("splash_only") /\ SwitchTo(SplashVt)
    BY <1>4, <2>2, SwitchType, VtFacts
       DEF MainTail, TypeOK, SwitchTypes, TermTypes, CallTypes, BusTypes
  <2>3. CASE ~Flag("splash_only") /\ SwitchTo(1)
    BY <1>4, <2>3, SwitchType
       DEF MainTail, TypeOK, SwitchTypes, TermTypes, CallTypes, BusTypes
  <2>4. CASE /\ ~Flag("splash_only") /\ TermBackground(terminals, current_terminal)
             /\ UNCHANGED <<current_terminal, vt_links, current_link>>
    BY <1>4, <2>4, BackgroundType DEF MainTail, TypeOK, CallTypes, BusTypes
  <2>5. CASE /\ ~Flag("splash_only")
             /\ UNCHANGED <<termVars, in_background, master, callVars, inbox, reply>>
    BY <1>4, <2>5 DEF MainTail, TypeOK
  <2> QED
    BY <1>4, <2>1, <2>2, <2>3, <2>4, <2>5 DEF MainTail
<1>5. ASSUME NEW v \in VT, KeySwitch(v) PROVE TypeOK'
  <2>1. v \in Nat /\ SwitchTo(v)
    BY <1>5, VtFacts DEF KeySwitch
  <2>2. SwitchTypes'
    BY <2>1, SwitchType
  <2>3. UNCHANGED <<command_flags, hotplug_occured, g_drm, busVars, stage, connected, uevent,
                    chrome>>
    BY <1>5 DEF KeySwitch
  <2> QED
    BY <2>2, <2>3 DEF TypeOK, SwitchTypes, TermTypes, CallTypes, BusTypes
<1>6. ASSUME NEW v \in VT \cup {NumVts}, OscSwitch(v) PROVE TypeOK'
  <2>1. v \in Nat /\ SwitchTo(v)
    BY <1>6, VtFacts DEF OscSwitch
  <2>2. SwitchTypes'
    BY <2>1, SwitchType
  <2>3. UNCHANGED <<command_flags, hotplug_occured, g_drm, busVars, stage, connected, uevent,
                    chrome>>
    BY <1>6 DEF OscSwitch
  <2> QED
    BY <2>2, <2>3 DEF TypeOK, SwitchTypes, TermTypes, CallTypes, BusTypes
<1>7. CASE OscDropMaster
  <2>1. TermBackground(terminals, current_terminal) /\ current_terminal \in VT
        /\ terminals \in [VT -> {"null", "inactive", "active"}]
    BY <1>7 DEF OscDropMaster, TypeOK
  <2>2. /\ terminals' \in [VT -> {"null", "inactive", "active"}]
        /\ CallTypes' /\ BusTypes' /\ in_background' = TRUE
        /\ master' \in {"none", "frecon", "chrome"}
    BY <2>1, BackgroundType
  <2> QED
    BY <1>7, <2>2 DEF OscDropMaster, TypeOK, CallTypes, BusTypes
<1>8. CASE HotplugEvent \/ LidSwitch \/ SuspendDone
  <2>1. MonitorHotplug /\ uevent' \in BOOLEAN
    BY <1>8 DEF HotplugEvent, LidSwitch, SuspendDone, TypeOK
  <2>2. UNCHANGED <<command_flags, termVars, in_background, g_drm, busVars, stage, target,
                    retry, master, connected, chromeVars>>
        /\ hotplug_occured' \in BOOLEAN
        /\ pc' \in {"idle", "release", "setmaster", "steal", "rescan", "scan", "regain",
                    "take"}
    BY <2>1 DEF MonitorHotplug, TypeOK
  <2> QED
    BY <2>1, <2>2 DEF TypeOK
<1>9. CASE DbusConnect
  BY <1>9 DEF DbusConnect, TypeOK
<1>10. CASE LoginPromptVisible
  <2>1. TermTypes' /\ stage' \in {"boot", "splash", "tail", "main", "exited"}
        /\ master' \in {"none", "frecon", "chrome"}
    BY <1>10, DestroyType DEF LoginPromptVisible, Stop, TypeOK, TermTypes
  <2>2. login_cb' \in BOOLEAN
        /\ UNCHANGED <<command_flags, modeVars, g_drm, dbus, suspend_cb, callVars, connected,
                       uevent, chromeVars>>
    BY <1>10 DEF LoginPromptVisible
  <2> QED
    BY <2>1, <2>2 DEF TypeOK, TermTypes
<1>11. CASE RestartChild
  BY <1>11 DEF RestartChild, Stop, TypeOK
<1>12. CASE PtyException
  BY <1>12 DEF PtyException, Stop, TypeOK
<1>13. CASE ReleaseGranted
  BY <1>13 DEF ReleaseGranted, TypeOK
<1>14. CASE ReleaseFailed
  BY <1>14, SendType DEF ReleaseFailed, AttemptsLeft, TypeOK
<1>15. CASE SetMaster
  <2>1. TermTypes' /\ CallTypes'
    BY <1>15, FinishType DEF SetMaster, TypeOK, TermTypes, CallTypes
  <2>2. master' \in {"none", "frecon", "chrome"}
    BY <1>15, MasterType DEF SetMaster
  <2>3. hotplug_occured' \in BOOLEAN
        /\ UNCHANGED <<command_flags, in_background, g_drm, busVars, stage, connected, uevent,
                       chromeVars>>
    BY <1>15 DEF SetMaster
  <2> QED
    BY <2>1, <2>2, <2>3 DEF TypeOK, TermTypes, CallTypes
<1>16. CASE RescanDrop
  BY <1>16, MasterType DEF RescanDrop, TypeOK
<1>17. CASE Scan
  BY <1>17, FinishType DEF Scan, TypeOK, TermTypes, CallTypes
<1>18. CASE Regain
  BY <1>18, FinishType, MasterType DEF Regain, TypeOK, TermTypes, CallTypes
<1>19. CASE TakeDone
  BY <1>19, ReturnType DEF TakeDone, TypeOK
<1>20. CASE ChromeStart \/ ChromeConfigure
  BY <1>20 DEF ChromeStart, ChromeConfigure, TypeOK
<1>24. CASE ChromeCrash
  BY <1>24 DEF ChromeCrash, TypeOK
<1>21. CASE ChromeServe
  BY <1>21 DEF ChromeServe, TypeOK
<1>22. CASE MonitorChange
  BY <1>22 DEF MonitorChange, TypeOK
<1>23. CASE UNCHANGED vars
  BY <1>23 DEF vars, TypeOK
<1> QED
  BY <1>1, <1>2, <1>3, <1>4, <1>5, <1>6, <1>7, <1>8, <1>9, <1>10, <1>11, <1>12, <1>13,
     <1>14, <1>15, <1>16, <1>17, <1>18, <1>19, <1>20, <1>21, <1>22, <1>23, <1>24
     DEF Next, Startup, Handlers, Continue, Environment

\* Every variable keeps its type: no retry counter below zero, no link or
\* current terminal outside the table, no request Chrome does not know.
THEOREM TypeCorrect == Spec => []TypeOK
BY InitType, NextType, PTL DEF Spec

-----------------------------------------------------------------------------
(* Which terminal is active.  OnlyCurrentActive is not inductive: a switch *)
(* deactivates the terminal it leaves long before it shows the next one,   *)
(* so while one is under way no terminal at all is active.                 *)

NoneActive == \A v \in VT : terminals[v] # "active"

Focus ==
  /\ OnlyCurrentActive
  /\ target # NoVt => NoneActive
  /\ pc \in {"idle", "take"} => target = NoVt
  /\ stage \in {"boot", "tail"} => pc = "idle"
  /\ stage = "boot" => NoneActive /\ current_terminal = SplashVt

LEMMA DeactivatedFocus ==
  ASSUME TypeOK, Focus
  PROVE  \A v \in VT : Deactivated[v] # "active"
BY DEF TypeOK, Focus, OnlyCurrentActive, Deactivated

LEMMA ShowVtFocus ==
  ASSUME TypeOK, stage' \notin {"boot"}, NEW v \in VT,
         NEW table \in [VT -> {"null", "inactive", "active"}],
         \A w \in VT : table[w] # "active", ShowVt(v, table)
  PROVE  Focus'
BY VtFacts DEF TypeOK, Focus, OnlyCurrentActive, NoneActive, ShowVt, Return

LEMMA FinishFocus ==
  ASSUME TypeOK, Focus, stage \notin {"boot"}, stage' = stage, Finish
  PROVE  Focus'
<1>1. CASE target = NoVt
  BY <1>1 DEF Finish, Return, Focus, OnlyCurrentActive, NoneActive, termVars
<1>2. CASE target # NoVt
  BY <1>2, ShowVtFocus DEF TypeOK, Finish, Focus, NoneActive
<1> QED
  BY <1>1, <1>2

LEMMA BackgroundFocus ==
  ASSUME TypeOK, target = NoVt, stage' \notin {"boot", "tail"}, NEW v \in VT,
         NEW table \in [VT -> {"null", "inactive", "active"}],
         \A w \in VT : table[w] = "active" => w = v,
         TermBackground(table, v), current_terminal' = v
  PROVE  Focus'
BY DEF TypeOK, Focus, OnlyCurrentActive, NoneActive, TermBackground, Return

LEMMA SwitchFocus ==
  ASSUME TypeOK, Focus, pc = "idle", stage' \notin {"boot", "tail"}, NEW v \in Nat,
         SwitchTo(v)
  PROVE  Focus'
<1>1. CASE /\ v = current_terminal /\ Exists(v)
           /\ terminals' = [terminals EXCEPT ![v] = "active"]
           /\ Return
           /\ UNCHANGED <<current_terminal, vt_links, current_link, in_background,
                          master, inbox, reply>>
  BY <1>1 DEF TypeOK, Focus, OnlyCurrentActive, NoneActive, Return
<1>2. CASE Return /\ UNCHANGED <<termVars, in_background, master, inbox, reply>>
  BY <1>2 DEF Focus, OnlyCurrentActive, NoneActive, Return, termVars
<1>3. CASE /\ v = SplashVt
           /\ current_terminal' = v /\ current_link' = LinkTo(v)
           /\ TermBackground(Deactivated, v) /\ UNCHANGED vt_links
  BY <1>3, BackgroundFocus, DeactivatedFocus, DeactivatedType, VtFacts DEF Focus
<1>4. CASE /\ v \in VT /\ ShowVt(v, Deactivated)
           /\ UNCHANGED <<in_background, master, inbox, reply>>
  BY <1>4, ShowVtFocus, DeactivatedFocus, DeactivatedType
<1>5. CASE /\ v \in VT /\ in_background' = FALSE
           /\ terminals' = Deactivated /\ target' = v
           /\ IF dbus THEN pc' = "release" /\ retry' = MaxRetry /\ Send("Release")
                      ELSE pc' = "setmaster" /\ UNCHANGED <<retry, inbox, reply>>
           /\ UNCHANGED <<current_terminal, vt_links, current_link, master>>
  BY <1>5, DeactivatedFocus DEF Focus, OnlyCurrentActive, NoneActive
<1> QED
  BY <1>1, <1>2, <1>3, <1>4, <1>5 DEF SwitchTo

LEMMA DestroyFocus ==
  ASSUME TypeOK, Focus, stage' \notin {"boot"}, pc' = pc, target' = target,
         stage' = "tail" => pc = "idle", DestroySplashTerm
  PROVE  Focus'
BY VtFacts DEF TypeOK, Focus, OnlyCurrentActive, NoneActive, DestroySplashTerm, termVars

LEMMA NextFocus == TypeOK /\ Focus /\ [Next]_vars => Focus'
<1> SUFFICES ASSUME TypeOK, Focus, [Next]_vars PROVE Focus'
  OBVIOUS
<1>x. UNCHANGED <<terminals, current_terminal, pc, target, stage>> => Focus'
  BY DEF Focus, OnlyCurrentActive, NoneActive
<1>1. CASE SplashFirstFrame
  BY <1>1, VtFacts
     DEF SplashFirstFrame, callVars, TypeOK, Focus, OnlyCurrentActive, NoneActive
<1>2. CASE SplashSkipped
  BY <1>2 DEF SplashSkipped, callVars, Focus, OnlyCurrentActive, NoneActive
<1>3. CASE SplashDone
  <2>1. CASE UNCHANGED <<terminals, current_terminal>>
    BY <1>3, <2>1 DEF SplashDone, Stop, callVars, Focus, OnlyCurrentActive, NoneActive
  <2>2. CASE stage' = "tail" /\ DestroySplashTerm
    BY <1>3, <2>2, DestroyFocus DEF SplashDone, callVars
  <2> QED
    BY <1>3, <2>1, <2>2 DEF SplashDone, termVars
<1>4. CASE MainTail
  <2>1. pc = "idle" /\ target = NoVt /\ stage' \notin {"boot", "tail"}
    BY <1>4 DEF MainTail, Stop, Focus
  <2>2. CASE UNCHANGED <<terminals, current_terminal, pc, target>>
    BY <2>1, <2>2 DEF Focus, OnlyCurrentActive, NoneActive
  <2>3. CASE SwitchTo(SplashVt) \/ SwitchTo(1)
    BY <2>1, <2>3, SwitchFocus, VtFacts
  <2>4. CASE /\ TermBackground(terminals, current_terminal)
             /\ UNCHANGED <<current_terminal, vt_links, current_link>>
    BY <2>1, <2>4, BackgroundFocus DEF TypeOK, Focus, OnlyCurrentActive
  <2> QED
    BY <1>4, <2>2, <2>3, <2>4 DEF MainTail, termVars, callVars
<1>5. ASSUME NEW v \in VT, KeySwitch(v) PROVE Focus'
  BY <1>5, SwitchFocus, VtFacts DEF KeySwitch, Running
<1>6. ASSUME NEW v \in VT \cup {NumVts}, OscSwitch(v) PROVE Focus'
  BY <1>6, SwitchFocus, VtFacts DEF OscSwitch, Running
<1>7. CASE OscDropMaster
  BY <1>7, BackgroundFocus DEF OscDropMaster, Running, TypeOK, Focus, OnlyCurrentActive
<1>8. CASE HotplugEvent \/ LidSwitch \/ SuspendDone
  BY <1>8 DEF HotplugEvent, LidSwitch, SuspendDone, MonitorHotplug, Running, termVars,
              Focus, OnlyCurrentActive, NoneActive
<1>9. CASE DbusConnect
  BY <1>9, <1>x DEF DbusConnect, termVars, callVars
<1>10. CASE LoginPromptVisible
  <2>1. CASE UNCHANGED <<terminals, current_terminal>>
    BY <1>10, <2>1 DEF LoginPromptVisible, Running, Stop, callVars, Focus,
                       OnlyCurrentActive, NoneActive
  <2>2. CASE stage' = stage /\ DestroySplashTerm
    BY <1>10, <2>2, DestroyFocus DEF LoginPromptVisible, Running, callVars
  <2> QED
    BY <1>10, <2>1, <2>2 DEF LoginPromptVisible, termVars
<1>11. CASE RestartChild
  BY <1>11 DEF RestartChild, Running, Stop, callVars, TypeOK, Focus, OnlyCurrentActive,
               NoneActive
<1>12. CASE PtyException
  BY <1>12 DEF PtyException, Running, Stop, callVars, Focus, OnlyCurrentActive, NoneActive
<1>13. CASE ReleaseGranted \/ ReleaseFailed
  BY <1>13 DEF ReleaseGranted, ReleaseFailed, termVars, Focus, OnlyCurrentActive, NoneActive
<1>14. CASE SetMaster
  <2>1. CASE hotplug_occured
    BY <1>14, <2>1 DEF SetMaster, termVars, Focus, OnlyCurrentActive, NoneActive
  <2>2. CASE ~hotplug_occured
    BY <1>14, <2>2, FinishFocus DEF SetMaster, Focus
  <2> QED
    BY <2>1, <2>2
<1>15. CASE RescanDrop
  BY <1>15 DEF RescanDrop, termVars, Focus, OnlyCurrentActive, NoneActive
<1>16. CASE Scan
  <2>1. CASE pc' = "regain" /\ UNCHANGED <<target, termVars>>
    BY <1>16, <2>1 DEF Scan, termVars, Focus, OnlyCurrentActive, NoneActive
  <2>2. CASE Finish
    BY <1>16, <2>2, FinishFocus DEF Scan, Focus
  <2> QED
    BY <1>16, <2>1, <2>2 DEF Scan
<1>17. CASE Regain
  BY <1>17, FinishFocus DEF Regain, Focus
<1>18. CASE TakeDone
  BY <1>18 DEF TakeDone, Return, termVars, Focus, OnlyCurrentActive, NoneActive
<1>19. CASE Environment
  BY <1>19, <1>x DEF Environment, ChromeStart, ChromeCrash, ChromeConfigure, ChromeServe,
                     MonitorChange, freconVars, termVars, callVars
<1>20. CASE UNCHANGED vars
  BY <1>20, <1>x DEF vars, termVars, callVars
<1> QED
  BY <1>1, <1>2, <1>3, <1>4, <1>5, <1>6, <1>7, <1>8, <1>9, <1>10, <1>11, <1>12, <1>13,
     <1>14, <1>15, <1>16, <1>17, <1>18, <1>19, <1>20 DEF Next, Startup, Handlers, Continue

\* However switches, restarts and hand-overs interleave, no terminal but the
\* current one takes key presses.
THEOREM ActiveIsCurrent == Spec => []OnlyCurrentActive
<1>1. Init => Focus
  BY VtFacts DEF Init, Focus, OnlyCurrentActive, NoneActive
<1>2. Focus => OnlyCurrentActive
  BY DEF Focus
<1> QED
  BY <1>1, <1>2, NextFocus, TypeCorrect, PTL DEF Spec

-----------------------------------------------------------------------------
(* Who holds the display.  A handler that is under way has already brought *)
(* frecon to the foreground, and a master frecon has a device to drop it   *)
(* on: without the second fact drm_dropmaster could do nothing.            *)

Mode ==
  /\ BackgroundYieldsMaster
  /\ pc \notin {"idle", "take"} => ~in_background
  /\ master = "frecon" => g_drm # NoMonitor

LEMMA BackgroundMode ==
  ASSUME TypeOK, Mode, g_drm' = g_drm, NEW table, NEW v, pc = "idle",
         TermBackground(table, v)
  PROVE  Mode'
BY DEF Mode, BackgroundYieldsMaster, TermBackground, DropMaster, Return

LEMMA SwitchMode ==
  ASSUME TypeOK, Mode, g_drm' = g_drm, pc = "idle", NEW v \in Nat, SwitchTo(v)
  PROVE  Mode'
<1>1. CASE TermBackground(Deactivated, v)
  BY <1>1, BackgroundMode
<1>2. CASE Return /\ UNCHANGED <<in_background, master>>
  BY <1>2 DEF Mode, BackgroundYieldsMaster, Return
<1>3. CASE in_background' = FALSE /\ UNCHANGED master
  BY <1>3 DEF Mode, BackgroundYieldsMaster
<1> QED
  BY <1>1, <1>2, <1>3 DEF SwitchTo, ShowVt

LEMMA FinishCall == ASSUME Finish PROVE pc' = "idle"
BY DEF Finish, Return, ShowVt

LEMMA NextMode == TypeOK /\ Focus /\ Mode /\ [Next]_vars => Mode'
<1> SUFFICES ASSUME TypeOK, Focus, Mode, [Next]_vars PROVE Mode'
  OBVIOUS
<1> USE DEF Mode, BackgroundYieldsMaster
<1>1. CASE SplashFirstFrame \/ SplashSkipped \/ DbusConnect
  BY <1>1 DEF SplashFirstFrame, SplashSkipped, DbusConnect, modeVars, callVars
<1>2. CASE SplashDone \/ LoginPromptVisible \/ RestartChild \/ PtyException
  BY <1>2 DEF SplashDone, LoginPromptVisible, RestartChild, PtyException, Stop, modeVars,
              callVars
<1>3. CASE MainTail
  <2>1. pc = "idle" /\ g_drm' = g_drm
    BY <1>3 DEF MainTail, Focus
  <2>2. CASE Stop(NoVt) /\ UNCHANGED <<in_background, callVars>>
    BY <2>1, <2>2 DEF Stop, callVars
  <2>3. CASE SwitchTo(SplashVt) \/ SwitchTo(1)
    BY <2>1, <2>3, SwitchMode, VtFacts
  <2>4. CASE TermBackground(terminals, current_terminal)
    BY <2>1, <2>4, BackgroundMode
  <2>5. CASE UNCHANGED <<in_background, master, callVars>>
    BY <2>1, <2>5 DEF callVars
  <2> QED
    BY <1>3, <2>2, <2>3, <2>4, <2>5 DEF MainTail
<1>4. ASSUME NEW v \in VT, KeySwitch(v) PROVE Mode'
  BY <1>4, SwitchMode, VtFacts DEF KeySwitch, Running
<1>5. ASSUME NEW v \in VT \cup {NumVts}, OscSwitch(v) PROVE Mode'
  BY <1>5, SwitchMode, VtFacts DEF OscSwitch, Running
<1>6. CASE OscDropMaster
  BY <1>6, BackgroundMode DEF OscDropMaster, Running
<1>7. CASE HotplugEvent \/ LidSwitch \/ SuspendDone
  BY <1>7 DEF HotplugEvent, LidSwitch, SuspendDone, MonitorHotplug, Running
<1>8. CASE ReleaseGranted \/ ReleaseFailed
  BY <1>8 DEF ReleaseGranted, ReleaseFailed, modeVars
<1>9. CASE SetMaster
  BY <1>9, FinishCall DEF SetMaster, TakeMaster
<1>10. CASE RescanDrop
  BY <1>10 DEF RescanDrop, DropMaster, modeVars
<1>11. CASE Scan
  BY <1>11, FinishCall DEF Scan, modeVars
<1>12. CASE Regain
  BY <1>12, FinishCall DEF Regain, TakeMaster, modeVars
<1>13. CASE TakeDone
  BY <1>13 DEF TakeDone, Return, modeVars
<1>14. CASE Environment
  BY <1>14 DEF Environment, ChromeStart, ChromeCrash, ChromeConfigure, ChromeServe,
               MonitorChange, freconVars, modeVars, callVars
<1>15. CASE UNCHANGED vars
  BY <1>15 DEF vars, modeVars, callVars
<1> QED
  BY <1>1, <1>2, <1>3, <1>4, <1>5, <1>6, <1>7, <1>8, <1>9, <1>10, <1>11, <1>12, <1>13,
     <1>14, <1>15 DEF Next, Startup, Handlers, Continue

\* From the moment term_background has dropped master until term_foreground
\* is called, nothing frecon does - a hotplug, a resume, a restart of a
\* child, a switch - takes the display from Chrome.
THEOREM BackgroundNotMaster == Spec => []BackgroundYieldsMaster
<1>1. Init => Mode
  BY DEF Init, Mode, BackgroundYieldsMaster
<1>2. Init => Focus
  BY VtFacts DEF Init, Focus, OnlyCurrentActive, NoneActive
<1>3. Mode => BackgroundYieldsMaster
  BY DEF Mode
<1> QED
  BY <1>1, <1>2, <1>3, NextFocus, NextMode, TypeCorrect, PTL DEF Spec

-----------------------------------------------------------------------------
(* Monitor changes.                                                        *)

LEMMA BackgroundHotplug ==
  ASSUME HotplugKept, pc = "idle", UNCHANGED <<hotplug_occured, g_drm, connected, uevent>>,
         NEW table, NEW v, TermBackground(table, v)
  PROVE  HotplugKept'
BY DEF HotplugKept, HotplugTracked, HotplugPending, TermBackground

LEMMA SwitchHotplug ==
  ASSUME HotplugKept, pc = "idle", UNCHANGED <<hotplug_occured, g_drm, connected, uevent>>,
         NEW v, SwitchTo(v)
  PROVE  HotplugKept'
<1>1. CASE TermBackground(Deactivated, v)
  BY <1>1, BackgroundHotplug
<1>2. CASE Return /\ UNCHANGED in_background
  BY <1>2 DEF HotplugKept, HotplugTracked, HotplugPending, Return
<1>3. CASE pc' \in {"release", "setmaster"}
  BY <1>3 DEF HotplugKept, HotplugTracked, HotplugPending
<1> QED
  BY <1>1, <1>2, <1>3 DEF SwitchTo, ShowVt

LEMMA NextHotplug == TypeOK /\ Focus /\ HotplugKept /\ [Next]_vars => HotplugKept'
<1> SUFFICES ASSUME TypeOK, Focus, HotplugKept, [Next]_vars PROVE HotplugKept'
  OBVIOUS
<1> USE DEF HotplugKept, HotplugTracked, HotplugPending
<1>1. CASE SplashFirstFrame \/ SplashSkipped \/ DbusConnect \/ SplashDone
           \/ LoginPromptVisible \/ RestartChild \/ PtyException
  BY <1>1 DEF SplashFirstFrame, SplashSkipped, DbusConnect, SplashDone,
              LoginPromptVisible, RestartChild, PtyException, modeVars, callVars
<1>2. CASE MainTail
  <2>1. pc = "idle" /\ UNCHANGED <<hotplug_occured, g_drm, connected, uevent>>
    BY <1>2 DEF MainTail, Focus
  <2>2. CASE UNCHANGED <<in_background, callVars>>
    BY <2>1, <2>2 DEF callVars
  <2>3. CASE SwitchTo(SplashVt) \/ SwitchTo(1)
    BY <2>1, <2>3, SwitchHotplug
  <2>4. CASE TermBackground(terminals, current_terminal)
    BY <2>1, <2>4, BackgroundHotplug
  <2> QED
    BY <1>2, <2>2, <2>3, <2>4 DEF MainTail
<1>3. ASSUME NEW v \in VT, KeySwitch(v) PROVE HotplugKept'
  BY <1>3, SwitchHotplug DEF KeySwitch, Running
<1>4. ASSUME NEW v \in VT \cup {NumVts}, OscSwitch(v) PROVE HotplugKept'
  BY <1>4, SwitchHotplug DEF OscSwitch, Running
<1>5. CASE OscDropMaster
  BY <1>5, BackgroundHotplug DEF OscDropMaster, Running
<1>6. CASE HotplugEvent \/ LidSwitch \/ SuspendDone
  BY <1>6 DEF HotplugEvent, LidSwitch, SuspendDone, MonitorHotplug, Running
<1>7. CASE ReleaseGranted \/ ReleaseFailed
  BY <1>7 DEF ReleaseGranted, ReleaseFailed, modeVars
<1>8. CASE SetMaster
  BY <1>8 DEF SetMaster
<1>9. CASE RescanDrop
  BY <1>9 DEF RescanDrop, modeVars
<1>10. CASE Scan
  BY <1>10 DEF Scan, modeVars
<1>11. CASE Regain
  BY <1>11 DEF Regain, modeVars
<1>12. CASE TakeDone
  BY <1>12 DEF TakeDone, Return, modeVars
<1>13. CASE Environment
  BY <1>13 DEF Environment, ChromeStart, ChromeCrash, ChromeConfigure, ChromeServe,
               MonitorChange, freconVars, modeVars, callVars
<1>14. CASE UNCHANGED vars
  BY <1>14 DEF vars, modeVars, callVars
<1> QED
  BY <1>1, <1>2, <1>3, <1>4, <1>5, <1>6, <1>7, <1>8, <1>9, <1>10, <1>11, <1>12, <1>13,
     <1>14 DEF Next, Startup, Handlers, Continue

\* A monitor that changes while frecon is in the background, switching, or
\* in the middle of a rescan is looked at again sooner or later: some record
\* of the change exists until g_drm agrees with it.
THEOREM HotplugNeverLost == Spec => []HotplugKept
<1>1. Init => HotplugKept /\ Focus
  BY VtFacts DEF Init, HotplugKept, HotplugTracked, HotplugPending, Focus, OnlyCurrentActive,
                 NoneActive
<1> QED
  BY <1>1, NextFocus, NextHotplug, TypeCorrect, PTL DEF Spec

-----------------------------------------------------------------------------
(* The links in /run/frecon.                                               *)

LEMMA ShowVtLinks ==
  ASSUME TypeOK, NEW v \in VT, NEW table \in [VT -> {"null", "inactive", "active"}],
         \A w \in vt_links : table[w] # "null", ShowVt(v, table)
  PROVE  LinksSound'
BY DEF TypeOK, LinksSound, ShowVt, LinkTo

LEMMA FinishLinks == ASSUME TypeOK, LinksSound, Finish PROVE LinksSound'
<1>1. CASE target = NoVt
  BY <1>1 DEF Finish, LinksSound, termVars
<1>2. CASE target # NoVt
  BY <1>2, ShowVtLinks DEF TypeOK, Finish, LinksSound
<1> QED
  BY <1>1, <1>2

LEMMA DeactivatedLinks ==
  ASSUME TypeOK, LinksSound PROVE \A w \in vt_links : Deactivated[w] # "null"
BY DEF TypeOK, LinksSound, Deactivated

LEMMA BackgroundLinks ==
  ASSUME TypeOK, NEW v \in VT, NEW table \in [VT -> {"null", "inactive", "active"}],
         \A w \in vt_links : table[w] # "null", vt_links' = vt_links,
         current_link' \in {current_terminal', NoVt}, TermBackground(table, v)
  PROVE  LinksSound'
BY DEF TypeOK, LinksSound, TermBackground

LEMMA SwitchLinks ==
  ASSUME TypeOK, LinksSound, NEW v \in Nat, SwitchTo(v)
  PROVE  LinksSound'
<1>1. CASE /\ v = current_terminal /\ Exists(v)
           /\ terminals' = [terminals EXCEPT ![v] = "active"]
           /\ UNCHANGED <<current_terminal, vt_links, current_link>>
  BY <1>1 DEF TypeOK, LinksSound
<1>2. CASE UNCHANGED termVars
  BY <1>2 DEF LinksSound, termVars
<1>3. CASE /\ v = SplashVt
           /\ current_terminal' = v /\ current_link' = LinkTo(v)
           /\ TermBackground(Deactivated, v) /\ UNCHANGED vt_links
  BY <1>3, BackgroundLinks, DeactivatedLinks, DeactivatedType, VtFacts DEF LinkTo
<1>4. CASE v \in VT /\ ShowVt(v, Deactivated)
  BY <1>4, ShowVtLinks, DeactivatedLinks, DeactivatedType
<1>5. CASE /\ terminals' = Deactivated
           /\ UNCHANGED <<current_terminal, vt_links, current_link>>
  BY <1>5, DeactivatedLinks DEF LinksSound
<1> QED
  BY <1>1, <1>2, <1>3, <1>4, <1>5 DEF SwitchTo

LEMMA DestroyLinks ==
  ASSUME TypeOK, LinksSound, DestroySplashTerm
  PROVE  LinksSound'
BY VtFacts DEF TypeOK, LinksSound, DestroySplashTerm, Exists, termVars

LEMMA NextLinks == TypeOK /\ Focus /\ LinksSound /\ [Next]_vars => LinksSound'
<1> SUFFICES ASSUME TypeOK, Focus, LinksSound, [Next]_vars PROVE LinksSound'
  OBVIOUS
<1>x. UNCHANGED termVars => LinksSound'
  BY DEF LinksSound, termVars
<1>y. Stop(current_link) /\ UNCHANGED <<terminals, current_terminal, vt_links>> => LinksSound'
  BY DEF Stop, LinksSound
<1>z. Stop(NoVt) /\ UNCHANGED <<terminals, current_terminal, vt_links>> => LinksSound'
  BY DEF Stop, LinksSound
<1>1. CASE SplashFirstFrame
  BY <1>1, VtFacts DEF SplashFirstFrame, TypeOK, LinksSound, LinkTo
<1>2. CASE SplashSkipped
  BY <1>2, VtFacts DEF SplashSkipped, Focus, LinksSound, LinkTo
<1>3. CASE SplashDone
  BY <1>3, <1>x, <1>y, DestroyLinks DEF SplashDone
<1>4. CASE MainTail
  <2>1. CASE SwitchTo(SplashVt) \/ SwitchTo(1)
    BY <2>1, SwitchLinks, VtFacts
  <2>2. CASE /\ TermBackground(terminals, current_terminal)
             /\ UNCHANGED <<current_terminal, vt_links, current_link>>
    BY <2>2, BackgroundLinks DEF TypeOK, LinksSound
  <2> QED
    BY <1>4, <1>x, <1>z, <2>1, <2>2 DEF MainTail
<1>5. ASSUME NEW v \in VT, KeySwitch(v) PROVE LinksSound'
  BY <1>5, SwitchLinks, VtFacts DEF KeySwitch
<1>6. ASSUME NEW v \in VT \cup {NumVts}, OscSwitch(v) PROVE LinksSound'
  BY <1>6, SwitchLinks, VtFacts DEF OscSwitch
<1>7. CASE OscDropMaster
  BY <1>7, BackgroundLinks DEF OscDropMaster, TypeOK, LinksSound
<1>8. CASE HotplugEvent \/ LidSwitch \/ SuspendDone \/ DbusConnect
  BY <1>8, <1>x DEF HotplugEvent, LidSwitch, SuspendDone, MonitorHotplug, DbusConnect
<1>9. CASE LoginPromptVisible
  BY <1>9, <1>x, <1>y, DestroyLinks DEF LoginPromptVisible
<1>10. CASE RestartChild
  BY <1>10 DEF RestartChild, Stop, TypeOK, LinksSound
<1>11. CASE PtyException
  BY <1>11, <1>z DEF PtyException
<1>12. CASE ReleaseGranted \/ ReleaseFailed \/ RescanDrop \/ TakeDone
  BY <1>12, <1>x DEF ReleaseGranted, ReleaseFailed, RescanDrop, TakeDone
<1>13. CASE SetMaster \/ Scan \/ Regain
  BY <1>13, <1>x, FinishLinks DEF SetMaster, Scan, Regain
<1>14. CASE Environment
  BY <1>14, <1>x DEF Environment, ChromeStart, ChromeCrash, ChromeConfigure, ChromeServe,
                     MonitorChange, freconVars
<1>15. CASE UNCHANGED vars
  BY <1>15, <1>x DEF vars
<1> QED
  BY <1>1, <1>2, <1>3, <1>4, <1>5, <1>6, <1>7, <1>8, <1>9, <1>10, <1>11, <1>12, <1>13,
     <1>14, <1>15 DEF Next, Startup, Handlers, Continue

\* A script that writes through /run/frecon reaches a terminal that exists,
\* and through "current" no other than the current one.
THEOREM LinksNeverDangle == Spec => []LinksSound
<1>1. Init => LinksSound /\ Focus
  BY VtFacts DEF Init, LinksSound, Focus, OnlyCurrentActive, NoneActive
<1> QED
  BY <1>1, NextFocus, NextLinks, TypeCorrect, PTL DEF Spec

-----------------------------------------------------------------------------
(* The calls Chrome has not served.                                        *)

Calls ==
  /\ LastCallMatchesMode
  /\ ~dbus => inbox = <<>>
  /\ chrome = "down" => inbox = <<>>
  /\ pc = "release" => dbus

LEMMA SendLast ==
  ASSUME TypeOK, Calls, NEW request \in {"Take", "Release"}, Send(request)
  PROVE  \/ inbox' = <<>>
         \/ inbox' # <<>> /\ inbox'[Len(inbox')] = request /\ chrome = "up"
BY DEF TypeOK, Calls, Send

LEMMA BackgroundCalls ==
  ASSUME TypeOK, Calls, UNCHANGED <<dbus, chrome>>, NEW table, NEW v, TermBackground(table, v)
  PROVE  Calls'
<1>1. CASE in_background
  BY <1>1 DEF Calls, LastCallMatchesMode, TermBackground, Return
<1>2. CASE ~in_background /\ dbus
  <2>1. Send("Take") /\ in_background' = TRUE /\ pc' = "take"
    BY <1>2 DEF TermBackground
  <2> QED
    BY <1>2, <2>1, SendLast DEF TypeOK, Calls, LastCallMatchesMode
<1>3. CASE ~dbus
  BY <1>3 DEF Calls, LastCallMatchesMode, TermBackground, Return
<1> QED
  BY <1>1, <1>2, <1>3

LEMMA SwitchCalls ==
  ASSUME TypeOK, Calls, UNCHANGED <<dbus, chrome>>, NEW v \in Nat, SwitchTo(v)
  PROVE  Calls'
<1>1. CASE TermBackground(Deactivated, v)
  BY <1>1, BackgroundCalls
<1>2. CASE Return /\ UNCHANGED <<in_background, inbox>>
  BY <1>2 DEF Calls, LastCallMatchesMode, Return
<1>3. CASE /\ in_background' = FALSE
           /\ dbus /\ Send("Release")
  BY <1>3, SendLast DEF TypeOK, Calls, LastCallMatchesMode
<1>4. CASE /\ in_background' = FALSE
           /\ ~dbus /\ pc' = "setmaster" /\ UNCHANGED inbox
  BY <1>4 DEF Calls, LastCallMatchesMode
<1> QED
  BY <1>1, <1>2, <1>3, <1>4 DEF SwitchTo, ShowVt

LEMMA ServeLast ==
  ASSUME TypeOK, inbox # <<>>, Tail(inbox) # <<>>
  PROVE  Tail(inbox)[Len(Tail(inbox))] = inbox[Len(inbox)]
BY DEF TypeOK

LEMMA NextCalls == TypeOK /\ Focus /\ Mode /\ Calls /\ [Next]_vars => Calls'
<1> SUFFICES ASSUME TypeOK, Focus, Mode, Calls, [Next]_vars PROVE Calls'
  OBVIOUS
<1>x. UNCHANGED <<in_background, dbus, chrome, inbox>> /\ pc' \in {pc, "idle", "rescan"}
      => Calls'
  BY DEF Calls, LastCallMatchesMode
<1>1. CASE SplashFirstFrame \/ SplashDone \/ HotplugEvent \/ LidSwitch \/ SuspendDone
           \/ LoginPromptVisible \/ RestartChild \/ PtyException
  BY <1>1, <1>x DEF SplashFirstFrame, SplashDone, HotplugEvent, LidSwitch, SuspendDone,
                    MonitorHotplug, LoginPromptVisible, RestartChild, PtyException,
                    modeVars, busVars, callVars, chromeVars
<1>2. CASE SplashSkipped \/ DbusConnect
  BY <1>2 DEF SplashSkipped, DbusConnect, modeVars, callVars, chromeVars, Calls,
              LastCallMatchesMode
<1>3. CASE MainTail
  <2>1. UNCHANGED <<dbus, chrome>>
    BY <1>3 DEF MainTail, busVars
  <2>2. CASE UNCHANGED <<in_background, inbox>> /\ UNCHANGED callVars
    BY <2>1, <2>2, <1>x DEF callVars
  <2>3. CASE SwitchTo(SplashVt) \/ SwitchTo(1)
    BY <2>1, <2>3, SwitchCalls, VtFacts
  <2>4. CASE TermBackground(terminals, current_terminal)
    BY <2>1, <2>4, BackgroundCalls
  <2> QED
    BY <1>3, <2>2, <2>3, <2>4 DEF MainTail
<1>4. ASSUME NEW v \in VT, KeySwitch(v) PROVE Calls'
  BY <1>4, SwitchCalls, VtFacts DEF KeySwitch, busVars
<1>5. ASSUME NEW v \in VT \cup {NumVts}, OscSwitch(v) PROVE Calls'
  BY <1>5, SwitchCalls, VtFacts DEF OscSwitch, busVars
<1>6. CASE OscDropMaster
  BY <1>6, BackgroundCalls DEF OscDropMaster, busVars
<1>7. CASE ReleaseGranted \/ RescanDrop \/ TakeDone \/ SetMaster \/ Scan \/ Regain
  BY <1>7, FinishCall DEF ReleaseGranted, RescanDrop, TakeDone, SetMaster, Scan, Regain,
                    Return, modeVars, busVars, chromeVars, Calls, LastCallMatchesMode
<1>8. CASE ReleaseFailed
  <2>1. /\ in_background' = in_background /\ ~in_background /\ dbus
        /\ UNCHANGED <<dbus, chrome>>
    BY <1>8 DEF ReleaseFailed, Mode, Calls, modeVars, busVars
  <2>2. CASE UNCHANGED inbox
    BY <2>1, <2>2 DEF Calls, LastCallMatchesMode
  <2>3. CASE Send("Release")
    BY <2>1, <2>3, SendLast DEF TypeOK, Calls, LastCallMatchesMode
  <2> QED
    BY <1>8, <2>2, <2>3 DEF ReleaseFailed
<1>9. CASE ChromeServe
  BY <1>9, ServeLast DEF ChromeServe, freconVars, modeVars, busVars, callVars, Calls,
                         LastCallMatchesMode, TypeOK
<1>10. CASE ChromeCrash
  BY <1>10 DEF ChromeCrash, freconVars, busVars, callVars, Calls,
                        LastCallMatchesMode
<1>11. CASE ChromeStart
  BY <1>11 DEF ChromeStart, freconVars, modeVars, busVars, callVars, Calls,
                        LastCallMatchesMode
<1>12. CASE ChromeConfigure \/ MonitorChange
  BY <1>12, <1>x DEF ChromeConfigure, MonitorChange, freconVars, modeVars, busVars,
                     callVars, chromeVars
<1>13. CASE UNCHANGED vars
  BY <1>13, <1>x DEF vars, modeVars, busVars, callVars, chromeVars
<1> QED
  BY <1>1, <1>2, <1>3, <1>4, <1>5, <1>6, <1>7, <1>8, <1>9, <1>10, <1>11, <1>12, <1>13
     DEF Next, Startup, Handlers, Continue, Environment

\* Timed-out calls stay with Chrome and are served late, but the last one is
\* always the one that fits what the user asked for last.
THEOREM LastCallFits == Spec => []LastCallMatchesMode
<1>1. Init => Calls /\ Focus /\ Mode
  BY VtFacts DEF Init, Calls, LastCallMatchesMode, Focus, OnlyCurrentActive, NoneActive,
                 Mode, BackgroundYieldsMaster
<1>2. Calls => LastCallMatchesMode
  BY DEF Calls
<1> QED
  BY <1>1, <1>2, NextFocus, NextMode, NextCalls, TypeCorrect, PTL DEF Spec

-----------------------------------------------------------------------------
(* The refinement.                                                         *)

HandoffStep == [Handoff!Next]_Handoff!vars

LEMMA BackgroundStep ==
  ASSUME TypeOK, Mode, NEW table, NEW v, TermBackground(table, v)
  PROVE  HandoffStep
BY DEF TypeOK, Mode, BackgroundYieldsMaster, TermBackground, DropMaster, HandoffStep,
       Handoff!Next, Handoff!StepBack, Handoff!vars

LEMMA SwitchStep ==
  ASSUME TypeOK, Mode, NEW v, SwitchTo(v)
  PROVE  HandoffStep
<1>1. CASE TermBackground(Deactivated, v)
  BY <1>1, BackgroundStep
<1>2. CASE UNCHANGED <<in_background, master>>
  BY <1>2 DEF HandoffStep, Handoff!vars
<1>3. CASE in_background /\ in_background' = FALSE /\ UNCHANGED master
  BY <1>3 DEF HandoffStep, Handoff!Next, Handoff!StepForward
<1> QED
  BY <1>1, <1>2, <1>3 DEF SwitchTo

LEMMA MasterStep ==
  ASSUME TypeOK, UNCHANGED in_background,
         \/ UNCHANGED master
         \/ ~in_background /\ master = "none" /\ master' = "frecon"
         \/ master = "frecon" /\ master' = "none"
         \/ master = "none" /\ master' = "chrome"
         \/ master = "chrome" /\ master' = "none"
  PROVE  HandoffStep
BY DEF HandoffStep, Handoff!Next, Handoff!FreconTakes, Handoff!FreconYields,
       Handoff!ChromeTakes, Handoff!ChromeYields, Handoff!vars

LEMMA NextStep == TypeOK /\ Focus /\ Mode /\ [Next]_vars => HandoffStep
<1> SUFFICES ASSUME TypeOK, Focus, Mode, [Next]_vars PROVE HandoffStep
  OBVIOUS
<1>x. UNCHANGED <<in_background, master>> => HandoffStep
  BY MasterStep
<1>1. CASE SplashFirstFrame \/ SplashSkipped \/ DbusConnect \/ HotplugEvent \/ LidSwitch
           \/ SuspendDone \/ ReleaseGranted \/ ReleaseFailed \/ TakeDone
  BY <1>1, <1>x DEF SplashFirstFrame, SplashSkipped, DbusConnect, HotplugEvent, LidSwitch,
                    SuspendDone, MonitorHotplug, ReleaseGranted, ReleaseFailed, TakeDone,
                    modeVars
<1>2. CASE SplashDone \/ LoginPromptVisible \/ RestartChild \/ PtyException
  BY <1>2, MasterStep DEF SplashDone, LoginPromptVisible, RestartChild, PtyException, Stop,
                          modeVars
<1>3. CASE MainTail
  <2>1. CASE UNCHANGED in_background /\ Stop(NoVt)
    BY <2>1, MasterStep DEF Stop
  <2>2. CASE SwitchTo(SplashVt) \/ SwitchTo(1)
    BY <2>2, SwitchStep
  <2>3. CASE TermBackground(terminals, current_terminal)
    BY <2>3, BackgroundStep
  <2> QED
    BY <1>3, <1>x, <2>1, <2>2, <2>3 DEF MainTail
<1>4. ASSUME NEW v, KeySwitch(v) PROVE HandoffStep
  BY <1>4, SwitchStep DEF KeySwitch
<1>5. ASSUME NEW v, OscSwitch(v) PROVE HandoffStep
  BY <1>5, SwitchStep DEF OscSwitch
<1>6. CASE OscDropMaster
  BY <1>6, BackgroundStep DEF OscDropMaster
<1>7. CASE SetMaster
  BY <1>7, MasterStep DEF SetMaster, TakeMaster, Mode
<1>8. CASE RescanDrop
  BY <1>8, MasterStep DEF RescanDrop, DropMaster, modeVars
<1>9. CASE Scan
  BY <1>9, MasterStep DEF Scan, Mode, modeVars
<1>10. CASE Regain
  BY <1>10, MasterStep DEF Regain, TakeMaster, Mode, modeVars
<1>11. CASE Environment
  BY <1>11, MasterStep DEF Environment, ChromeStart, ChromeCrash, ChromeConfigure,
                           ChromeServe, MonitorChange, freconVars, modeVars, TypeOK
<1>12. CASE UNCHANGED vars
  BY <1>12, <1>x DEF vars, modeVars
<1> QED
  BY <1>1, <1>2, <1>3, <1>4, <1>5, <1>6, <1>7, <1>8, <1>9, <1>10, <1>11, <1>12
     DEF Next, Startup, Handlers, Continue

\* The event loop, with every retry, timeout, crash and hotplug, implements
\* the abstract hand-over.
THEOREM HandoffImplemented == Spec => ImplementsHandoff
<1>1. Init => Handoff!Init /\ Focus /\ Mode
  BY VtFacts DEF Init, Handoff!Init, Focus, OnlyCurrentActive, NoneActive, Mode,
                 BackgroundYieldsMaster
<1>2. HandoffStep => [Handoff!Next]_Handoff!vars
  BY DEF HandoffStep
<1> QED
  BY <1>1, <1>2, NextFocus, NextMode, NextStep, TypeCorrect, PTL
     DEF Spec, ImplementsHandoff, Handoff!Spec
=============================================================================
