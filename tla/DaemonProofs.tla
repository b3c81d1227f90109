----------------------------- MODULE DaemonProofs -----------------------------
(***************************************************************************)
(* Three results for any number of VTs, of exits and of keys: what the     *)
(* parent of the daemon hears is true; a terminal object is used after it  *)
(* was closed in the two known situations and no other; and the table      *)
(* holds open terminals, of which no more are ever made than there are VTs *)
(* and exits.  The second follows the two pointers that outlive a call,    *)
(* the one splash_run reads before its frames and the one                  *)
(* main_process_events reads after select, past every step that closes a   *)
(* terminal.  The third counts the VTs that may still get a terminal.      *)
(***************************************************************************)
EXTENDS Daemon, FiniteSetTheorems, SequenceTheorems, TLAPS

-----------------------------------------------------------------------------
(* The report.                                                             *)

\* Who told what to whom.
Reported ==
  /\ told => Flag("daemon") /\ Flag("pre_create_vts") /\ PreCreated \subseteq attempted
  /\ parent = "success" /\ Flag("pre_create_vts") => told
  /\ parent = "failure" => pc = "ended" /\ ~told

\* A step that is not about the report, of a program that has not ended.
LEMMA SaysNothing ==
  ASSUME Reported, UNCHANGED <<command_flags, parent, told, attempted>>,
         pc = "ended" => pc' = "ended"
  PROVE  Reported'
BY DEF Reported, PreCreated, Flag

LEMMA ReportedInit == Init => Reported
BY DEF Init, Reported

LEMMA ReportedNext == Reported /\ [Next]_vars => Reported'
<1> SUFFICES ASSUME Reported, [Next]_vars PROVE Reported'
  OBVIOUS
<1>1. CASE UNCHANGED vars
  BY <1>1, SaysNothing DEF vars
<1>2. CASE Daemonize
  BY <1>2 DEF Daemonize, Reported, PreCreated, Flag
<1>3. CASE SplashInit
  BY <1>3 DEF SplashInit, Reported, PreCreated, Flag
<1>4. CASE PreCreate
  <2>1. /\ UNCHANGED <<command_flags, parent, told>> /\ pc = "create" /\ pc' = "create"
        /\ attempted \subseteq attempted'
    BY <1>4 DEF PreCreate
  <2> QED
    BY <2>1 DEF Reported, PreCreated, Flag
<1>5. CASE Report
  BY <1>5 DEF Report, Reported, PreCreated, Flag, Remaining
<1>6. CASE ParentReads
  <2>1. UNCHANGED <<command_flags, told, attempted, pc>> /\ parent = "waiting"
    BY <1>6 DEF ParentReads, loopState
  <2>2. CASE told /\ parent' = "success"
    BY <2>1, <2>2 DEF Reported, PreCreated, Flag
  <2>3. CASE ~told /\ ~ReportExpected /\ parent' = "failure"
    BY <2>1, <2>3 DEF Reported, PreCreated, Flag, ReportExpected, Running
  <2> QED
    BY <1>6, <2>2, <2>3 DEF ParentReads
<1>7. CASE InitDevices \/ Splash
  BY <1>7, SaysNothing DEF InitDevices, Splash, SplashRun, SplashFrame, SplashEnds,
                           LeaveInteractive, LeaveSplash
<1>8. CASE Loop
  BY <1>8, SaysNothing DEF Loop, Top, SelectTimesOut, Select, DbusDispatch, InputDispatch,
                           Dispatch, RestartCheck, mainVars
<1>9. CASE Exit \/ Killed
  BY <1>9, SaysNothing DEF Exit, Killed, Gone
<1>10. CASE SignalLogin \/ KeyPressed
            \/ \E i \in Ids : ChildTalks(i) \/ ChildExits(i) \/ HangUp(i) \/ ChildGone(i)
  BY <1>10, SaysNothing DEF SignalLogin, KeyPressed, ChildTalks, ChildExits, HangUp, ChildGone,
                            loopState
<1> QED
  BY <1>1, <1>2, <1>3, <1>4, <1>5, <1>6, <1>7, <1>8, <1>9, <1>10 DEF Next, Frecon, Start

\* The parent reports success only when every console it waits for has been
\* tried, and failure only when nobody can report any more (daemonize,
\* daemon_exit_code).
THEOREM ParentToldTruth == Spec => []ParentTold
<1>1. Reported => ParentTold
  BY DEF Reported, ParentTold, Running
<1> QED
  BY ReportedInit, ReportedNext, <1>1, PTL DEF Spec
-----------------------------------------------------------------------------
(* The terminals.                                                          *)

TermType ==
  [vt : VT, open : BOOLEAN, shared : BOOLEAN,
   child : {"running", "exiting", "zombie", "reaped"}, edge : BOOLEAN,
   inherits : SUBSET Nat, pipe : BOOLEAN]

\* What may happen to one terminal while it stays open.
LEMMA TermChanges ==
  ASSUME NEW t \in TermType
  PROVE  /\ Noticed(t) \in TermType /\ Noticed(t).vt = t.vt /\ Noticed(t).open = t.open
         /\ Unnoticed(t) \in TermType /\ Unnoticed(t).vt = t.vt /\ Unnoticed(t).open = t.open
BY DEF TermType, Noticed, Unnoticed

LEMMA TermShut ==
  ASSUME NEW t \in TermType
  PROVE  Shut(t) \in TermType /\ Shut(t).vt = t.vt
<1>1. Unnoticed(t) \in TermType /\ Unnoticed(t).vt = t.vt
  BY TermChanges
<1> DEFINE u == Unnoticed(t)
<1> HIDE DEF u
<1>2. u \in TermType => [u EXCEPT !.open = FALSE] \in TermType /\ [u EXCEPT !.open = FALSE].vt = u.vt
  BY DEF TermType
<1> QED
  BY <1>1, <1>2 DEF u, Shut

\* Every terminal of s is in t, and is open there if it was, but for one.
Keeps(s, t, i) ==
  /\ t \in Seq(TermType) /\ Len(t) >= Len(s)
  /\ \A j \in 1 .. Len(s) : t[j].vt = s[j].vt /\ (s[j].open /\ j # i => t[j].open)

LEMMA KeepsSelf == ASSUME NEW s \in Seq(TermType), NEW i PROVE Keeps(s, s, i)
BY DEF Keeps

LEMMA KeepsTwice ==
  ASSUME NEW s \in Seq(TermType), NEW t, NEW u, NEW i, Keeps(s, t, Null), Keeps(t, u, i)
  PROVE  Keeps(s, u, i)
<1>1. \A j \in 1 .. Len(s) : j \in 1 .. Len(t) /\ j # Null
  BY DEF Keeps, Null
<1> QED
  BY <1>1 DEF Keeps

LEMMA KeepsAppend ==
  ASSUME NEW s \in Seq(TermType), NEW t \in TermType
  PROVE  /\ Keeps(s, Append(s, t), Null)
         /\ Len(Append(s, t)) = Len(s) + 1 /\ Append(s, t)[Len(s) + 1] = t
BY AppendProperties DEF Keeps

LEMMA KeepsChanged ==
  ASSUME NEW s \in Seq(TermType), NEW i \in 1 .. Len(s), NEW e \in TermType, e.vt = s[i].vt
  PROVE  /\ Keeps(s, [s EXCEPT ![i] = e], i)
         /\ s[i].open = e.open => Keeps(s, [s EXCEPT ![i] = e], Null)
         /\ Len([s EXCEPT ![i] = e]) = Len(s)
BY ExceptSeq DEF Keeps

LEMMA ClosedKeeps ==
  ASSUME NEW s \in Seq(TermType), NEW i \in (1 .. Len(s)) \cup {Null}
  PROVE  Keeps(s, Closed(s, i), i) /\ Len(Closed(s, i)) = Len(s)
<1>1. CASE i = Null
  BY <1>1, KeepsSelf DEF Closed
<1>2. CASE i # Null
  <2>1. i \in 1 .. Len(s) /\ s[i] \in TermType
    BY <1>2
  <2>2. Shut(s[i]) \in TermType /\ Shut(s[i]).vt = s[i].vt
    BY <2>1, TermShut
  <2> QED
    BY <1>2, <2>1, <2>2, KeepsChanged DEF Closed
<1> QED
  BY <1>1, <1>2

LEMMA WithChildKeeps ==
  ASSUME terms \in Seq(TermType), NEW i \in Ids,
         NEW state \in {"running", "exiting", "zombie", "reaped"}
  PROVE  Keeps(terms, WithChild(i, state), Null) /\ Len(WithChild(i, state)) = Len(terms)
<1> DEFINE t == terms[i]
           e == [t EXCEPT !.child = state]
<1>1. t \in TermType
  BY DEF Ids
<1>2. e \in TermType /\ e.vt = t.vt /\ t.open = e.open
  BY <1>1 DEF TermType
<1>3. WithChild(i, state) = [terms EXCEPT ![i] = e]
  BY DEF WithChild
<1>4. i \in 1 .. Len(terms)
  BY DEF Ids
<1> HIDE DEF e
<1>5. e.vt = terms[i].vt /\ terms[i].open = e.open
  BY <1>2
<1>6. /\ terms[i].open = e.open => Keeps(terms, [terms EXCEPT ![i] = e], Null)
      /\ Len([terms EXCEPT ![i] = e]) = Len(terms)
  BY <1>2, <1>4, <1>5, KeepsChanged
<1> QED
  BY ONLY <1>3, <1>5, <1>6

\* All terminals change, and stay open or close together.
LEMMA KeepsMapped ==
  ASSUME NEW s \in Seq(TermType), NEW t, t = [i \in 1 .. Len(s) |-> t[i]],
         \A i \in 1 .. Len(s) : t[i] \in TermType /\ t[i].vt = s[i].vt
  PROVE  /\ t \in Seq(TermType) /\ Len(t) = Len(s)
         /\ (\A i \in 1 .. Len(s) : t[i].open = s[i].open) => Keeps(s, t, Null)
<1>1. t \in Seq(TermType) /\ Len(t) = Len(s)
  OBVIOUS
<1> QED
  BY <1>1 DEF Keeps
-----------------------------------------------------------------------------
(* The invariant.                                                          *)

Types ==
  /\ terms \in Seq(TermType)
  /\ terminals \in [VT -> Nat] /\ current_terminal \in VT
  /\ held \in [splash : Nat, round : Nat]

\* The table holds open terminals under their own VT.
Table ==
  \A v \in VT : terminals[v] # Null =>
    terminals[v] \in Ids /\ terms[terminals[v]].vt = v /\ terms[terminals[v]].open

\* The pointer of the round, until the handlers of the bus run.
RoundHeld ==
  pc = "dbus" => held.round = Null \/ (held.round \in Ids /\ terms[held.round].open)

\* The pointer of splash_run: a terminal of VT 0 that only a restart with
\* --enable-vt1 closes.
SplashHeld ==
  /\ held.splash \in Ids
  /\ ~Flag("enable_vt1") => terms[held.splash].vt = SplashVt /\ terms[held.splash].open

InRound == {"frame", "select", "dbus", "input", "dispatch", "restart"}

Pointers == RoundHeld /\ (round = "splash" /\ pc \in InRound => SplashHeld)

\* The login prompt is heard in the rounds of main_loop only, and a frecon that is
\* no daemon has no splash object by then.
Phases ==
  /\ pc \in {"daemonize", "init", "splash_init"} => misused = {}
  /\ pc \notin InRound \cup {"top", "exit", "ended"} => round = "splash"
  /\ round \in {"splash", "main"}
  /\ (pc = "top" => round = "main") /\ (pc = "frame" => round = "splash")
  /\ round = "splash" => bus # "up"
  /\ round = "main" /\ ~Flag("daemon") => ~splash

IInv == Types /\ Table /\ Pointers /\ Phases /\ UseAfterClose

LEMMA VtType == SplashVt \in VT /\ (1 \in VT => 1 \in Nat) /\ VT \subseteq Nat
BY NumVtsAssumption DEF VT, SplashVt

\* A new terminal is open and of its VT.
LEMMA NewTermType ==
  ASSUME NEW v \in VT, terms \in Seq(TermType)
  PROVE  NewTerm(v) \in TermType /\ NewTerm(v).vt = v /\ NewTerm(v).open = TRUE
<1>1. Inherits(v) \in SUBSET Nat
  BY DEF Inherits, Ids
<1>2. (pc = "splash_init") \in BOOLEAN /\ PipeOpen \in BOOLEAN
  BY Zenon DEF PipeOpen
<1> QED
  BY <1>1, <1>2 DEF NewTerm, TermType

\* The table when terminals were made or changed, but the one it may hold.
LEMMA TableKept ==
  ASSUME Types, Table, NEW i, Keeps(terms, terms', i), UNCHANGED terminals,
         \A v \in VT : terminals[v] # i \/ i = Null
  PROVE  Table'
<1> SUFFICES ASSUME NEW v \in VT, terminals[v] # Null
             PROVE  /\ terminals[v] \in 1 .. Len(terms') /\ terms'[terminals[v]].vt = v
                    /\ terms'[terminals[v]].open
  BY DEF Table, Ids
<1>1. terminals[v] \in 1 .. Len(terms) /\ terms[terminals[v]].vt = v /\ terms[terminals[v]].open
  BY DEF Table, Ids
<1>2. terminals[v] # i
  BY DEF Null
<1> QED
  BY <1>1, <1>2 DEF Keeps, Types

LEMMA CreateInOK ==
  ASSUME Types, Table, NEW v \in VT, CreateIn(v)
  PROVE  Keeps(terms, terms', Null) /\ terminals' \in [VT -> Nat] /\ Table'
<1>1. CASE terms' = Append(terms, NewTerm(v)) /\ terminals' = [terminals EXCEPT ![v] = Len(terms) + 1]
  <2>1. NewTerm(v) \in TermType /\ NewTerm(v).vt = v /\ NewTerm(v).open = TRUE
    BY NewTermType DEF Types
  <2> DEFINE n == Len(terms)
  <2>2. /\ Keeps(terms, terms', Null)
        /\ Len(terms') = n + 1 /\ terms'[n + 1] = NewTerm(v) /\ n \in Nat
    BY <1>1, <2>1, KeepsAppend DEF Types
  <2>3. /\ terminals' \in [VT -> Nat]
        /\ \A w \in VT : terminals'[w] = IF w = v THEN n + 1 ELSE terminals[w]
    BY <1>1, <2>2 DEF Types
  <2> HIDE DEF n
  <2>4. ASSUME NEW w \in VT, terminals'[w] # Null
        PROVE  /\ terminals'[w] \in 1 .. Len(terms') /\ terms'[terminals'[w]].vt = w
               /\ terms'[terminals'[w]].open
    <3>1. CASE w = v
      BY <2>1, <2>2, <2>3, <3>1
    <3>2. CASE w # v
      <4>1. /\ terminals'[w] \in 1 .. Len(terms) /\ terms[terminals'[w]].vt = w
            /\ terms[terminals'[w]].open
        BY <2>3, <2>4, <3>2 DEF Table, Ids
      <4>2. terminals'[w] # Null
        BY <2>4
      <4> QED
        BY <2>2, <4>1, <4>2 DEF Keeps, Types
    <3> QED
      BY <3>1, <3>2
  <2> QED
    BY <2>2, <2>3, <2>4 DEF Table, Ids
<1>2. CASE terminals' = [terminals EXCEPT ![v] = Null] /\ UNCHANGED terms
  <2>1. /\ terminals' \in [VT -> Nat]
        /\ \A w \in VT : terminals'[w] = IF w = v THEN Null ELSE terminals[w]
    BY <1>2 DEF Types, Null
  <2>2. Keeps(terms, terms', Null)
    BY <1>2, KeepsSelf DEF Types
  <2> QED
    BY <1>2, <2>1, <2>2 DEF Table, Ids
<1> QED
  BY <1>1, <1>2 DEF CreateIn

\* No step of term_switch_to closes a terminal.
LEMMA SwitchToOK ==
  ASSUME Types, Table, NEW v, SwitchTo(v)
  PROVE  /\ Keeps(terms, terms', Null) /\ terminals' \in [VT -> Nat] /\ Table'
         /\ current_terminal' \in VT
<1>1. CASE UNCHANGED <<terms, terminals>>
  <2>1. Keeps(terms, terms', Null)
    BY <1>1, KeepsSelf DEF Types
  <2> QED
    BY <1>1, <2>1 DEF SwitchTo, Types, Table, Ids
<1>2. CASE v \in VT /\ CreateIn(v) /\ current_terminal' = v
  BY <1>2, CreateInOK
<1> QED
  BY <1>1, <1>2 DEF SwitchTo

\* term_destroy_splash_term closes what the table has under VT 0, and takes it
\* from there.
LEMMA DestroyOK ==
  ASSUME Types, Table, DestroySplashTerm
  PROVE  /\ Keeps(terms, terms', IF Flag("enable_vt1") THEN Null ELSE terminals[SplashVt])
         /\ terminals' \in [VT -> Nat] /\ Table'
<1>1. CASE Flag("enable_vt1")
  <2>1. UNCHANGED <<terms, terminals>>
    BY <1>1 DEF DestroySplashTerm
  <2>2. Keeps(terms, terms', Null)
    BY <2>1, KeepsSelf DEF Types
  <2> QED
    BY <1>1, <2>1, <2>2 DEF Types, Table, Ids
<1>2. CASE ~Flag("enable_vt1")
  <2> DEFINE i == terminals[SplashVt]
  <2>1. /\ terminals' = [terminals EXCEPT ![SplashVt] = Null]
        /\ terms' = Closed(terms, i)
    BY <1>2 DEF DestroySplashTerm
  <2>2. i \in (1 .. Len(terms)) \cup {Null}
    BY VtType DEF Table, Ids
  <2> HIDE DEF i
  <2>3. Keeps(terms, terms', i)
    BY <2>1, <2>2, ClosedKeeps DEF Types
  <2>4. /\ terminals' \in [VT -> Nat]
        /\ \A w \in VT : terminals'[w] = IF w = SplashVt THEN Null ELSE terminals[w]
    BY <2>1, VtType DEF Types, Null
  <2>5. ASSUME NEW w \in VT, terminals'[w] # Null
        PROVE  /\ terminals'[w] \in 1 .. Len(terms') /\ terms'[terminals'[w]].vt = w
               /\ terms'[terminals'[w]].open
    <3>1. /\ terminals'[w] = terminals[w] /\ w # SplashVt
          /\ terminals[w] \in 1 .. Len(terms) /\ terms[terminals[w]].vt = w
          /\ terms[terminals[w]].open
      BY <2>4, <2>5 DEF Table, Ids
    <3>2. terminals[w] # i
      BY <3>1, VtType DEF Table, i, Null
    <3> QED
      BY <2>3, <3>1, <3>2 DEF Keeps, Types
  <2> QED
    BY <1>2, <2>3, <2>4, <2>5 DEF Table, Ids, i
<1> QED
  BY <1>1, <1>2

\* What splash_run holds, through a step that closes another terminal.
LEMMA SplashHeldKept ==
  ASSUME SplashHeld, NEW i, Keeps(terms, terms', i), terms \in Seq(TermType),
         held'.splash = held.splash, UNCHANGED command_flags,
         ~Flag("enable_vt1") => held.splash # i \/ i = Null
  PROVE  SplashHeld'
BY DEF SplashHeld, Keeps, Ids, Flag, Null

LEMMA InitOK == Init => IInv
<1> SUFFICES ASSUME Init PROVE IInv
  OBVIOUS
<1>1. /\ pc = "daemonize" /\ round = "splash" /\ terms = <<>>
      /\ terminals = [v \in VT |-> Null] /\ current_terminal = SplashVt
      /\ held = NoPointers /\ splash = FALSE /\ bus = "down" /\ misused = {}
  BY DEF Init
<1>2. Types
  <2>1. held \in [splash : Nat, round : Nat]
    BY <1>1 DEF NoPointers, Null
  <2> QED
    BY <1>1, <2>1, VtType DEF Types, Null
<1>3. Table /\ Pointers /\ Phases /\ UseAfterClose
  BY <1>1 DEF Table, Pointers, RoundHeld, InRound, Phases, UseAfterClose
<1> QED
  BY <1>2, <1>3 DEF IInv
-----------------------------------------------------------------------------
(* The steps.                                                              *)

\* Steps that change no table, no pointer and no more of a terminal than its
\* child and its event.
LEMMA QuietStep ==
  ASSUME IInv, Phases', Keeps(terms, terms', Null),
         UNCHANGED <<command_flags, terminals, current_terminal, held, splash, misused, round>>,
         pc' = "dbus" => pc = "dbus",
         round = "splash" /\ pc' \in InRound => pc \in InRound
  PROVE  IInv'
<1>0. Types /\ Table /\ Pointers /\ UseAfterClose
  BY DEF IInv
<1>1. Types'
  BY <1>0 DEF Types, Keeps
<1>2. Table'
  BY <1>0, TableKept
<1>3. RoundHeld'
  BY <1>0 DEF Pointers, RoundHeld, Keeps, Ids, Types, Null
<1>4. SplashHeld => SplashHeld'
  BY <1>0, SplashHeldKept DEF Types
<1>5. Pointers'
  BY <1>0, <1>3, <1>4 DEF Pointers
<1>6. UseAfterClose'
  BY <1>0 DEF UseAfterClose, Flag
<1> QED
  BY <1>1, <1>2, <1>5, <1>6 DEF IInv

LEMMA SameTerms == ASSUME IInv, UNCHANGED terms PROVE Keeps(terms, terms', Null)
BY KeepsSelf DEF IInv, Types

LEMMA StillQuiet == ASSUME IInv, UNCHANGED vars PROVE IInv'
<1>1. UNCHANGED <<command_flags, terms, terminals, current_terminal, held, splash, misused,
                  round, pc, bus>>
  BY DEF vars, loopVars
<1>2. Phases'
  BY <1>1 DEF IInv, Phases, Flag
<1> QED
  BY <1>1, <1>2, SameTerms, QuietStep

LEMMA StartQuiet == ASSUME IInv, Daemonize \/ InitDevices \/ Report PROVE IInv'
<1>1. /\ UNCHANGED <<command_flags, terms, terminals, current_terminal, held, splash, misused,
                     round, bus>>
      /\ pc \in {"daemonize", "init", "create"}
      /\ pc' \in {"init", "splash_init", "splash_run", "exit"}
      /\ pc' # "splash_run" => pc # "create"
  BY DEF Daemonize, InitDevices, Report, loopVars
<1>2. Phases'
  BY <1>1 DEF IInv, Phases, Flag, InRound
<1> QED
  BY <1>1, <1>2, SameTerms, QuietStep DEF InRound

LEMMA LoopQuiet == ASSUME IInv, Top \/ SelectTimesOut PROVE IInv'
<1>1. /\ UNCHANGED <<command_flags, terms, terminals, current_terminal, held, splash, misused,
                     round>>
      /\ \/ pc = "top" /\ pc' = "select" /\ bus' \in {bus, "up"}
         \/ pc = "select" /\ pc' = Back /\ bus' = bus
  BY DEF Top, SelectTimesOut, mainVars, roundVars
<1>2. Phases'
  BY <1>1 DEF IInv, Phases, Flag, InRound, Back
<1>3. pc' # "dbus" /\ (round = "splash" /\ pc' \in InRound => pc \in InRound)
  BY <1>1 DEF IInv, Phases, InRound, Back
<1> QED
  BY <1>1, <1>2, <1>3, SameTerms, QuietStep

LEMMA DispatchStep == ASSUME IInv, Dispatch PROVE IInv'
<1>1. /\ UNCHANGED <<command_flags, terminals, current_terminal, held, splash, misused, round, bus>>
      /\ pc = "dispatch" /\ pc' = "restart"
      /\ terms' = [i \in Ids |-> IF i \in ready \cap Dispatched THEN Unnoticed(terms[i])
                                 ELSE terms[i]]
  BY DEF Dispatch, mainVars, roundVars
<1>2. Keeps(terms, terms', Null)
  <2>1. terms \in Seq(TermType) /\ Ids = 1 .. Len(terms)
    BY DEF IInv, Types, Ids
  <2>2. \A i \in Ids : terms[i] \in TermType
    BY <2>1
  <2>3. \A i \in Ids : /\ Unnoticed(terms[i]) \in TermType /\ Unnoticed(terms[i]).vt = terms[i].vt
                       /\ Unnoticed(terms[i]).open = terms[i].open
    BY <2>2, TermChanges
  <2>4. \A i \in Ids : /\ terms'[i] \in TermType /\ terms'[i].vt = terms[i].vt
                       /\ terms'[i].open = terms[i].open
    BY <1>1, <2>2, <2>3
  <2>5. terms' = [i \in 1 .. Len(terms) |-> terms'[i]]
    BY <1>1, <2>1
  <2> QED
    BY <2>1, <2>4, <2>5, KeepsMapped
<1>3. Phases'
  BY <1>1 DEF IInv, Phases, Flag, InRound
<1> QED
  BY <1>1, <1>2, <1>3, QuietStep DEF InRound

\* The steps of the children, of the parent, of the user and of the bus.
LEMMA OthersStep ==
  ASSUME IInv, \/ ParentReads \/ SignalLogin \/ KeyPressed
               \/ \E i \in Ids : ChildTalks(i) \/ ChildExits(i) \/ HangUp(i) \/ ChildGone(i)
  PROVE  IInv'
<1>1. UNCHANGED <<command_flags, terminals, current_terminal, held, splash, misused, round, bus, pc>>
  BY DEF ParentReads, SignalLogin, KeyPressed, ChildTalks, ChildExits, HangUp, ChildGone, loopState
<1>2. terms \in Seq(TermType)
  BY DEF IInv, Types
<1>3. ASSUME NEW i \in Ids, ChildTalks(i) PROVE Keeps(terms, terms', Null)
  <2>1. i \in 1 .. Len(terms) /\ terms[i] \in TermType
    BY <1>2 DEF Ids
  <2>2. /\ Noticed(terms[i]) \in TermType /\ Noticed(terms[i]).vt = terms[i].vt
        /\ terms[i].open = Noticed(terms[i]).open
    BY <2>1, TermChanges
  <2>3. terms' = [terms EXCEPT ![i] = Noticed(terms[i])]
    BY <1>3 DEF ChildTalks
  <2> QED
    BY <1>2, <2>1, <2>2, <2>3, KeepsChanged
<1>4. ASSUME NEW i \in Ids, ChildExits(i) PROVE Keeps(terms, terms', Null)
  <2> DEFINE s == WithChild(i, "exiting")
  <2>1. Keeps(terms, s, Null) /\ Len(s) = Len(terms)
    BY <1>2, WithChildKeeps
  <2>2. terms' = [s EXCEPT ![i] = Noticed(s[i])]
    BY <1>4 DEF ChildExits
  <2> HIDE DEF s
  <2>3. s \in Seq(TermType) /\ i \in 1 .. Len(s) /\ s[i] \in TermType
    BY <2>1 DEF Keeps, Ids
  <2>4. /\ Noticed(s[i]) \in TermType /\ Noticed(s[i]).vt = s[i].vt
        /\ s[i].open = Noticed(s[i]).open
    BY <2>3, TermChanges
  <2>5. Keeps(s, terms', Null)
    BY <2>2, <2>3, <2>4, KeepsChanged
  <2> QED
    BY <1>2, <2>1, <2>5, KeepsTwice
<1>5. ASSUME NEW i \in Ids, HangUp(i) \/ ChildGone(i) PROVE Keeps(terms, terms', Null)
  BY <1>2, <1>5, WithChildKeeps DEF HangUp, ChildGone
<1>6. ASSUME ParentReads \/ SignalLogin \/ KeyPressed PROVE Keeps(terms, terms', Null)
  BY <1>6, SameTerms DEF ParentReads, SignalLogin, KeyPressed
<1>7. Keeps(terms, terms', Null)
  BY <1>3, <1>4, <1>5, <1>6
<1>8. Phases'
  BY <1>1 DEF IInv, Phases, Flag
<1> QED
  BY <1>1, <1>7, <1>8, QuietStep

\* splash_init: the first terminal, before anything was misused.
LEMMA SplashInitStep == ASSUME IInv, SplashInit PROVE IInv'
<1>0. Types /\ Table /\ Phases /\ SplashVt \in VT
  BY VtType DEF IInv
<1>1. /\ pc = "splash_init" /\ pc' = "create" /\ CreateIn(SplashVt)
      /\ UNCHANGED <<command_flags, current_terminal, held, misused, round, bus>>
  BY DEF SplashInit
<1>2. Keeps(terms, terms', Null) /\ terminals' \in [VT -> Nat] /\ Table'
  BY <1>0, <1>1, CreateInOK
<1>3. Types'
  BY <1>0, <1>1, <1>2 DEF Types, Keeps
<1>4. misused = {} /\ round = "splash" /\ bus # "up"
  BY <1>0, <1>1 DEF Phases, InRound
<1>5. Pointers' /\ Phases' /\ UseAfterClose'
  BY <1>1, <1>4 DEF Pointers, RoundHeld, Phases, InRound, UseAfterClose
<1> QED
  BY <1>2, <1>3, <1>5 DEF IInv

\* The table may have changed, but no terminal was closed that a pointer is to.
LEMMA MovedStep ==
  ASSUME IInv, Phases', Table', terminals' \in [VT -> Nat], current_terminal' \in VT,
         NEW i, Keeps(terms, terms', i), pc' # "dbus",
         held' \in [splash : Nat, round : Nat], held'.splash = held.splash,
         UNCHANGED <<command_flags, round, splash, misused>>,
         round = "splash" /\ pc' \in InRound =>
           /\ pc \in InRound
           /\ ~Flag("enable_vt1") => held.splash # i \/ i = Null
  PROVE  IInv'
<1>0. Types /\ Pointers /\ UseAfterClose
  BY DEF IInv
<1>1. Types'
  BY <1>0 DEF Types, Keeps
<1>2. SplashHeld /\ (~Flag("enable_vt1") => held.splash # i \/ i = Null) => SplashHeld'
  BY <1>0, SplashHeldKept DEF Types
<1>3. Pointers'
  BY <1>0, <1>2 DEF Pointers, RoundHeld
<1>4. UseAfterClose'
  BY <1>0 DEF UseAfterClose, Flag
<1> QED
  BY <1>1, <1>3, <1>4 DEF IInv

LEMMA PreCreateStep == ASSUME IInv, PreCreate PROVE IInv'
<1>0. Types /\ Table /\ Phases
  BY DEF IInv
<1>1. /\ pc = "create" /\ pc' = "create"
      /\ UNCHANGED <<command_flags, current_terminal, held, misused, round, bus, splash>>
  BY DEF PreCreate, loopVars
<1>2. PICK v \in Remaining : IF terminals[v] = Null THEN CreateIn(v) ELSE UNCHANGED <<terms, terminals>>
  BY DEF PreCreate
<1>3. v \in VT
  BY NumVtsAssumption DEF Remaining, PreCreated, VT, SplashVt
<1>4. Keeps(terms, terms', Null) /\ terminals' \in [VT -> Nat] /\ Table'
  <2>1. CASE CreateIn(v)
    BY <1>0, <1>3, <2>1, CreateInOK
  <2>2. CASE UNCHANGED <<terms, terminals>>
    BY <1>0, <2>2, SameTerms DEF Types, Table, Ids
  <2> QED
    BY <1>2, <2>1, <2>2
<1>5. Phases'
  BY <1>0, <1>1 DEF Phases, InRound, Flag
<1>6. current_terminal' \in VT /\ held' \in [splash : Nat, round : Nat]
  BY <1>0, <1>1 DEF Types
<1> QED
  BY <1>1, <1>4, <1>5, <1>6, MovedStep DEF InRound

\* splash_run reads its pointer from the table.
LEMMA SplashRunStep == ASSUME IInv, SplashRun PROVE IInv'
<1>0. Types /\ Table /\ Phases /\ UseAfterClose
  BY DEF IInv
<1>1. /\ pc = "splash_run" /\ UNCHANGED <<command_flags, terms, terminals, misused, round, splash, bus>>
      /\ \/ pc' \in {"leave_splash", "exit"} /\ UNCHANGED <<held, current_terminal>>
         \/ /\ terminals[SplashVt] # Null /\ current_terminal' = SplashVt /\ pc' = "frame"
            /\ held' = [held EXCEPT !.splash = terminals[SplashVt]]
  BY DEF SplashRun
<1>2. Phases' /\ UseAfterClose'
  BY <1>0, <1>1 DEF Phases, InRound, Flag, UseAfterClose
<1>3. Types' /\ Table'
  BY <1>0, <1>1, VtType DEF Types, Table, Ids
<1>4. Pointers'
  <2>1. CASE pc' \in {"leave_splash", "exit"}
    BY <2>1 DEF Pointers, RoundHeld, InRound
  <2>2. CASE pc' = "frame" /\ terminals[SplashVt] # Null /\ held' = [held EXCEPT !.splash = terminals[SplashVt]]
    <3>1. held'.splash = terminals[SplashVt]
      BY <1>0, <2>2 DEF Types
    <3>2. /\ terminals[SplashVt] \in Ids /\ terms[terminals[SplashVt]].vt = SplashVt
          /\ terms[terminals[SplashVt]].open
      BY <1>0, <2>2, VtType DEF Table
    <3>3. SplashHeld'
      BY <1>1, <3>1, <3>2 DEF SplashHeld, Ids
    <3> QED
      BY <2>2, <3>3 DEF Pointers, RoundHeld
  <2> QED
    BY <1>1, <2>1, <2>2
<1> QED
  BY <1>2, <1>3, <1>4 DEF IInv

\* A frame is shown on a closed terminal only with --enable-vt1.
LEMMA SplashFrameStep == ASSUME IInv, SplashFrame PROVE IInv'
<1>0. Types /\ Table /\ Phases /\ UseAfterClose /\ Pointers
  BY DEF IInv
<1>1. /\ pc = "frame" /\ pc' = "select" /\ misused' = Misuse(held.splash, "frame")
      /\ UNCHANGED <<command_flags, terms, terminals, current_terminal, held, round, splash>>
      /\ bus' \in {bus, "deaf"}
  BY DEF SplashFrame
<1>2. round = "splash" \/ round = "main"
  BY <1>0 DEF Phases
<1>3. Phases' /\ Types' /\ Table'
  BY <1>0, <1>1 DEF Phases, InRound, Flag, Types, Table, Ids
<1>4. Pointers'
  BY <1>0, <1>1 DEF Pointers, RoundHeld, SplashHeld, InRound, Ids, Flag
<1>5. UseAfterClose'
  <2>1. misused' = misused \/ (misused' = misused \cup {"frame"} /\ ~terms[held.splash].open)
    BY <1>1 DEF Misuse
  <2>2. CASE misused' = misused
    BY <1>0, <1>1, <2>2 DEF UseAfterClose, Flag
  <2>3. CASE misused' = misused \cup {"frame"} /\ ~terms[held.splash].open
    <3>1. Flag("enable_vt1")
      BY <1>0, <1>1, <2>3 DEF Pointers, SplashHeld, InRound, Phases
    <3> QED
      BY <1>0, <1>1, <2>3, <3>1 DEF UseAfterClose, Flag
  <2> QED
    BY <2>1, <2>2, <2>3
<1> QED
  BY <1>3, <1>4, <1>5 DEF IInv

LEMMA SplashEndsStep == ASSUME IInv, SplashEnds PROVE IInv'
<1>0. Types /\ Table /\ Phases /\ UseAfterClose
  BY DEF IInv
<1>1. /\ pc = "frame" /\ pc' \in {"leave_splash", "exit"} /\ held' = NoPointers
      /\ UNCHANGED <<command_flags, terms, terminals, current_terminal, misused, round, splash, bus>>
  BY DEF SplashEnds
<1>2. Phases' /\ UseAfterClose' /\ Table' /\ Pointers'
  BY <1>0, <1>1 DEF Phases, InRound, Flag, UseAfterClose, Table, Ids, Pointers, RoundHeld
<1>3. Types'
  <2>1. NoPointers \in [splash : Nat, round : Nat]
    BY DEF NoPointers, Null
  <2> QED
    BY <1>0, <1>1, <2>1 DEF Types
<1> QED
  BY <1>2, <1>3 DEF IInv

\* Nobody holds the splash terminal any more when main closes it.
LEMMA LeaveInteractiveStep == ASSUME IInv, LeaveInteractive PROVE IInv'
<1>0. Types /\ Table /\ Phases /\ UseAfterClose
  BY DEF IInv
<1>1. /\ pc = "leave_splash" /\ pc' = "leave_splash" /\ DestroySplashTerm /\ splash' = FALSE
      /\ UNCHANGED <<command_flags, current_terminal, misused, round, held, bus>>
  BY DEF LeaveInteractive
<1>2. PICK i : Keeps(terms, terms', i) /\ terminals' \in [VT -> Nat] /\ Table'
  BY <1>0, <1>1, DestroyOK
<1>3. Types' /\ Pointers' /\ Phases' /\ UseAfterClose'
  BY <1>0, <1>1, <1>2 DEF Types, Keeps, Phases, InRound, Flag, UseAfterClose, Pointers, RoundHeld
<1> QED
  BY <1>2, <1>3 DEF IInv

LEMMA LeaveSplashStep == ASSUME IInv, LeaveSplash PROVE IInv'
<1>0. Types /\ Table /\ Phases /\ UseAfterClose
  BY DEF IInv
<1>1. /\ pc = "leave_splash" /\ pc' = "top" /\ round' = "main"
      /\ Flag("daemon") \/ ~splash
      /\ UNCHANGED <<command_flags, misused, held, bus, splash>>
  BY DEF LeaveSplash
<1>2. /\ Keeps(terms, terms', Null) /\ terminals' \in [VT -> Nat] /\ Table'
      /\ current_terminal' \in VT
  <2>1. CASE UNCHANGED <<terms, terminals, current_terminal>>
    BY <1>0, <2>1, SameTerms DEF Types, Table, Ids
  <2>2. CASE SwitchTo(IF Flag("enable_vt1") THEN SplashVt ELSE 1)
    BY <1>0, <2>2, SwitchToOK
  <2> QED
    BY <2>1, <2>2 DEF LeaveSplash
<1>3. Types' /\ Pointers' /\ Phases' /\ UseAfterClose'
  BY <1>0, <1>1, <1>2 DEF Types, Keeps, Phases, InRound, Flag, UseAfterClose, Pointers, RoundHeld
<1> QED
  BY <1>2, <1>3 DEF IInv

\* The round's pointer is to an open terminal when it is read.
LEMMA SelectStep == ASSUME IInv, Select PROVE IInv'
<1>0. Types /\ Table /\ Phases /\ UseAfterClose /\ Pointers
  BY DEF IInv
<1>1. /\ pc = "select" /\ pc' = "dbus" /\ held' = [held EXCEPT !.round = terminals[current_terminal]]
      /\ UNCHANGED <<command_flags, terms, terminals, current_terminal, misused, round, splash, bus>>
  BY DEF Select, mainVars
<1>2. /\ held' \in [splash : Nat, round : Nat] /\ held'.splash = held.splash
      /\ held'.round = terminals[current_terminal]
  BY <1>0, <1>1 DEF Types
<1>3. Types' /\ Table' /\ Phases' /\ UseAfterClose'
  BY <1>0, <1>1, <1>2 DEF Types, Table, Ids, Phases, InRound, Flag, UseAfterClose
<1>4. RoundHeld'
  BY <1>0, <1>1, <1>2 DEF RoundHeld, Types, Table, Ids
<1>5. Pointers'
  BY <1>0, <1>1, <1>2, <1>4 DEF Pointers, SplashHeld, InRound, Ids, Flag
<1> QED
  BY <1>3, <1>5 DEF IInv

\* Whatever the login prompt does it does in a round of main_loop, and only the
\* closing of the splash terminal makes the exception check read a closed one.
LEMMA DbusDispatchStep == ASSUME IInv, DbusDispatch PROVE IInv'
<1>0. Types /\ Table /\ Phases /\ UseAfterClose /\ Pointers
  BY DEF IInv
<1>1. /\ pc = "dbus" /\ LoginPrompt
      /\ UNCHANGED <<command_flags, round, held, current_terminal, bus>>
      /\ \/ misused' = misused
         \/ /\ misused' = misused \cup {"exception"}
            /\ held.round # Null /\ ~terms'[held.round].open
  BY DEF DbusDispatch
<1>2. held.round = Null \/ (held.round \in Ids /\ terms[held.round].open)
  BY <1>0, <1>1 DEF Pointers, RoundHeld
<1>3. CASE UNCHANGED <<terms, terminals, splash>> /\ pc' \in {"input", "exit"}
  <2>1. misused' = misused
    BY <1>1, <1>2, <1>3
  <2>2. Types' /\ Table' /\ Phases' /\ UseAfterClose'
    BY <1>0, <1>1, <1>3, <2>1 DEF Types, Table, Ids, Phases, InRound, Flag, UseAfterClose
  <2>3. Pointers'
    BY <1>0, <1>1, <1>3 DEF Pointers, RoundHeld, SplashHeld, InRound, Ids, Flag
  <2> QED
    BY <2>2, <2>3 DEF IInv
<1>4. CASE /\ bus = "up" /\ splash' = FALSE /\ pc' \in {"input", Broken}
           /\ IF splash THEN DestroySplashTerm ELSE UNCHANGED <<terms, terminals>>
  <2>1. round = "main" /\ pc' \in {"input", "exit"} /\ (Flag("daemon") \/ ~splash)
    BY <1>0, <1>4 DEF Phases, Broken
  <2>2. /\ terms' \in Seq(TermType) /\ terminals' \in [VT -> Nat] /\ Table'
        /\ ~splash \/ Flag("enable_vt1") => Keeps(terms, terms', Null)
    <3>1. CASE splash
      BY <1>0, <1>4, <3>1, DestroyOK DEF Keeps
    <3>2. CASE ~splash
      BY <1>0, <1>4, <3>2, SameTerms DEF Types, Table, Ids
    <3> QED
      BY <3>1, <3>2
  <2>3. Types' /\ Pointers' /\ Phases'
    BY <1>0, <1>1, <1>4, <2>1, <2>2 DEF Types, Phases, InRound, Flag, Pointers, RoundHeld
  <2>4. CASE misused' = misused
    <3>1. UseAfterClose'
      BY <1>0, <1>1, <1>4, <2>4 DEF UseAfterClose, Flag
    <3> QED
      BY <2>2, <2>3, <3>1 DEF IInv
  <2>5. CASE /\ misused' = misused \cup {"exception"}
             /\ held.round # Null /\ ~terms'[held.round].open
    <3>1. held.round \in 1 .. Len(terms) /\ terms[held.round].open
      BY <1>2, <2>5 DEF Ids
    <3>2. ~Keeps(terms, terms', Null)
      BY <2>5, <3>1 DEF Keeps
    <3>3. Flag("daemon") /\ ~Flag("enable_vt1")
      BY <2>1, <2>2, <3>2
    <3>4. UseAfterClose'
      BY <1>0, <1>1, <1>4, <2>5, <3>3 DEF UseAfterClose, Flag
    <3> QED
      BY <2>2, <2>3, <3>4 DEF IInv
  <2> QED
    BY <1>1, <2>4, <2>5
<1> QED
  BY <1>1, <1>3, <1>4 DEF LoginPrompt

LEMMA InputDispatchStep == ASSUME IInv, InputDispatch PROVE IInv'
<1>0. Types /\ Table /\ Phases
  BY DEF IInv
<1>1. /\ pc = "input" /\ pc' = "dispatch"
      /\ UNCHANGED <<command_flags, held, misused, round, bus, splash>>
      /\ \/ \E v \in VT : SwitchTo(v)
         \/ UNCHANGED <<terms, terminals, current_terminal>>
  BY DEF InputDispatch, mainVars, roundVars
<1>2. /\ Keeps(terms, terms', Null) /\ terminals' \in [VT -> Nat] /\ Table'
      /\ current_terminal' \in VT
  <2>1. CASE UNCHANGED <<terms, terminals, current_terminal>>
    BY <1>0, <2>1, SameTerms DEF Types, Table, Ids
  <2>2. CASE \E v \in VT : SwitchTo(v)
    BY <1>0, <2>2, SwitchToOK
  <2> QED
    BY <1>1, <2>1, <2>2
<1>3. Phases' /\ held' \in [splash : Nat, round : Nat]
  BY <1>0, <1>1 DEF Phases, InRound, Flag, Types
<1> QED
  BY <1>1, <1>2, <1>3, MovedStep DEF InRound

\* The terminal a restart closes is not the one splash_run holds, but with
\* --enable-vt1.
LEMMA RestartCheckStep == ASSUME IInv, RestartCheck PROVE IInv'
<1> DEFINE t == terminals[current_terminal]
           reaped == WithChild(t, "reaped")
           made == Append(Closed(reaped, t), NewTerm(current_terminal))
<1>0. Types /\ Table /\ Phases /\ Pointers
  BY DEF IInv
<1>1. /\ pc = "restart" /\ held' = [held EXCEPT !.round = Null]
      /\ UNCHANGED <<command_flags, current_terminal, round, bus, splash>>
      /\ misused' = Misuse(t, "restart")
  BY DEF RestartCheck, mainVars, TerminalNow
<1>2. \/ pc' = Back /\ UNCHANGED <<terms, terminals>>
      \/ /\ t # Null /\ t \in Ids
         /\ \/ terms' = reaped /\ pc' = Back /\ UNCHANGED terminals
            \/ /\ ~(t = terminals[SplashVt] /\ ~Flag("enable_vt1"))
               /\ terminals' = [terminals EXCEPT ![current_terminal] = Len(terms) + 1]
               /\ terms' = made /\ pc' = Back
            \/ /\ terminals' = [terminals EXCEPT ![current_terminal] = Null]
               /\ terms' = reaped /\ pc' = Broken
  BY DEF RestartCheck, TerminalNow
<1>3. t # Null => t \in Ids /\ terms[t].vt = current_terminal /\ terms[t].open
  BY <1>0 DEF Types, Table
<1>4. misused' = misused
  BY <1>1, <1>3 DEF Misuse
<1>5. /\ held' \in [splash : Nat, round : Nat] /\ held'.splash = held.splash
      /\ current_terminal' \in VT /\ terms \in Seq(TermType)
  BY <1>0, <1>1 DEF Types, Null
<1>6. /\ pc' \in {Back, Broken}
      /\ pc' # "dbus" /\ (round = "splash" /\ pc' \in InRound => pc \in InRound)
  BY <1>1, <1>2 DEF Back, Broken, InRound
<1>7. Phases'
  BY <1>0, <1>1, <1>4, <1>6 DEF Phases, InRound, Flag, Back, Broken
<1>8. CASE UNCHANGED <<terms, terminals>>
  <2>1. Keeps(terms, terms', Null) /\ terminals' \in [VT -> Nat] /\ Table'
    BY <1>0, <1>8, SameTerms DEF Types, Table, Ids
  <2> QED
    BY <1>1, <1>4, <1>5, <1>6, <1>7, <2>1, MovedStep
<1>9. ASSUME t # Null PROVE Keeps(terms, reaped, Null) /\ Len(reaped) = Len(terms)
  BY <1>3, <1>5, <1>9, WithChildKeeps
<1>10. CASE t # Null /\ terms' = reaped /\ UNCHANGED terminals
  <2>1. Keeps(terms, terms', Null)
    BY <1>9, <1>10
  <2>2. Table' /\ terminals' \in [VT -> Nat]
    BY <1>0, <1>10, <2>1, TableKept DEF Types
  <2> QED
    BY <1>1, <1>4, <1>5, <1>6, <1>7, <2>1, <2>2, MovedStep
<1>11. CASE /\ t # Null /\ terms' = reaped
            /\ terminals' = [terminals EXCEPT ![current_terminal] = Null]
  <2>1. Keeps(terms, terms', Null)
    BY <1>9, <1>11
  <2>2. /\ terminals' \in [VT -> Nat]
        /\ \A v \in VT : terminals'[v] = IF v = current_terminal THEN Null ELSE terminals[v]
    BY <1>0, <1>11 DEF Types, Null
  <2>3. Table'
    <3> SUFFICES ASSUME NEW v \in VT, terminals'[v] # Null
                 PROVE  /\ terminals'[v] \in 1 .. Len(terms') /\ terms'[terminals'[v]].vt = v
                        /\ terms'[terminals'[v]].open
      BY DEF Table, Ids
    <3>1. /\ terminals'[v] = terminals[v] /\ terminals[v] # Null
          /\ terminals[v] \in 1 .. Len(terms) /\ terms[terminals[v]].vt = v
          /\ terms[terminals[v]].open
      BY <1>0, <2>2 DEF Table, Ids
    <3> QED
      BY <1>5, <2>1, <3>1 DEF Keeps
  <2> QED
    BY <1>1, <1>4, <1>5, <1>6, <1>7, <2>1, <2>2, <2>3, MovedStep
<1>12. CASE /\ t # Null /\ ~(t = terminals[SplashVt] /\ ~Flag("enable_vt1"))
            /\ terminals' = [terminals EXCEPT ![current_terminal] = Len(terms) + 1]
            /\ terms' = made
  <2> DEFINE closed == Closed(reaped, t)
             n == Len(terms)
  <2>1. Keeps(terms, reaped, Null) /\ Len(reaped) = n /\ reaped \in Seq(TermType) /\ t \in 1 .. n
    BY <1>3, <1>9, <1>12 DEF Keeps, Ids
  <2> HIDE DEF reaped
  <2>2. Keeps(reaped, closed, t) /\ Len(closed) = n
    BY <2>1, ClosedKeeps
  <2> HIDE DEF closed
  <2>3. Keeps(terms, closed, t) /\ closed \in Seq(TermType)
    <3>1. Keeps(terms, closed, t)
      BY <1>5, <2>1, <2>2, KeepsTwice
    <3> QED
      BY <3>1 DEF Keeps
  <2>4. /\ NewTerm(current_terminal) \in TermType
        /\ NewTerm(current_terminal).vt = current_terminal
        /\ NewTerm(current_terminal).open = TRUE
    BY <1>0, NewTermType DEF Types
  <2>5. /\ Keeps(closed, terms', Null) /\ Len(terms') = n + 1
        /\ terms'[n + 1] = NewTerm(current_terminal)
    BY <1>12, <2>2, <2>3, <2>4, KeepsAppend DEF closed, reaped
  <2>6. Keeps(terms, terms', t)
    BY <1>5, <2>2, <2>3, <2>5 DEF Keeps, Null
  <2>7. /\ terminals' \in [VT -> Nat] /\ n \in Nat
        /\ \A v \in VT : terminals'[v] = IF v = current_terminal THEN n + 1 ELSE terminals[v]
    BY <1>0, <1>5, <1>12 DEF Types
  <2> HIDE DEF n
  <2>8. Table'
    <3> SUFFICES ASSUME NEW v \in VT, terminals'[v] # Null
                 PROVE  /\ terminals'[v] \in 1 .. Len(terms') /\ terms'[terminals'[v]].vt = v
                        /\ terms'[terminals'[v]].open
      BY DEF Table, Ids
    <3>1. CASE v = current_terminal
      BY <2>4, <2>5, <2>7, <3>1
    <3>2. CASE v # current_terminal
      <4>1. /\ terminals'[v] = terminals[v] /\ terminals[v] # Null
            /\ terminals[v] \in 1 .. Len(terms) /\ terms[terminals[v]].vt = v
            /\ terms[terminals[v]].open
        BY <1>0, <2>7, <3>2 DEF Table, Ids
      <4>2. terminals[v] # t
        BY <1>3, <3>2, <4>1
      <4> QED
        BY <1>5, <2>6, <4>1, <4>2 DEF Keeps
    <3> QED
      BY <3>1, <3>2
  <2>9. round = "splash" /\ ~Flag("enable_vt1") => held.splash # t
    <3> SUFFICES ASSUME round = "splash", ~Flag("enable_vt1"), held.splash = t PROVE FALSE
      OBVIOUS
    <3>1. terms[t].vt = SplashVt
      BY <1>0, <1>1 DEF Pointers, SplashHeld, InRound
    <3>2. current_terminal = SplashVt
      BY <1>3, <1>12, <3>1
    <3> QED
      BY <1>12, <3>2
  <2> QED
    BY <1>1, <1>4, <1>5, <1>6, <1>7, <2>6, <2>7, <2>8, <2>9, MovedStep
<1> QED
  BY <1>2, <1>8, <1>10, <1>11, <1>12

LEMMA GoneStep == ASSUME IInv, Gone PROVE IInv'
<1>0. Types /\ UseAfterClose /\ Phases
  BY DEF IInv
<1>1. /\ pc' = "ended" /\ terms' = [i \in Ids |-> Shut(terms[i])]
      /\ terminals' = [v \in VT |-> Null] /\ current_terminal' = SplashVt
      /\ held' = NoPointers /\ splash' = FALSE /\ bus' = "down"
      /\ UNCHANGED <<command_flags, round, misused>>
  BY DEF Gone
<1>2. terms' \in Seq(TermType)
  <2>1. terms \in Seq(TermType) /\ Ids = 1 .. Len(terms)
    BY <1>0 DEF Types, Ids
  <2>2. \A i \in Ids : terms'[i] \in TermType /\ terms'[i].vt = terms[i].vt
    BY <1>1, <2>1, TermShut
  <2>3. terms' = [i \in 1 .. Len(terms) |-> terms'[i]]
    BY <1>1, <2>1
  <2> QED
    BY <2>1, <2>2, <2>3, KeepsMapped
<1>3. Types'
  <2>1. NoPointers \in [splash : Nat, round : Nat]
    BY DEF NoPointers, Null
  <2> QED
    BY <1>1, <1>2, <2>1, VtType DEF Types, Null
<1>4. Table'
  BY <1>1 DEF Table
<1>5. Pointers' /\ Phases' /\ UseAfterClose'
  BY <1>0, <1>1 DEF Pointers, RoundHeld, Phases, InRound, UseAfterClose, Flag
<1> QED
  BY <1>3, <1>4, <1>5 DEF IInv

LEMMA NextOK == IInv /\ [Next]_vars => IInv'
<1> SUFFICES ASSUME IInv, [Next]_vars PROVE IInv'
  OBVIOUS
<1>1. CASE Start
  BY <1>1, StartQuiet, SplashInitStep, PreCreateStep DEF Start
<1>2. CASE Splash
  BY <1>2, SplashRunStep, SplashFrameStep, SplashEndsStep, LeaveInteractiveStep, LeaveSplashStep
     DEF Splash
<1>3. CASE Loop
  BY <1>3, LoopQuiet, SelectStep, DbusDispatchStep, InputDispatchStep, DispatchStep,
     RestartCheckStep DEF Loop
<1>4. CASE Exit \/ Killed
  BY <1>4, GoneStep DEF Exit, Killed
<1>5. CASE \/ ParentReads \/ SignalLogin \/ KeyPressed
           \/ \E i \in Ids : ChildTalks(i) \/ ChildExits(i) \/ HangUp(i) \/ ChildGone(i)
  BY <1>5, OthersStep
<1>6. CASE UNCHANGED vars
  BY <1>6, StillQuiet
<1> QED
  BY <1>1, <1>2, <1>3, <1>4, <1>5, <1>6 DEF Next, Frecon

\* A terminal is used after it was closed by the exception check of the round in
\* which the login prompt closed the splash terminal, and by the frames that
\* follow a restart of VT1 during the animation; by nothing else, whatever the
\* order of keys, exits, failures and signals (main_process_events, splash_run).
THEOREM UseAfterCloseConfined == Spec => []UseAfterClose
<1>1. IInv => UseAfterClose
  BY DEF IInv
<1> QED
  BY InitOK, NextOK, <1>1, PTL DEF Spec
-----------------------------------------------------------------------------
(* The number of terminals.  A VT is due when it may still get a terminal: *)
(* it has none, or its child ended and the restart is to come.  Whatever   *)
(* makes a terminal makes it for a VT that is due, which is not any more;  *)
(* and none becomes due but by an exit.                                    *)

Early == {"daemonize", "init", "splash_init"}

\* The VTs that get a terminal when they have none.
Creatable(v) == v # SplashVt \/ Flag("enable_vt1") \/ pc \in Early

Ended == {"exiting", "zombie"}

Due == {v \in VT : IF terminals[v] = Null THEN Creatable(v)
                   ELSE terms[terminals[v]].child \in Ended}

Counts ==
  /\ left \in [exits : Nat, keys : Nat]
  /\ Len(terms) <= NumVts + MaxExits
  /\ Running => Len(terms) + Cardinality(Due) + left.exits <= NumVts + MaxExits

\* The first terminal is made in splash_init.
Pristine == pc \in Early => terms = <<>> /\ \A v \in VT : terminals[v] = Null

USE BoundsAssumption, NumVtsAssumption

LEMMA PristineNext == Pristine /\ [Next]_vars => Pristine'
<1> SUFFICES ASSUME Pristine, [Next]_vars, pc' \in Early
             PROVE  terms' = <<>> /\ \A v \in VT : terminals'[v] = Null
  BY DEF Pristine
<1>1. CASE UNCHANGED vars \/ Daemonize \/ InitDevices
  BY <1>1 DEF vars, Daemonize, InitDevices, Pristine, Early
<1>2. CASE SplashInit \/ PreCreate \/ Report \/ Splash \/ Loop \/ Exit \/ Killed
  BY <1>2 DEF SplashInit, PreCreate, Report, Splash, SplashRun, SplashFrame, SplashEnds,
              LeaveInteractive, LeaveSplash, Loop, Top, SelectTimesOut, Select, DbusDispatch,
              LoginPrompt, InputDispatch, Dispatch, RestartCheck, Back, Broken, Exit, Killed,
              Gone, Early
<1>3. CASE ParentReads \/ SignalLogin \/ KeyPressed
  BY <1>3 DEF ParentReads, SignalLogin, KeyPressed, loopState, Pristine
<1>4. CASE \E i \in Ids : ChildTalks(i) \/ ChildExits(i) \/ HangUp(i) \/ ChildGone(i)
  <2>1. UNCHANGED pc /\ Ids # {}
    BY <1>4 DEF ChildTalks, ChildExits, HangUp, ChildGone, loopState
  <2> QED
    BY <2>1 DEF Pristine, Ids
<1> QED
  BY <1>1, <1>2, <1>3, <1>4 DEF Next, Frecon, Start

LEMMA DueFinite == IsFiniteSet(Due) /\ Cardinality(Due) \in Nat
<1>1. IsFiniteSet(VT) /\ Due \subseteq VT
  BY FS_Interval DEF VT, Due
<1> QED
  BY <1>1, FS_Subset, FS_CardinalityType

\* No terminal is made and no VT becomes due.
Steady == Due' \subseteq Due /\ Len(terms') = Len(terms)

\* One is made for a VT that was due.
Grown == \E v \in Due : Due' \subseteq Due \ {v} /\ Len(terms') = Len(terms) + 1

LEMMA CountsKept ==
  ASSUME Counts, Types, Running, Steady \/ Grown, UNCHANGED left
  PROVE  Counts'
<1>1. IsFiniteSet(Due) /\ Cardinality(Due) \in Nat
  BY DueFinite
<1>2. Len(terms) \in Nat
  BY DEF Types
<1>3. CASE Steady
  <2>1. Cardinality(Due') \in Nat /\ Cardinality(Due') <= Cardinality(Due)
    BY <1>1, <1>3, FS_Subset, FS_CardinalityType DEF Steady
  <2> QED
    BY <1>1, <1>2, <1>3, <2>1 DEF Counts, Steady
<1>4. CASE Grown
  <2>1. PICK v \in Due : Due' \subseteq Due \ {v} /\ Len(terms') = Len(terms) + 1
    BY <1>4 DEF Grown
  <2>2. IsFiniteSet(Due \ {v}) /\ Cardinality(Due \ {v}) = Cardinality(Due) - 1
    BY <1>1, <2>1, FS_RemoveElement
  <2>3. Cardinality(Due') \in Nat /\ Cardinality(Due') <= Cardinality(Due) - 1
    BY <2>1, <2>2, FS_Subset, FS_CardinalityType
  <2> QED
    BY <1>1, <1>2, <2>1, <2>3 DEF Counts
<1> QED
  BY <1>3, <1>4

\* No child ends from s to t.
NoneEnds(s, t) == \A j \in 1 .. Len(s) : t[j].child \in Ended => s[j].child \in Ended

LEMMA DueKept ==
  ASSUME Types, Table, NoneEnds(terms, terms'), pc' \in Early => pc \in Early,
         UNCHANGED command_flags,
         \A v \in VT : \/ terminals'[v] = terminals[v]
                       \/ terminals'[v] = Null /\ (v \in Due \/ ~Creatable(v))
  PROVE  Due' \subseteq Due
<1> SUFFICES ASSUME NEW v \in VT, v \in Due' PROVE v \in Due
  BY DEF Due
<1>1. Creatable(v)' => Creatable(v)
  BY DEF Creatable, Flag
<1>2. CASE terminals'[v] = terminals[v]
  <2>1. terminals[v] # Null => terminals[v] \in 1 .. Len(terms)
    BY DEF Table, Ids
  <2> QED
    BY <1>1, <1>2, <2>1 DEF Due, NoneEnds
<1>3. CASE terminals'[v] = Null /\ ~Creatable(v)
  BY <1>1, <1>3 DEF Due
<1> QED
  BY <1>2, <1>3

\* A terminal is made for v, or not, in the table and nowhere else.
LEMMA MadeFor ==
  ASSUME Types, Table, UNCHANGED command_flags, pc' \in Early => pc \in Early,
         NEW v \in Due, NEW s \in Seq(TermType), NoneEnds(terms, s), Len(s) = Len(terms),
         \/ /\ terms' = Append(s, NewTerm(v))
            /\ terminals' = [terminals EXCEPT ![v] = Len(terms) + 1]
         \/ terms' = s /\ terminals' = [terminals EXCEPT ![v] = Null]
  PROVE  Steady \/ Grown
<1>1. v \in VT /\ Len(terms) \in Nat /\ terms \in Seq(TermType) /\ terminals \in [VT -> Nat]
  BY DEF Due, Types
<1>2. CASE terms' = s /\ terminals' = [terminals EXCEPT ![v] = Null]
  <2>1. \A w \in VT : terminals'[w] = IF w = v THEN Null ELSE terminals[w]
    BY <1>1, <1>2
  <2>2. Due' \subseteq Due
    BY <1>2, <2>1, DueKept
  <2> QED
    BY <1>2, <2>2 DEF Steady
<1>3. CASE terms' = Append(s, NewTerm(v)) /\ terminals' = [terminals EXCEPT ![v] = Len(terms) + 1]
  <2> DEFINE n == Len(terms)
  <2>1. NewTerm(v) \in TermType /\ NewTerm(v).child = "running"
    BY <1>1, NewTermType DEF NewTerm
  <2>2. Len(terms') = n + 1 /\ terms'[n + 1] = NewTerm(v) /\ \A j \in 1 .. n : terms'[j] = s[j]
    BY <1>3, <2>1, AppendProperties
  <2>3. \A w \in VT : terminals'[w] = IF w = v THEN n + 1 ELSE terminals[w]
    BY <1>1, <1>3
  <2>4. n + 1 # Null
    BY <1>1 DEF Null
  <2> HIDE DEF n
  <2>5. v \notin Due'
    BY <1>1, <2>1, <2>2, <2>3, <2>4 DEF Due, Ended
  <2>6. ASSUME NEW w \in VT, w \in Due' PROVE w \in Due
    <3>1. w # v /\ terminals'[w] = terminals[w]
      BY <2>3, <2>5, <2>6
    <3>2. Creatable(w)' => Creatable(w)
      BY DEF Creatable, Flag
    <3>3. terminals[w] # Null => terminals[w] \in 1 .. n
      BY DEF Table, Ids, n
    <3> QED
      BY <2>2, <2>6, <3>1, <3>2, <3>3 DEF Due, NoneEnds, n
  <2>7. Due' \subseteq Due \ {v}
    BY <2>5, <2>6 DEF Due
  <2> QED
    BY <2>2, <2>7 DEF Grown, n
<1> QED
  BY <1>2, <1>3

LEMMA NoneEndsSelf == ASSUME NEW s PROVE NoneEnds(s, s)
BY DEF NoneEnds

LEMMA SameSteady ==
  ASSUME Types, Table, UNCHANGED <<command_flags, terms, terminals>>, pc' \in Early => pc \in Early
  PROVE  Steady
<1>1. NoneEnds(terms, terms')
  BY NoneEndsSelf
<1>2. Due' \subseteq Due
  BY <1>1, DueKept
<1> QED
  BY <1>2 DEF Steady

LEMMA CreateInMakes ==
  ASSUME Types, Table, UNCHANGED command_flags, pc' \in Early => pc \in Early,
         NEW v \in VT, terminals[v] = Null, Creatable(v), CreateIn(v)
  PROVE  Steady \/ Grown
<1>1. v \in Due
  BY DEF Due
<1>2. terms \in Seq(TermType) /\ NoneEnds(terms, terms)
  BY NoneEndsSelf DEF Types
<1> QED
  BY <1>1, <1>2, MadeFor DEF CreateIn

LEMMA SwitchToMakes ==
  ASSUME Types, Table, UNCHANGED command_flags, pc' \in Early => pc \in Early,
         NEW v, SwitchTo(v)
  PROVE  Steady \/ Grown
<1>1. CASE UNCHANGED <<terms, terminals>>
  BY <1>1, SameSteady
<1>2. CASE v \in VT /\ CreateIn(v) /\ ~(terminals[v] # Null \/ (v = SplashVt /\ ~Flag("enable_vt1")))
  BY <1>2, CreateInMakes DEF Creatable
<1> QED
  BY <1>1, <1>2 DEF SwitchTo

\* Closing a terminal and reaping a child makes no VT due.
LEMMA ClosedEnds ==
  ASSUME NEW s \in Seq(TermType), NEW i \in (1 .. Len(s)) \cup {Null}
  PROVE  NoneEnds(s, Closed(s, i))
<1>1. CASE i = Null
  BY <1>1, NoneEndsSelf DEF Closed
<1>2. CASE i # Null
  <2>1. i \in 1 .. Len(s) /\ s[i] \in TermType
    BY <1>2
  <2>2. Shut(s[i]).child = s[i].child
    BY <2>1 DEF Shut, Unnoticed, TermType
  <2>3. Closed(s, i) = [s EXCEPT ![i] = Shut(s[i])]
    BY <1>2 DEF Closed
  <2> QED
    BY <2>1, <2>2, <2>3 DEF NoneEnds
<1> QED
  BY <1>1, <1>2

LEMMA WithChildEnds ==
  ASSUME terms \in Seq(TermType), NEW i \in Ids, NEW state,
         state \in Ended => terms[i].child \in Ended
  PROVE  NoneEnds(terms, WithChild(i, state))
<1>1. i \in 1 .. Len(terms) /\ terms[i] \in TermType
  BY DEF Ids
<1>2. [terms[i] EXCEPT !.child = state].child = state
  BY <1>1 DEF TermType
<1>3. WithChild(i, state) = [terms EXCEPT ![i] = [terms[i] EXCEPT !.child = state]]
  BY DEF WithChild
<1> QED
  BY <1>1, <1>2, <1>3 DEF NoneEnds

LEMMA DestroySteady ==
  ASSUME Types, Table, UNCHANGED command_flags, pc \notin Early, pc' \notin Early,
         DestroySplashTerm
  PROVE  Steady
<1>1. CASE Flag("enable_vt1")
  BY <1>1, SameSteady DEF DestroySplashTerm
<1>2. CASE ~Flag("enable_vt1")
  <2> DEFINE i == terminals[SplashVt]
  <2>1. terminals' = [terminals EXCEPT ![SplashVt] = Null] /\ terms' = Closed(terms, i)
    BY <1>2 DEF DestroySplashTerm
  <2>2. i \in (1 .. Len(terms)) \cup {Null}
    BY VtType DEF Table, Ids
  <2> HIDE DEF i
  <2>3. NoneEnds(terms, terms') /\ Len(terms') = Len(terms)
    BY <2>1, <2>2, ClosedEnds, ClosedKeeps DEF Types
  <2>4. \A v \in VT : terminals'[v] = IF v = SplashVt THEN Null ELSE terminals[v]
    BY <2>1 DEF Types
  <2>5. ~Creatable(SplashVt)
    BY <1>2 DEF Creatable
  <2>6. Due' \subseteq Due
    BY <2>3, <2>4, <2>5, DueKept
  <2> QED
    BY <2>3, <2>6 DEF Steady
<1> QED
  BY <1>1, <1>2

LEMMA NoneEndsTwice ==
  ASSUME NEW s, NEW t, NEW u, Len(s) = Len(t), NoneEnds(s, t), NoneEnds(t, u)
  PROVE  NoneEnds(s, u)
BY DEF NoneEnds

\* Steps in which children may be heard or reaped, and the table is as it was.
LEMMA TableSteady ==
  ASSUME Types, Table, UNCHANGED <<command_flags, terminals>>, pc' \in Early => pc \in Early,
         NoneEnds(terms, terms'), Len(terms') = Len(terms)
  PROVE  Steady
BY DueKept DEF Steady

LEMMA StartMakes ==
  ASSUME IInv, Counts, Pristine, Daemonize \/ InitDevices \/ SplashInit \/ PreCreate \/ Report
  PROVE  Counts'
<1>0. Types /\ Table /\ UNCHANGED <<command_flags, left>> /\ Running
  BY DEF IInv, Daemonize, InitDevices, SplashInit, PreCreate, Report, Running
<1>1. CASE Daemonize \/ InitDevices \/ Report
  <2>1. UNCHANGED <<terms, terminals>> /\ (pc' \in Early => pc \in Early)
    BY <1>1 DEF Daemonize, InitDevices, Report, Early
  <2> QED
    BY <1>0, <2>1, SameSteady, CountsKept
<1>2. CASE SplashInit
  <2>1. pc \in Early /\ CreateIn(SplashVt) /\ SplashVt \in VT
    BY <1>2, VtType DEF SplashInit, Early
  <2>2. Steady \/ Grown
    <3>1. terminals[SplashVt] = Null
      BY <2>1 DEF Pristine
    <3>2. pc' \notin Early
      BY <1>2 DEF SplashInit, Early
    <3> QED
      BY <1>0, <2>1, <3>1, <3>2, CreateInMakes DEF Creatable
  <2> QED
    BY <1>0, <2>2, CountsKept
<1>3. CASE PreCreate
  <2>1. pc \notin Early /\ pc' \notin Early
    BY <1>3 DEF PreCreate, Early
  <2>2. PICK v \in Remaining : IF terminals[v] = Null THEN CreateIn(v) ELSE UNCHANGED <<terms, terminals>>
    BY <1>3 DEF PreCreate
  <2>3. v \in VT /\ Creatable(v)
    BY DEF Remaining, PreCreated, VT, SplashVt, Creatable
  <2>4. Steady \/ Grown
    BY <1>0, <2>1, <2>2, <2>3, CreateInMakes, SameSteady
  <2> QED
    BY <1>0, <2>4, CountsKept
<1> QED
  BY <1>1, <1>2, <1>3

LEMMA SplashMakes == ASSUME IInv, Counts, Splash PROVE Counts'
<1>0. Types /\ Table /\ UNCHANGED <<command_flags, left>> /\ Running
      /\ pc \notin Early /\ pc' \notin Early
  BY DEF IInv, Splash, SplashRun, SplashFrame, SplashEnds, LeaveInteractive, LeaveSplash,
         Running, Early
<1>1. CASE SplashRun \/ SplashFrame \/ SplashEnds
  <2>1. UNCHANGED <<terms, terminals>>
    BY <1>1 DEF SplashRun, SplashFrame, SplashEnds
  <2> QED
    BY <1>0, <2>1, SameSteady, CountsKept
<1>2. CASE LeaveInteractive
  BY <1>0, <1>2, DestroySteady, CountsKept DEF LeaveInteractive
<1>3. CASE LeaveSplash
  <2>1. \/ UNCHANGED <<terms, terminals>>
        \/ SwitchTo(IF Flag("enable_vt1") THEN SplashVt ELSE 1)
    BY <1>3 DEF LeaveSplash
  <2>2. Steady \/ Grown
    BY <1>0, <2>1, SameSteady, SwitchToMakes
  <2> QED
    BY <1>0, <2>2, CountsKept
<1> QED
  BY <1>1, <1>2, <1>3 DEF Splash

\* A restart makes a terminal for a VT whose child ended.
LEMMA RestartMakes == ASSUME IInv, Counts, RestartCheck PROVE Counts'
<1> DEFINE t == terminals[current_terminal]
           reaped == WithChild(t, "reaped")
           closed == Closed(reaped, t)
<1>0. /\ Types /\ Table /\ UNCHANGED <<command_flags, left>> /\ Running
      /\ pc \notin Early /\ pc' \notin Early
  BY DEF IInv, RestartCheck, mainVars, Running, Early, Back, Broken
<1>1. \/ UNCHANGED <<terms, terminals>>
      \/ /\ t # Null /\ t \in Ids /\ terms[t].child = "zombie"
         /\ \/ terms' = reaped /\ UNCHANGED terminals
            \/ /\ terminals' = [terminals EXCEPT ![current_terminal] = Len(terms) + 1]
               /\ terms' = Append(closed, NewTerm(current_terminal))
            \/ /\ terminals' = [terminals EXCEPT ![current_terminal] = Null]
               /\ terms' = reaped
  BY DEF RestartCheck, TerminalNow
<1>2. CASE UNCHANGED <<terms, terminals>>
  BY <1>0, <1>2, SameSteady, CountsKept
<1>3. CASE /\ t # Null /\ t \in Ids /\ terms[t].child = "zombie"
           /\ \/ terms' = reaped /\ UNCHANGED terminals
              \/ /\ terminals' = [terminals EXCEPT ![current_terminal] = Len(terms) + 1]
                 /\ terms' = Append(closed, NewTerm(current_terminal))
              \/ /\ terminals' = [terminals EXCEPT ![current_terminal] = Null]
                 /\ terms' = reaped
  <2>1. current_terminal \in Due /\ terms \in Seq(TermType)
    BY <1>0, <1>3 DEF Types, Due, Ended
  <2>2. NoneEnds(terms, reaped)
    BY <1>3, <2>1, WithChildEnds DEF Ended
  <2>3. Keeps(terms, reaped, Null) /\ Len(reaped) = Len(terms)
    BY <1>3, <2>1, WithChildKeeps
  <2>4. reaped \in Seq(TermType)
    BY <2>3 DEF Keeps
  <2>5. t \in 1 .. Len(terms)
    BY <1>3 DEF Ids
  <2> HIDE DEF reaped, t
  <2>6. Keeps(reaped, closed, t) /\ Len(closed) = Len(terms) /\ NoneEnds(reaped, closed)
    BY <2>3, <2>4, <2>5, ClosedKeeps, ClosedEnds
  <2>7. closed \in Seq(TermType) /\ NoneEnds(terms, closed)
    BY <2>2, <2>3, <2>6, NoneEndsTwice DEF Keeps
  <2> HIDE DEF closed
  <2>8. CASE terms' = reaped /\ UNCHANGED terminals
    <3>1. Steady
      BY <1>0, <2>2, <2>3, <2>8, TableSteady
    <3> QED
      BY <1>0, <3>1, CountsKept
  <2>9. CASE /\ terminals' = [terminals EXCEPT ![current_terminal] = Len(terms) + 1]
             /\ terms' = Append(closed, NewTerm(current_terminal))
    <3>1. Steady \/ Grown
      BY <1>0, <2>1, <2>6, <2>7, <2>9, MadeFor
    <3> QED
      BY <1>0, <3>1, CountsKept
  <2>10. CASE /\ terminals' = [terminals EXCEPT ![current_terminal] = Null]
              /\ terms' = reaped
    <3>1. Steady \/ Grown
      BY <1>0, <2>1, <2>2, <2>3, <2>4, <2>10, MadeFor
    <3> QED
      BY <1>0, <3>1, CountsKept
  <2> QED
    BY <1>3, <2>8, <2>9, <2>10 DEF reaped, t, closed
<1> QED
  BY <1>1, <1>2, <1>3

LEMMA LoopMakes == ASSUME IInv, Counts, Loop PROVE Counts'
<1>0. Types /\ Table
  BY DEF IInv
<1>1. CASE Top \/ SelectTimesOut \/ Select
  <2>1. /\ UNCHANGED <<command_flags, left, terms, terminals>> /\ Running
        /\ pc' \notin Early
    BY <1>1 DEF Top, SelectTimesOut, Select, mainVars, Running, Early, Back
  <2> QED
    BY <1>0, <2>1, SameSteady, CountsKept
<1>2. CASE DbusDispatch
  <2>1. /\ UNCHANGED <<command_flags, left>> /\ Running /\ pc \notin Early /\ pc' \notin Early
        /\ UNCHANGED <<terms, terminals>> \/ DestroySplashTerm
    BY <1>2 DEF DbusDispatch, LoginPrompt, Running, Early, Broken
  <2> QED
    BY <1>0, <2>1, SameSteady, DestroySteady, CountsKept
<1>3. CASE InputDispatch
  <2>1. /\ UNCHANGED <<command_flags, left>> /\ Running /\ pc' \notin Early
        /\ UNCHANGED <<terms, terminals>> \/ \E v \in VT : SwitchTo(v)
    BY <1>3 DEF InputDispatch, mainVars, Running, Early
  <2>2. Steady \/ Grown
    BY <1>0, <2>1, SameSteady, SwitchToMakes
  <2> QED
    BY <1>0, <2>1, <2>2, CountsKept
<1>4. CASE Dispatch
  <2>1. /\ UNCHANGED <<command_flags, left, terminals>> /\ Running /\ pc' \notin Early
        /\ terms' = [i \in Ids |-> IF i \in ready \cap Dispatched THEN Unnoticed(terms[i])
                                   ELSE terms[i]]
    BY <1>4 DEF Dispatch, mainVars, Running, Early
  <2>2. terms \in Seq(TermType) /\ Ids = 1 .. Len(terms)
    BY <1>0 DEF Types, Ids
  <2>3. \A i \in Ids : terms[i] \in TermType
    BY <2>2
  <2>4. \A i \in Ids : Unnoticed(terms[i]).child = terms[i].child
    BY <2>3 DEF Unnoticed, TermType
  <2>5. \A i \in Ids : terms'[i].child = terms[i].child
    BY <2>1, <2>4
  <2>6. NoneEnds(terms, terms')
    BY <2>2, <2>5 DEF NoneEnds
  <2>7. Len(terms') = Len(terms)
    BY <2>1, <2>2
  <2>8. Steady
    BY <1>0, <2>1, <2>6, <2>7, TableSteady
  <2> QED
    BY <1>0, <2>1, <2>8, CountsKept
<1>5. CASE RestartCheck
  BY <1>5, RestartMakes
<1> QED
  BY <1>1, <1>2, <1>3, <1>4, <1>5 DEF Loop

\* When frecon is gone nothing makes a terminal any more.
LEMMA CountsGone ==
  ASSUME Counts, pc' = "ended", Len(terms') = Len(terms), left' \in [exits : Nat, keys : Nat]
  PROVE  Counts'
BY DEF Counts, Running

LEMMA GoneMakes == ASSUME IInv, Counts, Gone PROVE Counts'
<1>1. pc' = "ended" /\ left' = [exits |-> 0, keys |-> 0]
      /\ terms' = [i \in 1 .. Len(terms) |-> Shut(terms[i])]
  BY DEF Gone, Ids
<1>2. Len(terms) \in Nat
  BY DEF IInv, Types
<1>3. Len(terms') = Len(terms)
  BY <1>1, <1>2
<1> QED
  BY <1>1, <1>3, CountsGone

LEMMA OneMore ==
  ASSUME NEW S, NEW x, IsFiniteSet(S), Cardinality(S) \in Nat
  PROVE  /\ IsFiniteSet(S \cup {x}) /\ Cardinality(S \cup {x}) \in Nat
         /\ Cardinality(S \cup {x}) <= Cardinality(S) + 1
<1>1. CASE x \in S
  <2>1. S \cup {x} = S
    BY <1>1
  <2> QED
    BY <2>1
<1>2. CASE x \notin S
  <2>1. IsFiniteSet(S \cup {x}) /\ Cardinality(S \cup {x}) = Cardinality(S) + 1
    BY <1>2, FS_AddElement
  <2> QED
    BY <2>1
<1> QED
  BY <1>1, <1>2

\* An exit makes one VT due at most, and uses up the exit that was counted for it.
LEMMA ExitCounts ==
  ASSUME IInv, Counts, NEW i \in Ids, ChildExits(i)
  PROVE  Counts'
<1>0. Types /\ Table /\ terms \in Seq(TermType)
  BY DEF IInv, Types
<1>1. /\ UNCHANGED <<command_flags, terminals, pc>> /\ left.exits > 0
      /\ left' = [left EXCEPT !.exits = @ - 1]
      /\ terms' = [WithChild(i, "exiting") EXCEPT ![i] = Noticed(@)]
  BY DEF ChildExits, loopState
<1>2. i \in 1 .. Len(terms) /\ i # Null
  BY <1>0 DEF Ids, Null
<1>3. /\ Len(terms') = Len(terms)
      /\ \A j \in 1 .. Len(terms) : j # i => terms'[j] = terms[j]
  BY <1>0, <1>1, <1>2 DEF WithChild
<1>4. /\ left \in [exits : Nat, keys : Nat] /\ left' \in [exits : Nat, keys : Nat]
      /\ left'.exits = left.exits - 1
  BY <1>1 DEF Counts
<1>5. CASE pc = "ended"
  BY <1>1, <1>3, <1>4, <1>5, CountsGone
<1>6. CASE pc # "ended"
  <2> DEFINE w == terms[i].vt
  <2>1. Due' \subseteq Due \cup {w}
    <3> SUFFICES ASSUME NEW v \in VT, v \in Due', v # w PROVE v \in Due
      BY DEF Due
    <3>1. Creatable(v)' <=> Creatable(v)
      BY <1>1 DEF Creatable, Flag
    <3>2. terminals[v] # Null => terminals[v] \in 1 .. Len(terms) /\ terminals[v] # i
      BY <1>0 DEF Table, Ids
    <3> QED
      BY <1>1, <1>3, <3>1, <3>2 DEF Due
  <2> HIDE DEF w
  <2>2. IsFiniteSet(Due) /\ Cardinality(Due) \in Nat
    BY DueFinite
  <2>3. /\ IsFiniteSet(Due \cup {w}) /\ Cardinality(Due \cup {w}) \in Nat
        /\ Cardinality(Due \cup {w}) <= Cardinality(Due) + 1
    BY <2>2, OneMore
  <2>4. Cardinality(Due') \in Nat /\ Cardinality(Due') <= Cardinality(Due) + 1
    BY <2>1, <2>2, <2>3, FS_Subset, FS_CardinalityType
  <2>5. Len(terms) \in Nat /\ left.exits \in Nat
    BY <1>0, <1>4
  <2>6. Len(terms) + Cardinality(Due) + left.exits <= NumVts + MaxExits
    BY <1>6 DEF Counts, Running
  <2>7. Len(terms') + Cardinality(Due') + left'.exits <= NumVts + MaxExits
    <3> DEFINE n == Len(terms)
               n1 == Len(terms')
               d == Cardinality(Due)
               d1 == Cardinality(Due')
               e == left.exits
               e1 == left'.exits
    <3>1. /\ n \in Nat /\ d \in Nat /\ e \in Nat /\ d1 \in Nat /\ n1 = n /\ e1 = e - 1
          /\ d1 <= d + 1 /\ n + d + e <= NumVts + MaxExits
      BY <1>3, <1>4, <2>2, <2>4, <2>5, <2>6
    <3> HIDE DEF n, n1, d, d1, e, e1
    <3>2. n1 + d1 + e1 <= NumVts + MaxExits
      BY <3>1
    <3> QED
      BY <3>2 DEF n1, d1, e1
  <2>8. Len(terms') <= NumVts + MaxExits
    BY <1>3 DEF Counts
  <2> QED
    BY <1>4, <2>7, <2>8 DEF Counts
<1> QED
  BY <1>5, <1>6

\* While frecon runs it holds the masters of the table, and none of their
\* children is hung up.
LEMMA HangUpCounts ==
  ASSUME IInv, Counts, NEW i \in Ids, HangUp(i)
  PROVE  Counts'
<1>0. Types /\ Table /\ terms \in Seq(TermType)
  BY DEF IInv, Types
<1>1. /\ UNCHANGED <<command_flags, terminals, pc, left>> /\ terms' = WithChild(i, "exiting")
      /\ ~MasterHeld(i)
  BY DEF HangUp, loopState
<1>2. i \in 1 .. Len(terms)
  BY DEF Ids
<1>3. /\ Len(terms') = Len(terms)
      /\ \A j \in 1 .. Len(terms) : j # i => terms'[j] = terms[j]
  BY <1>0, <1>1, <1>2 DEF WithChild
<1>4. CASE pc = "ended"
  BY <1>1, <1>3, <1>4, CountsGone DEF Counts
<1>5. CASE pc # "ended"
  <2>1. Due' \subseteq Due
    <3> SUFFICES ASSUME NEW v \in VT, v \in Due' PROVE v \in Due
      BY DEF Due
    <3>1. Creatable(v)' <=> Creatable(v)
      BY <1>1 DEF Creatable, Flag
    <3>2. terminals[v] # Null => terminals[v] \in 1 .. Len(terms) /\ terms[terminals[v]].open
      BY <1>0 DEF Table, Ids
    <3>3. terminals[v] # Null => terminals[v] # i
      BY <1>1, <1>5, <3>2 DEF MasterHeld, Running
    <3> QED
      BY <1>1, <1>3, <3>1, <3>2, <3>3 DEF Due
  <2> QED
    BY <1>0, <1>1, <1>3, <1>5, <2>1, CountsKept DEF Steady, Running
<1> QED
  BY <1>4, <1>5

LEMMA OthersMake ==
  ASSUME IInv, Counts, \/ ParentReads \/ SignalLogin \/ KeyPressed
                       \/ \E i \in Ids : ChildTalks(i) \/ ChildExits(i) \/ HangUp(i) \/ ChildGone(i)
  PROVE  Counts'
<1>0. Types /\ Table /\ terms \in Seq(TermType)
  BY DEF IInv, Types
<1>1. CASE ParentReads \/ SignalLogin \/ KeyPressed
  <2>1. UNCHANGED <<command_flags, terminals, terms, pc>>
    BY <1>1 DEF ParentReads, SignalLogin, KeyPressed, loopState
  <2>2. left' \in [exits : Nat, keys : Nat] /\ left'.exits = left.exits
    BY <1>1 DEF ParentReads, SignalLogin, KeyPressed, Counts
  <2>3. Due' = Due
    BY <2>1 DEF Due, Creatable, Flag
  <2> QED
    BY <2>1, <2>2, <2>3 DEF Counts, Running
<1>2. ASSUME NEW i \in Ids, ChildTalks(i) \/ ChildGone(i) PROVE Counts'
  <2>1. UNCHANGED <<command_flags, terminals, pc, left>>
    BY <1>2 DEF ChildTalks, ChildGone, loopState
  <2>2. i \in 1 .. Len(terms) /\ terms[i] \in TermType
    BY <1>0 DEF Ids
  <2>3. NoneEnds(terms, terms') /\ Len(terms') = Len(terms)
    <3>1. CASE ChildTalks(i)
      <4>1. terms' = [terms EXCEPT ![i] = Noticed(terms[i])]
        BY <3>1 DEF ChildTalks
      <4>2. Noticed(terms[i]).child = terms[i].child
        BY <2>2 DEF Noticed, TermType
      <4> QED
        BY <1>0, <2>2, <4>1, <4>2 DEF NoneEnds
    <3>2. CASE ChildGone(i)
      <4>1. terms' = WithChild(i, "zombie") /\ terms[i].child \in Ended
        BY <3>2 DEF ChildGone, Ended
      <4> QED
        BY <1>0, <4>1, WithChildEnds, WithChildKeeps
    <3> QED
      BY <1>2, <3>1, <3>2
  <2>4. CASE pc = "ended"
    BY <2>1, <2>3, <2>4, CountsGone DEF Counts
  <2>5. CASE pc # "ended"
    <3>1. Steady
      BY <1>0, <2>1, <2>3, TableSteady
    <3> QED
      BY <1>0, <2>1, <2>5, <3>1, CountsKept DEF Running
  <2> QED
    BY <2>4, <2>5
<1> QED
  BY <1>1, <1>2, ExitCounts, HangUpCounts

LEMMA NextMakes == IInv /\ Counts /\ Pristine /\ [Next]_vars => Counts'
<1> SUFFICES ASSUME IInv, Counts, Pristine, [Next]_vars PROVE Counts'
  OBVIOUS
<1>1. CASE UNCHANGED vars
  <2>1. UNCHANGED <<command_flags, terminals, terms, pc, left>>
    BY <1>1 DEF vars
  <2>2. Due' = Due
    BY <2>1 DEF Due, Creatable, Flag
  <2> QED
    BY <2>1, <2>2 DEF Counts, Running
<1>2. CASE Next
  BY <1>2, StartMakes, SplashMakes, LoopMakes, GoneMakes, OthersMake
     DEF Next, Frecon, Start, Exit, Killed
<1> QED
  BY <1>1, <1>2

LEMMA CountsInit == Init => Counts /\ Pristine
<1> SUFFICES ASSUME Init PROVE Counts /\ Pristine
  OBVIOUS
<1>1. /\ terms = <<>> /\ terminals = [v \in VT |-> Null]
      /\ left = [exits |-> MaxExits, keys |-> MaxKeys]
  BY DEF Init
<1>2. IsFiniteSet(VT) /\ Cardinality(VT) = NumVts
  BY FS_Interval DEF VT
<1>3. Due \subseteq VT
  BY DEF Due
<1>4. Cardinality(Due) \in Nat /\ Cardinality(Due) <= NumVts
  BY <1>2, <1>3, FS_Subset, FS_CardinalityType
<1>5. Len(terms) = 0 /\ left.exits = MaxExits /\ left \in [exits : Nat, keys : Nat]
  BY <1>1
<1> QED
  BY <1>1, <1>4, <1>5 DEF Counts, Pristine
-----------------------------------------------------------------------------
(* The other variables.  A descriptor that select reported belongs to a    *)
(* terminal that was made, and none is ever taken back.                    *)

LEMMA RestartNotFewer ==
  ASSUME IInv, RestartCheck
  PROVE  Len(terms') >= Len(terms)
<1> DEFINE t == terminals[current_terminal]
           reaped == WithChild(t, "reaped")
<1>0. terms \in Seq(TermType) /\ current_terminal \in VT
  BY DEF IInv, Types
<1>1. \/ UNCHANGED terms
      \/ /\ t # Null /\ t \in Ids
         /\ \/ terms' = reaped
            \/ terms' = Append(Closed(reaped, t), NewTerm(current_terminal))
  BY DEF RestartCheck, TerminalNow
<1>2. CASE UNCHANGED terms
  BY <1>0, <1>2
<1>3. CASE /\ t # Null /\ t \in Ids
           /\ \/ terms' = reaped
              \/ terms' = Append(Closed(reaped, t), NewTerm(current_terminal))
  <2>1. Keeps(terms, reaped, Null) /\ Len(reaped) = Len(terms)
    BY <1>0, <1>3, WithChildKeeps
  <2>2. reaped \in Seq(TermType) /\ t \in 1 .. Len(reaped)
    BY <1>3, <2>1 DEF Keeps, Ids
  <2>3. NewTerm(current_terminal) \in TermType
    BY <1>0, NewTermType
  <2> HIDE DEF reaped, t
  <2>4. Closed(reaped, t) \in Seq(TermType) /\ Len(Closed(reaped, t)) = Len(reaped)
    BY <2>2, ClosedKeeps DEF Keeps
  <2>5. Len(Append(Closed(reaped, t), NewTerm(current_terminal))) = Len(terms) + 1
    BY <2>1, <2>3, <2>4, KeepsAppend
  <2> QED
    BY <1>0, <1>3, <2>1, <2>5
<1> QED
  BY <1>1, <1>2, <1>3 DEF t, reaped

\* Terminal objects are closed and never forgotten.
LEMMA NotFewer ==
  ASSUME IInv, Next
  PROVE  Len(terms') >= Len(terms)
<1>0. Types /\ Table /\ terms \in Seq(TermType) /\ Len(terms) \in Nat
  BY DEF IInv, Types
<1>1. CASE UNCHANGED terms
  BY <1>0, <1>1
<1>2. CASE \/ \E v \in VT : CreateIn(v)
           \/ \E v \in Nat : SwitchTo(v)
           \/ DestroySplashTerm
  BY <1>0, <1>2, CreateInOK, SwitchToOK, DestroyOK DEF Keeps
<1>3. CASE Dispatch \/ Gone
  BY <1>0, <1>3 DEF Dispatch, Gone, Ids
<1>4. CASE \E i \in Ids : ChildTalks(i) \/ ChildExits(i) \/ HangUp(i) \/ ChildGone(i)
  BY <1>0, <1>4 DEF ChildTalks, ChildExits, HangUp, ChildGone, WithChild
<1>5. CASE Daemonize \/ InitDevices \/ Report \/ ParentReads \/ SignalLogin \/ KeyPressed
  BY <1>1, <1>5 DEF Daemonize, InitDevices, Report, ParentReads, SignalLogin, KeyPressed
<1>6. CASE SplashInit \/ PreCreate
  <2>1. Remaining \subseteq VT
    BY DEF Remaining, PreCreated, VT, SplashVt
  <2> QED
    BY <1>1, <1>2, <1>6, <2>1, VtType DEF SplashInit, PreCreate
<1>7. CASE Splash
  <2>1. (IF Flag("enable_vt1") THEN SplashVt ELSE 1) \in Nat
    BY DEF SplashVt
  <2> QED
    BY <1>1, <1>2, <1>7, <2>1
       DEF Splash, SplashRun, SplashFrame, SplashEnds, LeaveInteractive, LeaveSplash
<1>8. CASE Loop
  BY <1>1, <1>2, <1>3, <1>8, RestartNotFewer, VtType
     DEF Loop, Top, SelectTimesOut, Select, DbusDispatch, LoginPrompt, InputDispatch
<1> QED
  BY <1>3, <1>4, <1>5, <1>6, <1>7, <1>8 DEF Next, Frecon, Start, Exit, Killed

Others ==
  /\ parent \in {"none", "waiting", "success", "failure"}
  /\ bus \in {"down", "deaf", "up"} /\ login \in {"none", "sent", "queued", "done"}
  /\ told \in BOOLEAN /\ splash \in BOOLEAN /\ key \in BOOLEAN
  /\ attempted \subseteq VT /\ ready \subseteq Ids \cup {Null}

LEMMA OthersInit == Init => Others
BY DEF Init, Others

\* A step of frecon, its parent or a child, but for the descriptors.
LEMMA OthersNext == IInv /\ Others /\ [Next]_vars => Others'
<1> SUFFICES ASSUME IInv, Others, [Next]_vars PROVE Others'
  OBVIOUS
<1>0. /\ Len(terms') >= Len(terms) /\ Len(terms) \in Nat
      /\ Ids \subseteq Ids' \/ Gone
  <2>1. terms \in Seq(TermType) /\ Len(terms) \in Nat
    BY DEF IInv, Types
  <2>2. CASE UNCHANGED vars
    BY <2>1, <2>2 DEF vars, Ids
  <2>3. CASE Next
    <3>1. IInv'
      BY NextOK
    <3>2. Len(terms') \in Nat /\ Len(terms') >= Len(terms)
      BY <2>3, <3>1, NotFewer DEF IInv, Types
    <3> QED
      BY <2>1, <3>2 DEF Ids
  <2> QED
    BY <2>2, <2>3
<1>1. CASE UNCHANGED vars
  BY <1>1 DEF vars, loopVars, Others, Ids
<1>2. CASE Start
  <2>1. Remaining \subseteq VT
    BY DEF Remaining, PreCreated, VT, SplashVt
  <2>2. /\ parent' \in {parent, "waiting", "success"} /\ told' \in BOOLEAN
        /\ splash' \in {splash, TRUE} /\ attempted' \subseteq attempted \cup VT
        /\ UNCHANGED <<bus, login, key, ready>>
    BY <1>2, <2>1, VtType DEF Start, Daemonize, InitDevices, SplashInit, PreCreate, Report,
                              loopVars, Others
  <2>3. Ids \subseteq Ids'
    BY <1>0, <1>2 DEF Start, Daemonize, InitDevices, SplashInit, PreCreate, Report, Gone
  <2> QED
    BY <2>2, <2>3 DEF Others
<1>3. CASE Splash
  <2>1. /\ UNCHANGED <<parent, told, attempted, login, key, ready>>
        /\ splash' \in {splash, FALSE} /\ bus' \in {bus, "down", "deaf"}
    BY <1>3 DEF Splash, SplashRun, SplashFrame, SplashEnds, LeaveInteractive, LeaveSplash
  <2>2. Ids \subseteq Ids'
    BY <1>0, <1>3 DEF Splash, SplashRun, SplashFrame, SplashEnds, LeaveInteractive,
                      LeaveSplash, Gone
  <2> QED
    BY <2>1, <2>2 DEF Others
<1>4. CASE Loop
  <2>1. /\ UNCHANGED <<parent, told, attempted>>
        /\ splash' \in {splash, FALSE} /\ bus' \in {bus, "down", "up"}
        /\ login' \in {login, "none", "sent", "queued", "done"} /\ key' \in {key, FALSE}
    BY <1>4 DEF Loop, Top, SelectTimesOut, Select, DbusDispatch, LoginPrompt, InputDispatch,
                Dispatch, RestartCheck, mainVars
  <2>2. Ids \subseteq Ids'
    <3>1. pc' # "ended"
      BY <1>4 DEF Loop, Top, SelectTimesOut, Select, DbusDispatch, LoginPrompt, InputDispatch,
                  Dispatch, RestartCheck, Back, Broken
    <3> QED
      BY <1>0, <3>1 DEF Gone
  <2>3. ready' \in {ready, {}} \/ ready' \subseteq Ids \cup {Null}
    BY <1>4 DEF Loop, Top, SelectTimesOut, Select, DbusDispatch, InputDispatch, Dispatch,
                RestartCheck, roundVars, Readable
  <2>4. ready' \subseteq Ids' \cup {Null}
    BY <2>2, <2>3 DEF Others
  <2>5. /\ parent' \in {"none", "waiting", "success", "failure"} /\ told' \in BOOLEAN
        /\ attempted' \subseteq VT' /\ splash' \in BOOLEAN
    <3>1. VT' = VT
      BY DEF VT
    <3> QED
      BY <2>1, <3>1 DEF Others
  <2>6. /\ bus' \in {"down", "deaf", "up"} /\ login' \in {"none", "sent", "queued", "done"}
        /\ key' \in BOOLEAN
    BY <2>1 DEF Others
  <2> QED
    BY <2>4, <2>5, <2>6 DEF Others
<1>5. CASE Gone
  BY <1>5 DEF Gone, Others
<1>6. CASE \/ ParentReads \/ SignalLogin \/ KeyPressed
           \/ \E i \in Ids : ChildTalks(i) \/ ChildExits(i) \/ HangUp(i) \/ ChildGone(i)
  <2>1. /\ UNCHANGED <<told, splash, attempted, bus, ready>>
        /\ parent' \in {parent, "success", "failure"} /\ login' \in {login, "sent"}
        /\ key' \in {key, TRUE}
    BY <1>6 DEF ParentReads, SignalLogin, KeyPressed, ChildTalks, ChildExits, HangUp,
                ChildGone, loopState
  <2>2. Gone => ready' = {}
    BY DEF Gone
  <2> QED
    BY <1>0, <2>1, <2>2 DEF Others
<1> QED
  BY <1>1, <1>2, <1>3, <1>4, <1>5, <1>6 DEF Next, Frecon, Exit, Killed

LEMMA TypeFollows == ASSUME IInv, Counts, Others PROVE TypeOK
<1>1. Types /\ Table /\ round \in {"splash", "main"}
  BY DEF IInv, Phases
<1>2. terms \in Seq(TermType) /\ Len(terms) \in Nat
  BY <1>1 DEF Types
<1>3. Ids \subseteq AllIds
  BY <1>2 DEF Counts, Ids, AllIds
<1>4. \A i \in Ids : terms[i].child \in {"running", "exiting", "zombie", "reaped"}
  <2>1. \A i \in Ids : terms[i] \in TermType
    BY <1>2 DEF Ids
  <2> QED
    BY <2>1 DEF TermType
<1> QED
  BY <1>1, <1>3, <1>4 DEF Others, Types, Table, TypeOK

\* The table holds open terminals, each under its own VT, and there are never
\* more terminals than VTs and children that exited of their own accord
\* (term_set_terminal, term_destroy_splash_term, main_process_events).
THEOREM DaemonTypeCorrect == Spec => []TypeOK
<1>1. Init => IInv /\ Counts /\ Pristine /\ Others
  BY InitOK, CountsInit, OthersInit
<1>2. /\ IInv /\ Counts /\ Pristine /\ Others /\ [Next]_vars
      => (IInv /\ Counts /\ Pristine /\ Others)'
  BY NextOK, NextMakes, PristineNext, OthersNext
<1>3. IInv /\ Counts /\ Pristine /\ Others => TypeOK
  BY TypeFollows
<1> QED
  BY <1>1, <1>2, <1>3, PTL DEF Spec
=============================================================================
