------------------------------ MODULE DrmBuffers ------------------------------
(***************************************************************************)
(* The reference counted drm objects of drm.c and the framebuffers of      *)
(* fb.c, which live on the drm object that was current when they were      *)
(* made.  Terminals are opened, restarted and closed, the monitor changes, *)
(* and any of the kernel calls on the way may fail.                        *)
(*                                                                         *)
(* The kernel's side (identifiers, the framebuffer on the screen) is part  *)
(* of the drm objects.  Who is drm master is in VtSwitch, the font the     *)
(* terminals share in FontGrid.                                            *)
(***************************************************************************)
EXTENDS Integers, FiniteSets

CONSTANTS
  Vts,       \* the terminals, 0 (TERM_SPLASH_TERMINAL) among them
  Objects,   \* addresses of drm objects
  None,      \* NULL
  MaxId,     \* bound: kernel identifiers of one drm object
  MaxHalf    \* bound: numbers that half made framebuffers keep at a time

ASSUME VtsAssumption == Vts \subseteq Nat /\ IsFiniteSet(Vts) /\ 0 \in Vts
ASSUME NoneAssumption == None \notin Objects
ASSUME BoundsAssumption == MaxId \in Nat \ {0} /\ MaxHalf \in Nat

VARIABLES
  obj,       \* drm_t by address, and the kernel's view of its file
  g_drm,     \* the current drm object
  term,      \* terminals[], each with its fb_t
  scan,      \* the framebuffer on the console's crtc, <<object, id>>, or <<>>
  halfMade,  \* history: <<object, handle>> of term that a half made one has kept
  leaked,    \* a terminal was dropped without term_close
  pc, todo   \* term_monitor_hotplug between two terminals

vars == <<obj, g_drm, term, scan, halfMade, leaked, pc, todo>>

\* A freed drm object: the kernel has dropped all its file held.
Freed == [refcount |-> 0, delayed |-> 0, fbs |-> {}, handles |-> {}, atomic |-> FALSE]

\* One that drm_scan just returned, with the reference of whoever asked for it.
Fresh(atomic) == [refcount |-> 1, delayed |-> 0, fbs |-> {}, handles |-> {}, atomic |-> atomic]

\* An fb_t with no buffer, and no fb_t at all.
NoBuffer == [open |-> TRUE, drm |-> None, id |-> 0, handle |-> 0]
NoTerm == [open |-> FALSE, drm |-> None, id |-> 0, handle |-> 0]

Open == {v \in Vts : term[v].open}
Users(o) == {v \in Vts : term[v].drm = o}
Handle(f) == <<f.drm, f.handle>>

\* A handle is in doubt from when a half made framebuffer, which has no id, keeps
\* it until no terminal has it.
NoteHalfMade ==
  halfMade' = {Handle(term'[v]) : v \in
                 {w \in Vts : /\ term'[w].handle # 0
                              /\ term'[w].id = 0 \/ Handle(term'[w]) \in halfMade}}

NewId(used) == CHOOSE n \in 1 .. MaxId : n \notin used
Exhausted(used) == 1 .. MaxId \subseteq used
-----------------------------------------------------------------------------
\* The drm calls, as functions of the display k.

Display == [obj |-> obj, scan |-> scan]

SetDisplay(k) == obj' = k.obj /\ scan' = k.scan

\* drmModeRmFB: a framebuffer on the screen leaves it.
RmFB(k, o, id) ==
  IF id = 0 THEN k
  ELSE [obj  |-> [k.obj EXCEPT ![o].fbs = @ \ {id}],
        scan |-> IF k.scan = <<o, id>> THEN <<>> ELSE k.scan]

\* delayed_rmfb_fb_id.
SetDelayed(k, o, id) == [k EXCEPT !.obj[o].delayed = id]

\* drm_clear_rmfb.
ClearRmFB(k, o) == SetDelayed(RmFB(k, o, k.obj[o].delayed), o, 0)

\* Wrong: the framebuffer that waited is forgotten.
DelayRmFBOnly(k, o, id) == SetDelayed(k, o, id)

\* drm_rmfb: one framebuffer waits, the one that waited goes.
DelayRmFB(k, o, id) == SetDelayed(ClearRmFB(k, o), o, id)

\* DRM_IOCTL_MODE_CREATE_DUMB, drmModeAddFB and DRM_IOCTL_MODE_DESTROY_DUMB.
AddHandle(k, o, id) == [k EXCEPT !.obj[o].handles = @ \cup {id}]
AddFb(k, o, id) == [k EXCEPT !.obj[o].fbs = @ \cup {id}]
FreeHandle(k, o, id) == [k EXCEPT !.obj[o].handles = @ \ {id}]

\* drm_fini closes the file: nothing of it stays on the screen.
Fini(k, o) ==
  [obj  |-> [k.obj EXCEPT ![o] = Freed],
   scan |-> IF k.scan # <<>> /\ k.scan[1] = o THEN <<>> ELSE k.scan]

\* drm_addref and drm_delref.
AddRef(k, o) == [k EXCEPT !.obj[o].refcount = @ + 1]

DelRef(k, o) ==
  IF o = None THEN k
  ELSE IF k.obj[o].refcount > 1 THEN [k EXCEPT !.obj[o].refcount = @ - 1]
  ELSE Fini(k, o)

\* Wrong: DRM_IOCTL_MODE_DESTROY_DUMB is forgotten.
DestroyKeepsDumb(k, f) ==
  DelRef(IF f.handle = 0 THEN k ELSE DelayRmFB(k, f.drm, f.id), f.drm)

\* fb_buffer_destroy.
BufferDestroy(k, f) ==
  DelRef(IF f.handle = 0 THEN k
         ELSE FreeHandle(DelayRmFB(k, f.drm, f.id), f.drm, f.handle),
         f.drm)

\* fb_buffer_init: the reference is taken first.  "dumb" and "addfb" are the
\* ioctls that can fail, the first also because no number is left; after the
\* second the handle is given back to the kernel but stays in the fb_t.  A handle
\* and the id of its framebuffer are one number here.
Outcomes == {"made", "dumb"} \cup (IF Cardinality(halfMade) < MaxHalf THEN {"addfb"} ELSE {})

BufferInit(k, o, how) ==
  LET used == k.obj[o].fbs \cup k.obj[o].handles
      id == NewId(used)
      ref == AddRef(k, o)
      fb(i, h) == [open |-> TRUE, drm |-> o, id |-> i, handle |-> h]
  IN  IF o = None THEN [k |-> k, fb |-> NoBuffer]
      ELSE IF how = "dumb" \/ Exhausted(used) THEN [k |-> ref, fb |-> fb(0, 0)]
      ELSE IF how = "addfb" THEN [k |-> ref, fb |-> fb(0, id)]
      ELSE [k |-> AddFb(AddHandle(ref, o, id), o, id), fb |-> fb(id, id)]

\* drm_setmode: an atomic commit that fails removes the framebuffer that
\* waited, before the legacy call is tried; one that works leaves it.
AtomicOutcomes(o) ==
  {"not tried"} \cup (IF o # None /\ obj[o].atomic THEN {"commit", "commit fails"} ELSE {})

DrmSetMode(k, f, atomic, legacy) ==
  LET shown(s) == [s EXCEPT !.scan = <<f.drm, f.id>>]
      tried == k.obj[f.drm].atomic /\ atomic # "not tried"
      committed == tried /\ atomic = "commit" /\ f.id # 0
      fallback == IF tried THEN ClearRmFB(k, f.drm) ELSE k
  IN  IF committed THEN shown(k)
      ELSE IF legacy /\ f.id # 0 THEN ClearRmFB(shown(fallback), f.drm)
      ELSE fallback

\* Wrong: a terminal without a monitor counts as shown.
SetModeHeadless(k, f, atomic, legacy) ==
  IF f.drm = None THEN [k EXCEPT !.scan = <<None, f.id>>]
  ELSE DrmSetMode(k, f, atomic, legacy)

\* fb_setmode.
SetMode(k, f, atomic, legacy) ==
  IF f.drm = None THEN k ELSE DrmSetMode(k, f, atomic, legacy)
-----------------------------------------------------------------------------
Init ==
  /\ obj = [o \in Objects |-> Freed]
  /\ g_drm = None
  /\ term = [v \in Vts |-> NoTerm]
  /\ scan = <<>> /\ halfMade = {}
  /\ leaked = FALSE
  /\ pc = "start" /\ todo = {}

\* drm_set(drm_scan()): the first drm object, if there is a monitor.
Start ==
  /\ pc = "start"
  /\ pc' = "idle"
  /\ \/ \E o \in Objects, atomic \in BOOLEAN :
          /\ g_drm' = o
          /\ obj' = [obj EXCEPT ![o] = Fresh(atomic)]
     \/ UNCHANGED <<g_drm, obj>>
  /\ UNCHANGED <<term, scan, halfMade, leaked, todo>>

\* term_init of a terminal that was not there; it may become the visible one.
OpenTerm(v, how) ==
  /\ pc = "idle" /\ v \notin Open
  /\ LET b == BufferInit(Display, g_drm, how)
     IN  /\ term' = [term EXCEPT ![v] = b.fb]
         /\ \/ SetDisplay(b.k)
            \/ \E atomic \in AtomicOutcomes(g_drm), legacy \in BOOLEAN :
                 SetDisplay(SetMode(b.k, b.fb, atomic, legacy))
  /\ NoteHalfMade
  /\ UNCHANGED <<g_drm, leaked, pc, todo>>

\* term_init fails once the framebuffer exists (no pty, no child, or the sizes
\* refused), and term_close gives it back.
OpenFails(v, how) ==
  /\ pc = "idle" /\ v \notin Open
  /\ LET b == BufferInit(Display, g_drm, how)
     IN  SetDisplay(BufferDestroy(b.k, b.fb))
  /\ UNCHANGED <<g_drm, term, halfMade, leaked, pc, todo>>

\* term_activate of a terminal that exists.
Activate(v, atomic, legacy) ==
  /\ pc = "idle" /\ v \in Open
  /\ SetDisplay(SetMode(Display, term[v], atomic, legacy))
  /\ UNCHANGED <<g_drm, term, halfMade, leaked, pc, todo>>

\* main_process_events: the new terminal is up and shown before the old one,
\* whose child exited, is closed.
Restart(v, how, atomic, legacy) ==
  /\ pc = "idle" /\ v \in Open
  /\ LET b == BufferInit(Display, g_drm, how)
     IN  /\ SetDisplay(BufferDestroy(SetMode(b.k, b.fb, atomic, legacy), term[v]))
         /\ term' = [term EXCEPT ![v] = b.fb]
  /\ NoteHalfMade
  /\ UNCHANGED <<g_drm, leaked, pc, todo>>

\* The same when the new terminal cannot be set up: the table has lost the old
\* one, which nobody closes.  main_loop ends, splash_run goes on.  Bound: once.
RestartFails(v, how) ==
  /\ pc = "idle" /\ v \in Open /\ ~leaked
  /\ LET b == BufferInit(Display, g_drm, how)
     IN  SetDisplay(BufferDestroy(b.k, b.fb))
  /\ term' = [term EXCEPT ![v] = NoTerm]
  /\ leaked' = TRUE
  /\ NoteHalfMade
  /\ UNCHANGED <<g_drm, pc, todo>>

\* term_destroy_splash_term.
DestroySplash ==
  /\ pc = "idle" /\ 0 \in Open
  /\ SetDisplay(BufferDestroy(Display, term[0]))
  /\ term' = [term EXCEPT ![0] = NoTerm]
  /\ NoteHalfMade
  /\ UNCHANGED <<g_drm, leaked, pc, todo>>

\* Chrome, while it has the display, shows a framebuffer of its own.
ChromeShows ==
  /\ pc = "idle"
  /\ scan' = <<>>
  /\ UNCHANGED <<obj, g_drm, term, halfMade, leaked, pc, todo>>

-----------------------------------------------------------------------------
\* Wrong: the drm object given up is leaked.
RescanKeepsRef(new, atomic) ==
  /\ g_drm' = new
  /\ SetDisplay(IF new = None THEN Display
                ELSE [Display EXCEPT !.obj[new] = Fresh(atomic)])

\* drm_rescan finds another connector, or none any more.
Rescan(new, atomic) ==
  /\ g_drm' = new
  /\ LET k == DelRef(Display, g_drm)
     IN  SetDisplay(IF new = None THEN k
                    ELSE [k EXCEPT !.obj[new] = Fresh(atomic)])

\* term_monitor_hotplug when drm_rescan returns true.
Hotplug(new, atomic) ==
  /\ pc = "idle"
  /\ new # None => obj[new] = Freed
  /\ new = None => g_drm # None
  /\ Rescan(new, atomic)
  /\ pc' = "destroy" /\ todo' = Open
  /\ UNCHANGED <<term, halfMade, leaked>>

\* Its first loop, one terminal.
HotplugDestroy(v) ==
  /\ pc = "destroy" /\ v \in todo /\ \A w \in todo : v <= w
  /\ SetDisplay(BufferDestroy(Display, term[v]))
  /\ term' = [term EXCEPT ![v] = NoBuffer]
  /\ todo' = todo \ {v}
  /\ NoteHalfMade
  /\ UNCHANGED <<g_drm, leaked, pc>>

\* Wrong: a terminal whose framebuffer is gone is passed over.
TurnToBuffers ==
  /\ pc = "destroy" /\ todo = {}
  /\ pc' = "create" /\ todo' = {v \in Open : term[v].drm # None}
  /\ UNCHANGED <<obj, g_drm, term, scan, halfMade, leaked>>

HotplugTurn ==
  /\ pc = "destroy" /\ todo = {}
  /\ pc' = "create" /\ todo' = Open
  /\ UNCHANGED <<obj, g_drm, term, scan, halfMade, leaked>>

\* Its second loop: the framebuffer on the new drm object, and the mode if the
\* terminal is the active one.
HotplugCreate(v, how) ==
  /\ pc = "create" /\ v \in todo /\ \A w \in todo : v <= w
  /\ LET b == BufferInit(Display, g_drm, how)
     IN  /\ term' = [term EXCEPT ![v] = b.fb]
         /\ \/ SetDisplay(b.k)
            \/ \E atomic \in AtomicOutcomes(g_drm), legacy \in BOOLEAN :
                 SetDisplay(SetMode(b.k, b.fb, atomic, legacy))
  /\ todo' = todo \ {v}
  /\ NoteHalfMade
  /\ UNCHANGED <<g_drm, leaked, pc>>

HotplugDone ==
  /\ pc = "create" /\ todo = {}
  /\ pc' = "idle"
  /\ UNCHANGED <<obj, g_drm, term, scan, halfMade, leaked, todo>>

\* main_done: drm_close, the terminals stay as they are.
Stop ==
  /\ pc = "idle"
  /\ SetDisplay(DelRef(Display, g_drm))
  /\ g_drm' = None
  /\ pc' = "stopped"
  /\ UNCHANGED <<term, halfMade, leaked, todo>>
-----------------------------------------------------------------------------
Next ==
  \/ Start
  \/ \E v \in Vts, how \in Outcomes :
       \/ OpenTerm(v, how)
       \/ OpenFails(v, how)
       \/ RestartFails(v, how)
       \/ HotplugCreate(v, how)
       \/ \E atomic \in AtomicOutcomes(g_drm), legacy \in BOOLEAN :
            Restart(v, how, atomic, legacy)
  \/ \E v \in Vts : \E atomic \in AtomicOutcomes(term[v].drm), legacy \in BOOLEAN :
       Activate(v, atomic, legacy)
  \/ DestroySplash
  \/ ChromeShows
  \/ \E new \in Objects \cup {None}, atomic \in BOOLEAN : Hotplug(new, atomic)
  \/ \E v \in Vts : HotplugDestroy(v)
  \/ HotplugTurn
  \/ HotplugDone
  \/ Stop

Spec == Init /\ [][Next]_vars
-----------------------------------------------------------------------------
TypeOK ==
  /\ obj \in [Objects -> [refcount : Nat, delayed : Nat, fbs : SUBSET Nat,
                          handles : SUBSET Nat, atomic : BOOLEAN]]
  /\ g_drm \in Objects \cup {None}
  /\ term \in [Vts -> [open : BOOLEAN, drm : Objects \cup {None}, id : Nat, handle : Nat]]
  /\ scan = <<>> \/ scan \in Objects \X Nat
  /\ halfMade \subseteq Objects \X Nat
  /\ leaked \in BOOLEAN
  /\ pc \in {"start", "idle", "destroy", "create", "stopped"}
  /\ todo \subseteq Vts

\* A drm object has one reference per terminal that holds it and one for g_drm,
\* through every hotplug, restart and half made framebuffer: none is freed under
\* a terminal, and none outlives its last user unless a terminal was leaked.
RefcountExact ==
  \A o \in Objects :
    LET holders == Cardinality(Users(o)) + (IF g_drm = o THEN 1 ELSE 0)
    IN  IF leaked THEN obj[o].refcount >= holders ELSE obj[o].refcount = holders

\* Once a hotplug is done every framebuffer is on the current drm object, or
\* nowhere when there is no monitor.
OnCurrentDrm == pc = "idle" => \A v \in Open : term[v].drm = g_drm

\* The kernel holds the framebuffers of the terminals and at most one more per
\* drm object, the one whose removal is delayed, which no terminal uses.
FbsAccounted ==
  \A o \in Objects :
    LET used == {term[v].id : v \in Users(o)} \ {0}
        waiting == {obj[o].delayed} \ {0}
    IN  /\ used \cup waiting \subseteq obj[o].fbs
        /\ ~leaked => obj[o].fbs = used \cup waiting
        /\ used \cap waiting = {}

\* Two terminals never draw into one buffer, and each buffer in use is allocated:
\* for every handle that no half made framebuffer has kept.  One that has
\* (fb.c:73-79) shares its number with whom the kernel gives it next, and
\* fb_buffer_destroy frees it a second time; the harm stays with that number.
HandlesOwned ==
  \A v \in Vts : term[v].handle # 0 /\ Handle(term[v]) \notin halfMade =>
    /\ term[v].handle \in obj[term[v].drm].handles
    /\ \A w \in Users(term[v].drm) \ {v} : term[w].handle # term[v].handle

\* Every dumb buffer the kernel holds is some terminal's, half made or not: none
\* stays behind unless a terminal was dropped without term_close.
HandlesReleased ==
  ~leaked =>
    \A o \in Objects : obj[o].handles \subseteq {term[v].handle : v \in Users(o)}

\* What the kernel holds is what the terminals use and the one framebuffer that
\* waits, through restarts, hotplugs and failures of any call; and no terminal
\* draws into what another one or nobody owns, but for the handles of HandlesOwned
\* (fb_buffer_create, fb_buffer_destroy, drm_rmfb).
BuffersAccounted == FbsAccounted /\ HandlesOwned /\ HandlesReleased
=============================================================================
