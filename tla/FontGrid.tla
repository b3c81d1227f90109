------------------------------ MODULE FontGrid ------------------------------
(***************************************************************************)
(* The one font all terminals share (font.c) and the size in characters    *)
(* each terminal derives from it (term_resize).  The scaling and the       *)
(* prescaled glyphs change only while nobody holds a reference, so a zoom  *)
(* and a hotplug give the font back for every terminal before any of them  *)
(* takes it again; both loops are taken one terminal at a time.            *)
(*                                                                         *)
(* A size is <<size of the framebuffer, font scaling>>.                    *)
(***************************************************************************)
EXTENDS Integers, FiniteSets

CONSTANTS
  Vts,       \* the terminals, 0 (TERM_SPLASH_TERMINAL) among them
  Monitors,  \* [size, scaling]; scaling 0: fb_buffer_init leaves it as it was
  MaxScale   \* the largest scaling, 4 in the code

NoMonitor == [size |-> 0, scaling |-> 0]
DefaultFb == [size |-> 0, scaling |-> 1]

ASSUME VtsAssumption == Vts \subseteq Nat /\ IsFiniteSet(Vts) /\ 0 \in Vts
ASSUME ScaleAssumption == MaxScale \in Nat \ {0}
ASSUME MonitorsAssumption == Monitors \subseteq [size : Nat \ {0}, scaling : 0 .. MaxScale]

VARIABLES
  monitor,       \* the monitor of g_drm, or NoMonitor
  open,          \* the terminals that exist
  fb,            \* buffer_properties of each
  grid,          \* w_in_char and h_in_char of each
  screen, pty,   \* the size tsm_screen_resize and shl_pty_resize accepted last
  font_ref, font_scaling,
  glyphs,        \* the scaling prescaled_glyphs was made for, 0 when NULL
  fault,         \* a font reference was given back that was not held
  pc,            \* the loop of term_zoom or term_monitor_hotplug
  todo,          \* the terminals it has left
  scaling        \* what it passes to term_resize; 0: the framebuffer's own

vars == <<monitor, open, fb, grid, screen, pty, font_ref, font_scaling, glyphs,
          fault, pc, todo, scaling>>
sizes == <<grid, screen, pty>>

First(v) == v \in todo /\ \A w \in todo : v <= w
-----------------------------------------------------------------------------
\* fb_buffer_init on monitor m, for a framebuffer that had the properties f.
\* The kernel may refuse the buffer: the properties stay.
NewFb(f) ==
  {f} \cup
  IF monitor = NoMonitor THEN {}
  ELSE {[size |-> monitor.size,
         scaling |-> IF monitor.scaling = 0 THEN f.scaling ELSE monitor.scaling]}

\* What font_init leaves, as a record.
Font == [ref |-> font_ref, scaling |-> font_scaling, glyphs |-> glyphs]

FontInit(f, s) ==
  [ref     |-> f.ref + 1,
   scaling |-> IF f.ref = 0 THEN s ELSE f.scaling,
   glyphs  |-> IF f.ref = 0 /\ s > 1 THEN s ELSE f.glyphs]

FontFree(f) ==
  [ref     |-> f.ref - 1,
   scaling |-> f.scaling,
   glyphs  |-> IF f.ref = 1 THEN 0 ELSE f.glyphs]

SetFont(f) == font_ref' = f.ref /\ font_scaling' = f.scaling /\ glyphs' = f.glyphs

\* What can become of the three sizes: all accepted, or one refused.
Answers == {"fits", "screen refused", "pty refused"}

\* term_resize of v with framebuffer f.  It divides by the scaling: see Crash.
Resize(v, f, s, answer) ==
  LET init == FontInit(Font, IF s = 0 THEN f.scaling ELSE s)
      size == <<f.size, init.scaling>>
  IN  /\ init.scaling # 0
      /\ grid' = [grid EXCEPT ![v] = size]
      /\ screen' = IF answer = "screen refused" THEN screen ELSE [screen EXCEPT ![v] = size]
      /\ pty' = IF answer = "fits" THEN [pty EXCEPT ![v] = size] ELSE pty
      /\ SetFont(IF answer = "fits" THEN init ELSE FontFree(init))
      /\ fault' = (fault \/ answer # "fits")
-----------------------------------------------------------------------------
NoSize == <<0, 0>>

Init ==
  /\ monitor \in Monitors \cup {NoMonitor}
  /\ open = {} /\ fb = [v \in Vts |-> DefaultFb]
  /\ grid = [v \in Vts |-> NoSize] /\ screen = grid /\ pty = grid
  /\ font_ref = 0 /\ font_scaling = 0 /\ glyphs = 0 /\ fault = FALSE
  /\ pc = "idle" /\ todo = {} /\ scaling = 0

\* term_init of a terminal that was not there.
OpenTerm(v) ==
  /\ pc = "idle" /\ v \notin open
  /\ \E f \in NewFb(DefaultFb) :
       /\ fb' = [fb EXCEPT ![v] = f]
       /\ Resize(v, f, 0, "fits")
  /\ open' = open \cup {v}
  /\ UNCHANGED <<monitor, pc, todo, scaling>>

\* term_init fails: term_close gives back a reference that was never taken, or
\* that term_resize gave back already, having set the scaling of a font nobody
\* used.  Bound: font_ref falls to -1 at most.
CloseUnfinished ==
  /\ font_ref >= 0
  /\ \/ SetFont(FontFree(Font))
     \/ \E f \in NewFb(DefaultFb) : SetFont(FontFree(FontFree(FontInit(Font, f.scaling))))
  /\ fault' = TRUE

OpenFails(v) ==
  /\ pc = "idle" /\ v \notin open
  /\ CloseUnfinished
  /\ UNCHANGED <<monitor, open, fb, sizes, pc, todo, scaling>>

\* font_init at -1 leaves the scaling 0 of a font never used, by which
\* term_resize divides.
Crash ==
  /\ pc = "idle" /\ open # Vts
  /\ font_ref # 0 /\ font_scaling = 0
  /\ pc' = "stopped"
  /\ UNCHANGED <<monitor, open, fb, sizes, font_ref, font_scaling, glyphs, fault, todo, scaling>>

\* main_process_events: the new terminal before the old one is closed, so the
\* scaling stays.
Restart(v) ==
  /\ pc = "idle" /\ v \in open
  /\ \E f \in NewFb(DefaultFb) :
       LET init == FontInit(Font, f.scaling)
           size == <<f.size, init.scaling>>
       IN  /\ init.scaling # 0
           /\ SetFont(FontFree(init))
           /\ fb' = [fb EXCEPT ![v] = f]
           /\ grid' = [grid EXCEPT ![v] = size]
           /\ screen' = [screen EXCEPT ![v] = size] /\ pty' = [pty EXCEPT ![v] = size]
  /\ UNCHANGED <<monitor, open, fault, pc, todo, scaling>>

Forget(v) ==
  /\ open' = open \ {v}
  /\ fb' = [fb EXCEPT ![v] = DefaultFb]
  /\ grid' = [grid EXCEPT ![v] = NoSize]
  /\ screen' = [screen EXCEPT ![v] = NoSize] /\ pty' = [pty EXCEPT ![v] = NoSize]

\* The new terminal cannot be set up, and the old one is dropped.
RestartFails(v) ==
  /\ pc = "idle" /\ v \in open
  /\ CloseUnfinished
  /\ Forget(v)
  /\ UNCHANGED <<monitor, pc, todo, scaling>>

\* Wrong: its font reference is kept.
DestroyKeepsFont ==
  /\ pc = "idle" /\ 0 \in open
  /\ Forget(0)
  /\ UNCHANGED <<font_ref, font_scaling, glyphs, monitor, fault, pc, todo, scaling>>

\* term_destroy_splash_term, the one terminal closed while others stay.
DestroySplash ==
  /\ pc = "idle" /\ 0 \in open
  /\ Forget(0)
  /\ SetFont(FontFree(Font))
  /\ UNCHANGED <<monitor, fault, pc, todo, scaling>>
-----------------------------------------------------------------------------
\* The first step of term_zoom with scaling s.
Rescale(s) ==
  /\ pc = "idle"
  /\ pc' = "free" /\ todo' = open /\ scaling' = s
  /\ UNCHANGED <<monitor, open, fb, sizes, font_ref, font_scaling, glyphs, fault>>

\* Wrong: the scaling has no upper limit.
ZoomUnlimited(zoom_in) ==
  IF zoom_in THEN Rescale(font_scaling + 1)
  ELSE font_scaling > 1 /\ Rescale(font_scaling - 1)

\* term_zoom, by CTRL-ALT with + or -.
Zoom(zoom_in) ==
  IF zoom_in THEN font_scaling < MaxScale /\ Rescale(font_scaling + 1)
  ELSE font_scaling > 1 /\ Rescale(font_scaling - 1)

\* term_monitor_hotplug: drm_rescan returned true.
Hotplug(m) ==
  /\ pc = "idle"
  /\ monitor' = m
  /\ m = NoMonitor => monitor # NoMonitor
  /\ pc' = "free" /\ todo' = open /\ scaling' = 0
  /\ UNCHANGED <<open, fb, sizes, font_ref, font_scaling, glyphs, fault>>

\* Their first loop.  Bound: font_ref falls to -1 - Cardinality(Vts) at most.
FreeOne(v) ==
  /\ pc = "free" /\ First(v)
  /\ SetFont(FontFree(Font))
  /\ todo' = todo \ {v}
  /\ UNCHANGED <<monitor, open, fb, sizes, fault, pc, scaling>>

AllFreed ==
  /\ pc = "free" /\ todo = {}
  /\ pc' = "take" /\ todo' = open
  /\ UNCHANGED <<monitor, open, fb, sizes, font_ref, font_scaling, glyphs, fault, scaling>>

\* Wrong: term_resize before fb_buffer_init.
TakeBeforeBuffer(v, answer) ==
  /\ pc = "take" /\ First(v)
  /\ answer # "fits" => font_ref >= 0
  /\ fb' \in {[fb EXCEPT ![v] = f] : f \in IF scaling = 0 THEN NewFb(fb[v]) ELSE {fb[v]}}
  /\ Resize(v, fb[v], scaling, answer)
  /\ todo' = todo \ {v}
  /\ UNCHANGED <<monitor, open, pc, scaling>>

\* The second loop.  Only a hotplug makes new framebuffers.
TakeOne(v, answer) ==
  /\ pc = "take" /\ First(v)
  /\ answer # "fits" => font_ref >= 0
  /\ \E f \in IF scaling = 0 THEN NewFb(fb[v]) ELSE {fb[v]} :
       /\ fb' = [fb EXCEPT ![v] = f]
       /\ Resize(v, f, scaling, answer)
  /\ todo' = todo \ {v}
  /\ UNCHANGED <<monitor, open, pc, scaling>>

AllTaken ==
  /\ pc = "take" /\ todo = {}
  /\ pc' = "idle"
  /\ UNCHANGED <<monitor, open, fb, sizes, font_ref, font_scaling, glyphs, fault, todo, scaling>>
-----------------------------------------------------------------------------
Next ==
  \/ \E v \in Vts :
       \/ OpenTerm(v)
       \/ OpenFails(v)
       \/ Restart(v)
       \/ RestartFails(v)
       \/ FreeOne(v)
       \/ \E answer \in Answers : TakeOne(v, answer)
  \/ Crash
  \/ DestroySplash
  \/ \E zoom_in \in BOOLEAN : Zoom(zoom_in)
  \/ \E m \in Monitors \cup {NoMonitor} : Hotplug(m)
  \/ AllFreed
  \/ AllTaken

Spec == Init /\ [][Next]_vars
-----------------------------------------------------------------------------
\* The terminals that hold the font and may draw.
Drawing == IF pc = "free" THEN {} ELSE IF pc = "take" THEN open \ todo ELSE open

\* A scaling that is read is never 0, whatever failed: it is 0 only while the font
\* counts as held by nobody, before its first use or after references were given
\* back that were not held (see Crash).
TypeOK ==
  /\ monitor \in Monitors \cup {NoMonitor}
  /\ open \subseteq Vts /\ todo \subseteq Vts
  /\ fb \in [Vts -> [size : Nat, scaling : 1 .. MaxScale]]
  /\ \A s \in {grid, screen, pty} : s \in [Vts -> Nat \X (0 .. MaxScale)]
  /\ font_ref \in Int
  /\ font_scaling \in 0 .. MaxScale /\ (font_ref >= 1 => font_scaling >= 1)
  /\ glyphs \in {0} \cup 2 .. MaxScale
  /\ scaling \in 0 .. MaxScale
  /\ fault \in BOOLEAN
  /\ pc \in {"idle", "free", "take", "stopped"}

\* As long as no terminal failed to be set up (~fault), the font is held once per
\* terminal, less those a loop has passed: so a zoom and a hotplug find it unused,
\* and the new scaling is taken.  A terminal that fails breaks the count for good:
\* term_close calls font_free without font_init.
RefPerTerminal ==
  ~fault =>
    font_ref = Cardinality(IF pc = "free" THEN todo ELSE Drawing)

\* Whatever failed, there are glyphs in store exactly while the font counts as
\* held at a scaling above 1, and they are of the scaling they are read with.
GlyphsMatch ==
  glyphs = IF font_ref >= 1 /\ font_scaling > 1 THEN font_scaling ELSE 0

\* The shared font goes with the terminals that hold it: what is in store goes
\* with the count, and, as long as no terminal failed to be set up, the count
\* goes with the terminals that draw (font_init, font_free, term_zoom,
\* term_monitor_hotplug).  After such a failure the count is too low, and a
\* terminal may draw with a font that counts as unused: nothing is said of that.
FontShared == RefPerTerminal /\ GlyphsMatch

\* As long as no terminal failed to be set up (~fault; term_resize ends early, and
\* the count of RefPerTerminal is lost), a terminal that draws has told its screen
\* and its child the size it computes its borders from, and that size is of its
\* framebuffer at the current scaling: also after a zoom, a hotplug and a restart
\* in any order.
SizesAgree ==
  ~fault =>
    \A v \in Drawing :
      /\ grid[v] = <<fb[v].size, font_scaling>>
      /\ screen[v] = grid[v] /\ pty[v] = grid[v]
=============================================================================
