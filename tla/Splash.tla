-------------------------------- MODULE Splash --------------------------------
(***************************************************************************)
(* The boot animation of splash.c: the command line that builds it         *)
(* (splash_add_image, splash_set_xxx as main calls them, in the order of   *)
(* the options) and splash_run, which loads, paces and shows the images,   *)
(* loops over the last of them and lets the event loop run after each.     *)
(*                                                                         *)
(* Time is the milliseconds since the last image was attempted.  What the  *)
(* event loop does meanwhile is in VtSwitch; here it only succeeds or not. *)
(***************************************************************************)
EXTENDS Integers, Sequences

CONSTANTS
  MaxSplashImages,  \* MAX_SPLASH_IMAGES
  Durations,        \* frame intervals an option can give
  Offsets,          \* image offsets an option can give, NoOffset among them
  NoOffset,
  LoopStarts,       \* values of --loop-start
  LoopCounts,       \* values of --loop-count
  MaxLoad,          \* bound: milliseconds to draw one image and load the next
  MaxPass           \* bound: passes told apart

ASSUME ImagesAssumption == MaxSplashImages \in Nat \ {0}
ASSUME DurationsAssumption == Durations \subseteq Nat /\ Durations # {}
ASSUME OffsetsAssumption == NoOffset \in Offsets
ASSUME LoopAssumption == LoopStarts \subseteq Int /\ LoopCounts \subseteq Int
ASSUME BoundsAssumption ==
  /\ MaxLoad \in Nat /\ MaxPass \in Nat \ {0}
  /\ \A n \in LoopCounts : n <= MaxPass

VARIABLES
  splash,   \* the options: frames, loop_start, loop_count, durations and offsets
  pc,       \* where splash_run is
  c,        \* the pass
  i,        \* the image, counted from 0
  status,   \* whether the last call succeeded
  elapsed,  \* time since last_show_ms; -1 while that is unset
  errors,   \* ec_ts, the failures of term_show_image logged so far
  active,   \* term_activate has set the video mode
  loaded,   \* images whose pixels are in memory
  screen,   \* the image and offset last drawn, <<>> while there is none
  dbus      \* dbus_is_initialized

vars == <<splash, pc, c, i, status, elapsed, errors, active, loaded, screen, dbus>>
run == <<c, i, status, elapsed, errors, active, loaded, screen, dbus>>

Longer(m, n) == IF m > n THEN m ELSE n
Shorter(m, n) == IF m < n THEN m ELSE n
-----------------------------------------------------------------------------
\* Options, in the order of the command line.

Init ==
  /\ splash = [frames |-> <<>>, loop_start |-> -1, loop_count |-> -1,
               loop_duration |-> 25, default_duration |-> 25,
               offset |-> NoOffset, loop_offset |-> NoOffset]
  /\ pc = "options"
  /\ c = 0 /\ i = 0 /\ status = "ok" /\ elapsed = -1 /\ errors = 0
  /\ active = FALSE /\ loaded = {} /\ screen = <<>>
  /\ dbus = FALSE

Set(field, value) ==
  /\ pc = "options"
  /\ splash' = [splash EXCEPT ![field] = value]
  /\ UNCHANGED <<pc, run>>

SetDefaultDuration(d) == Set("default_duration", d)
SetLoopDuration(d) == Set("loop_duration", d)
SetLoopStart(n) == Set("loop_start", n)
SetLoopCount(n) == Set("loop_count", n)
SetOffset(o) == Set("offset", o)
SetLoopOffset(o) == Set("loop_offset", o)

\* Wrong: more images than the array holds.
AddImageUnbounded(d, o) ==
  /\ pc = "options"
  /\ splash' = [splash EXCEPT !.frames = Append(@, [duration |-> d, offset |-> o])]
  /\ UNCHANGED <<pc, run>>

\* splash_add_image: an image takes the defaults set so far; one too many is
\* dropped.
AddImage(d, o) ==
  /\ pc = "options"
  /\ Len(splash.frames) < MaxSplashImages
  /\ splash' = [splash EXCEPT !.frames = Append(@, [duration |-> d, offset |-> o])]
  /\ UNCHANGED <<pc, run>>

Options ==
  \/ \E d \in Durations :
       SetDefaultDuration(d) \/ SetLoopDuration(d) \/ AddImage(d, splash.offset)
  \/ \E n \in LoopStarts : SetLoopStart(n)
  \/ \E n \in LoopCounts : SetLoopCount(n)
  \/ \E o \in Offsets :
       SetOffset(o) \/ SetLoopOffset(o) \/ AddImage(splash.default_duration, o)
  \/ AddImage(splash.default_duration, splash.offset)
-----------------------------------------------------------------------------
NumImages == Len(splash.frames)
Looping == splash.loop_start >= 0 /\ splash.loop_start < NumImages
LoopCount == IF Looping THEN splash.loop_count ELSE 1
LoopStart == IF Looping THEN splash.loop_start ELSE 0

MorePasses(n) == LoopCount < 0 \/ n < LoopCount

\* What an image waits for before it is shown.
Duration ==
  IF splash.loop_start >= 0 /\ i >= splash.loop_start THEN splash.loop_duration
  ELSE splash.frames[i + 1].duration

\* main runs the animation when there is a display and an image, splash_run
\* when there is a splash terminal; it begins with the status of bootstat.
Run(canShow, bootstat) ==
  /\ pc = "options"
  /\ \/ /\ canShow /\ NumImages > 0
        /\ status' = bootstat
        /\ pc' = IF MorePasses(0) THEN "load" ELSE "over"
     \/ /\ ~canShow \/ NumImages = 0
        /\ pc' = "skipped"
        /\ UNCHANGED status
  /\ UNCHANGED <<splash, c, i, elapsed, errors, active, loaded, screen, dbus>>

\* Wrong: an image that does not load is not waited for.
LoadUnpaced(ok, t, kept) ==
  /\ pc = "load"
  /\ (i \in loaded) => ~ok
  /\ loaded' = IF ok \/ kept THEN loaded \cup {i} ELSE loaded
  /\ status' = IF ok THEN "ok" ELSE "error"
  /\ pc' = IF ok THEN "show" ELSE "end"
  /\ elapsed' = IF elapsed < 0 THEN -1 ELSE IF ok THEN Longer(t, Duration) ELSE t
  /\ UNCHANGED <<splash, c, i, errors, active, screen, dbus>>

\* Read the file, then wait out the rest of the interval, also when it could
\* not be read.  A file that breaks off leaves its pixels allocated ("kept");
\* an image that was not released cannot be loaded again.
Load(ok, t, kept) ==
  /\ pc = "load"
  /\ (i \in loaded) => ~ok
  /\ loaded' = IF ok \/ kept THEN loaded \cup {i} ELSE loaded
  /\ status' = IF ok THEN "ok" ELSE "error"
  /\ pc' = IF ok THEN "show" ELSE "end"
  /\ elapsed' = IF elapsed < 0 THEN -1 ELSE Longer(t, Duration)
  /\ UNCHANGED <<splash, c, i, errors, active, screen, dbus>>

\* Draw, at the offset of the loop for every image not before its start; the
\* first image that gets past the check sets the video mode.
Show(ok) ==
  /\ pc = "show"
  /\ screen' = IF ~ok THEN screen
               ELSE <<i, IF i >= splash.loop_start THEN splash.loop_offset
                         ELSE splash.frames[i + 1].offset>>
  /\ \/ /\ ~ok /\ errors < MaxSplashImages
        /\ status' = "error" /\ errors' = errors + 1
        /\ pc' = "end"
        /\ UNCHANGED active
     \/ /\ ok \/ errors >= MaxSplashImages
        /\ active' = TRUE
        /\ pc' = "events"
        /\ UNCHANGED <<status, errors>>
  /\ UNCHANGED <<splash, c, i, elapsed, loaded, dbus>>

Events(ok) ==
  /\ pc = "events"
  /\ status' = IF ok THEN "ok" ELSE "error"
  /\ pc' = "end"
  /\ UNCHANGED <<splash, c, i, elapsed, errors, active, loaded, screen, dbus>>

\* Wrong: a pass that failed does not count.
NextPassRetries ==
  /\ c' = IF status = "error" THEN c ELSE Shorter(c + 1, MaxPass)
  /\ i' = LoopStart
  /\ pc' = IF MorePasses(c') /\ LoopStart < NumImages THEN "load" ELSE "over"

\* The pass that follows, if any.
NextPass ==
  /\ c' = Shorter(c + 1, MaxPass)
  /\ i' = LoopStart
  /\ pc' = IF MorePasses(c') /\ LoopStart < NumImages THEN "load" ELSE "over"

\* Wrong: an image that failed is skipped and the pass goes on.
AdvanceAnyway ==
  IF i + 1 < NumImages THEN i' = i + 1 /\ pc' = "load" /\ UNCHANGED c ELSE NextPass

\* An error ends the pass, not the animation.
Advance ==
  IF status = "ok" /\ i + 1 < NumImages
  THEN i' = i + 1 /\ pc' = "load" /\ UNCHANGED c
  ELSE NextPass

\* Wrong: an image that failed keeps its pixels.
ReleaseShown == IF status = "ok" THEN loaded \ {i} ELSE loaded

\* image_release.
Release == loaded \ {i}

\* img_error, where every image ends up.
EndFrame ==
  /\ pc = "end"
  /\ elapsed' = 0
  /\ loaded' = Release
  /\ \/ dbus' = TRUE
     \/ UNCHANGED dbus
  /\ Advance
  /\ UNCHANGED <<splash, status, errors, active, screen>>

Frame ==
  \/ \E ok, kept \in BOOLEAN, t \in 0 .. MaxLoad : Load(ok, t, kept)
  \/ \E ok \in BOOLEAN : Show(ok) \/ Events(ok)
  \/ EndFrame

Next ==
  \/ Options
  \/ \E canShow \in BOOLEAN, bootstat \in {"ok", "error"} : Run(canShow, bootstat)
  \/ Frame

Spec == Init /\ [][Next]_vars

\* Reading a file, sleeping, drawing and one round of the event loop (which has
\* a timeout of one microsecond) all return.
LiveSpec == Spec /\ WF_vars(Frame)
-----------------------------------------------------------------------------
TypeOK ==
  /\ splash.frames \in Seq([duration : Durations \cup {25}, offset : Offsets])
  /\ NumImages <= MaxSplashImages
  /\ splash.loop_start \in LoopStarts \cup {-1}
  /\ splash.loop_count \in LoopCounts \cup {-1}
  /\ splash.loop_duration \in Durations \cup {25}
  /\ splash.default_duration \in Durations \cup {25}
  /\ splash.offset \in Offsets /\ splash.loop_offset \in Offsets
  /\ pc \in {"options", "load", "show", "events", "end", "over", "skipped"}
  /\ c \in 0 .. MaxPass
  /\ i \in 0 .. MaxSplashImages
  /\ status \in {"ok", "error"}
  /\ elapsed \in Int /\ elapsed >= -1
  /\ errors \in 0 .. MaxSplashImages
  /\ active \in BOOLEAN /\ dbus \in BOOLEAN
  /\ loaded \subseteq 0 .. MaxSplashImages
  /\ screen = <<>> \/ screen \in (0 .. MaxSplashImages) \X Offsets

\* Whatever fails, an image is not attempted before its interval is over: a
\* missing file must not make splash_run monopolise the processor.
Paced ==
  pc \in {"show", "events", "end"} /\ elapsed >= 0 => elapsed >= Duration

\* Only the image in work is in memory, on every path through the loop; one
\* left over could never be shown again (EADDRINUSE).
OneImageLoaded ==
  /\ loaded \subseteq {i}
  /\ pc = "load" => i \notin loaded
  /\ pc \in {"over", "skipped"} => loaded = {}

\* After the first pass splash_run stays between --loop-start and the last
\* image, and every image it attempts exists.
InLoop ==
  pc \in {"load", "show", "events", "end"} =>
    i < NumImages /\ (c > 0 => i >= LoopStart) /\ (c > 0 \/ LoopCount # 0)

\* Every image splash_run attempts exists and, after the first pass, belongs to
\* the loop; and none is left out in the middle: what appears on the screen is
\* the next image, or the pass began anew, at the first image or at the start
\* of the loop.  Once MAX_SPLASH_IMAGES failures were logged a failure no longer
\* ends the pass (splash.c:197), and the order no longer holds.
FramesInOrder ==
  /\ []InLoop
  /\ [][screen' # screen =>
          \/ screen = <<>> \/ errors = MaxSplashImages
          \/ screen'[1] = screen[1] \/ screen'[1] = screen[1] + 1
          \/ screen'[1] = LoopStart]_vars

Finishes == (pc = "load" /\ LoopCount > 0) ~> (pc = "over")

KeepsAnimating ==
  [](pc \notin {"options", "skipped"} /\ LoopCount < 0 => []<>(pc = "load"))

\* An animation with a positive number of passes ends, and one with a negative
\* number goes on for ever, whichever images fail and however often.  The number
\* 0 is RepeatsForever's.
PlaysItsPasses == Finishes /\ KeepsAnimating

\* "Specify number of splash animation loop repetitions.  Default of 0 repeats
\* forever." (README.md:45): a looping animation whose count is 0 does not come
\* to an end.  The default is -1 (splash_init), and the loop of splash_run ends
\* with a count of 0 before its first image.
RepeatsForever == pc = "over" => ~(Looping /\ splash.loop_count = 0)
=============================================================================
