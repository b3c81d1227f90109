----------------------------- MODULE SplashProofs -----------------------------
(***************************************************************************)
(* The animation for every number of images, every interval and every way  *)
(* of looping: whichever images fail to load or to be drawn, an image is   *)
(* in memory only while it is worked on, is given its time, exists, and    *)
(* follows the one before it on the screen.                                *)
(***************************************************************************)
EXTENDS Splash, SequenceTheorems, TLAPS

Times == Durations \cup {25}
Image == [duration : Times, offset : Offsets]

SplashType ==
  [frames : Seq(Image), loop_start : LoopStarts \cup {-1}, loop_count : LoopCounts \cup {-1},
   loop_duration : Times, default_duration : Times, offset : Offsets, loop_offset : Offsets]

OptionsOK == splash \in SplashType /\ Len(splash.frames) <= MaxSplashImages

\* The rest of TypeOK.
RunOK ==
  /\ pc \in {"options", "load", "show", "events", "end", "over", "skipped"}
  /\ c \in 0 .. MaxPass
  /\ i \in 0 .. MaxSplashImages
  /\ status \in {"ok", "error"}
  /\ elapsed \in Int /\ elapsed >= -1
  /\ errors \in 0 .. MaxSplashImages
  /\ loaded \subseteq 0 .. MaxSplashImages
  /\ screen = <<>> \/ screen \in (0 .. MaxSplashImages) \X Offsets

Flagged == active \in BOOLEAN /\ dbus \in BOOLEAN

\* splash_run starts with the first pass and its first image, and nothing shown.
Fresh == pc = "options" => c = 0 /\ i = 0 /\ screen = <<>>

\* Nothing is in memory but the image in work, from its loading on.
Memory ==
  /\ loaded \subseteq {i}
  /\ pc \in {"options", "load", "over", "skipped"} => loaded = {}

IInv == OptionsOK /\ RunOK /\ Flagged /\ Fresh /\ Memory /\ InLoop /\ Paced

LEMMA Constants ==
  /\ MaxSplashImages \in Nat \ {0} /\ MaxPass \in Nat \ {0} /\ MaxLoad \in Nat
  /\ Times \subseteq Nat /\ LoopStarts \subseteq Int /\ LoopCounts \subseteq Int
BY ImagesAssumption, DurationsAssumption, LoopAssumption, BoundsAssumption DEF Times

\* What splash_run computes from the options.
LEMMA OptionFacts ==
  ASSUME OptionsOK
  PROVE  /\ NumImages \in 0 .. MaxSplashImages
         /\ splash.loop_start \in Int /\ splash.loop_count \in Int
         /\ splash.loop_duration \in Nat /\ splash.loop_offset \in Offsets
         /\ LoopStart \in Nat /\ LoopCount \in Int
         /\ \A k \in 1 .. NumImages :
              splash.frames[k].duration \in Nat /\ splash.frames[k].offset \in Offsets
<1>1. /\ splash.frames \in Seq(Image)
      /\ splash.loop_start \in LoopStarts \cup {-1} /\ splash.loop_count \in LoopCounts \cup {-1}
      /\ splash.loop_duration \in Times /\ splash.loop_offset \in Offsets
  BY DEF OptionsOK, SplashType
<1>2. NumImages \in 0 .. MaxSplashImages
  BY <1>1, Constants DEF OptionsOK, NumImages
<1>3. splash.loop_start \in Int /\ splash.loop_count \in Int /\ splash.loop_duration \in Nat
  <2>1. -1 \in Int
    OBVIOUS
  <2> QED
    BY <1>1, <2>1, Constants, Zenon
<1>4. LoopStart \in Nat /\ LoopCount \in Int
  BY <1>2, <1>3 DEF LoopStart, LoopCount, Looping
<1>5. ASSUME NEW k \in 1 .. NumImages
      PROVE  splash.frames[k].duration \in Nat /\ splash.frames[k].offset \in Offsets
  <2>1. splash.frames[k] \in Image
    BY <1>1, ElementOfSeq DEF NumImages
  <2> QED
    BY <2>1, Constants DEF Image
<1> QED
  BY <1>1, <1>2, <1>3, <1>4, <1>5

\* The time of an image that exists.
LEMMA DurationType ==
  ASSUME OptionsOK, i \in Nat, i < NumImages
  PROVE  Duration \in Nat
<1>1. i + 1 \in 1 .. NumImages
  BY OptionFacts
<1> QED
  BY <1>1, OptionFacts DEF Duration

LEMMA InitOK == Init => IInv
<1> SUFFICES ASSUME Init PROVE IInv
  OBVIOUS
<1>1. OptionsOK
  <2>1. <<>> \in Seq(Image) /\ Len(<<>>) = 0
    OBVIOUS
  <2> HIDE DEF Image
  <2>2. splash \in SplashType
    BY <2>1, OffsetsAssumption DEF Init, SplashType, Times
  <2>3. splash.frames = <<>>
    BY DEF Init
  <2> QED
    BY <2>1, <2>2, <2>3, Constants DEF OptionsOK
<1>2. RunOK /\ Fresh /\ Memory /\ InLoop /\ Paced
  BY Constants DEF Init, RunOK, Fresh, Memory, InLoop, Paced
<1>3. Flagged
  BY Zenon DEF Init, Flagged
<1> QED
  BY <1>1, <1>2, <1>3 DEF IInv

\* Options only change the options, and keep their types (splash_set_xxx,
\* splash_add_image).
LEMMA SetOK ==
  ASSUME NEW field \in {"default_duration", "loop_duration", "loop_start", "loop_count",
                        "offset", "loop_offset"},
         NEW value, Set(field, value), OptionsOK,
         field \in {"default_duration", "loop_duration"} => value \in Times,
         field = "loop_start" => value \in LoopStarts \cup {-1},
         field = "loop_count" => value \in LoopCounts \cup {-1},
         field \in {"offset", "loop_offset"} => value \in Offsets
  PROVE  OptionsOK'
<1>1. splash \in SplashType /\ splash' = [splash EXCEPT ![field] = value]
  BY DEF Set, OptionsOK
<1>2. splash' \in SplashType
  BY <1>1 DEF SplashType
<1>3. splash'.frames = splash.frames
  BY <1>1 DEF SplashType
<1> QED
  BY <1>2, <1>3 DEF OptionsOK

LEMMA AddImageOK ==
  ASSUME NEW d \in Times, NEW o \in Offsets, AddImage(d, o), OptionsOK
  PROVE  OptionsOK'
<1> DEFINE image == [duration |-> d, offset |-> o]
           frames == Append(splash.frames, image)
<1>1. splash \in SplashType /\ splash.frames \in Seq(Image) /\ image \in Image
  BY DEF OptionsOK, SplashType, Image
<1>2. frames \in Seq(Image) /\ Len(frames) = Len(splash.frames) + 1
  BY <1>1, AppendProperties
<1>3. splash' = [splash EXCEPT !.frames = frames] /\ Len(splash.frames) < MaxSplashImages
  BY DEF AddImage
<1> HIDE DEF frames
<1>4. splash' \in SplashType /\ splash'.frames = frames
  BY <1>1, <1>2, <1>3 DEF SplashType
<1>5. Len(splash.frames) \in Nat
  BY <1>1
<1> QED
  BY <1>2, <1>3, <1>4, <1>5, Constants DEF OptionsOK

LEMMA OptionStep == IInv /\ Options => IInv'
<1> SUFFICES ASSUME IInv, Options PROVE IInv'
  OBVIOUS
<1>0. OptionsOK /\ splash.offset \in Offsets /\ splash.default_duration \in Times
  BY DEF IInv, OptionsOK, SplashType
<1>1. OptionsOK'
  <2>1. ASSUME NEW d \in Durations, SetDefaultDuration(d) \/ SetLoopDuration(d)
                                    \/ AddImage(d, splash.offset)
        PROVE  OptionsOK'
    <3>1. d \in Times
      BY DEF Times
    <3> QED
      BY <1>0, <2>1, <3>1, SetOK, AddImageOK DEF SetDefaultDuration, SetLoopDuration
  <2>2. ASSUME NEW n \in LoopStarts, SetLoopStart(n) PROVE OptionsOK'
    BY <1>0, <2>2, SetOK DEF SetLoopStart
  <2>3. ASSUME NEW n \in LoopCounts, SetLoopCount(n) PROVE OptionsOK'
    BY <1>0, <2>3, SetOK DEF SetLoopCount
  <2>4. ASSUME NEW o \in Offsets, SetOffset(o) \/ SetLoopOffset(o)
                                  \/ AddImage(splash.default_duration, o)
        PROVE  OptionsOK'
    BY <1>0, <2>4, SetOK, AddImageOK DEF SetOffset, SetLoopOffset
  <2>5. ASSUME AddImage(splash.default_duration, splash.offset) PROVE OptionsOK'
    BY <1>0, <2>5, AddImageOK
  <2> QED
    BY <2>1, <2>2, <2>3, <2>4, <2>5 DEF Options
<1>2. pc = "options" /\ UNCHANGED <<pc, run>>
  BY DEF Options, SetDefaultDuration, SetLoopDuration, SetLoopStart, SetLoopCount, SetOffset,
         SetLoopOffset, Set, AddImage
<1>3. RunOK' /\ Fresh' /\ Memory' /\ Flagged'
  BY <1>2 DEF IInv, RunOK, Fresh, Memory, Flagged, run
<1>4. InLoop' /\ Paced'
  BY <1>2 DEF InLoop, Paced
<1> QED
  BY <1>1, <1>3, <1>4 DEF IInv

\* While splash_run is at work the options stay as they are.
LEMMA SameOptions ==
  ASSUME UNCHANGED splash
  PROVE  /\ UNCHANGED <<NumImages, LoopStart, LoopCount>>
         /\ OptionsOK => OptionsOK'
         /\ UNCHANGED i => UNCHANGED Duration
BY DEF NumImages, LoopStart, LoopCount, Looping, OptionsOK, Duration

LEMMA RunStep ==
  ASSUME IInv, NEW canShow \in BOOLEAN, NEW bootstat \in {"ok", "error"}, Run(canShow, bootstat)
  PROVE  IInv'
<1>1. /\ UNCHANGED <<splash, c, i, elapsed, errors, active, loaded, screen, dbus>>
      /\ pc = "options" /\ pc' \in {"load", "over", "skipped"} /\ status' \in {"ok", "error"}
  BY DEF Run, IInv, RunOK
<1>2. OptionsOK'
  BY <1>1, SameOptions DEF IInv
<1>3. RunOK'
  BY <1>1 DEF IInv, RunOK
<1>4. Flagged' /\ Fresh' /\ Memory'
  BY <1>1 DEF IInv, Flagged, Fresh, Memory
<1>5. Paced'
  BY <1>1 DEF Paced
<1>6. InLoop'
  <2>1. CASE pc' = "load"
    <3>1. NumImages > 0 /\ MorePasses(0)
      BY <1>1, <2>1 DEF Run
    <3>2. LoopCount # 0 /\ i = 0 /\ c = 0
      BY <1>1, <3>1, OptionFacts DEF MorePasses, IInv, Fresh
    <3>3. UNCHANGED <<NumImages, LoopStart, LoopCount>>
      BY <1>1, SameOptions
    <3> QED
      BY <1>1, <3>1, <3>2, <3>3 DEF InLoop
  <2>2. CASE pc' # "load"
    BY <1>1, <2>2 DEF InLoop
  <2> QED
    BY <2>1, <2>2
<1> QED
  BY <1>2, <1>3, <1>4, <1>5, <1>6 DEF IInv

\* An image in work keeps its place, whatever happens to it.
LEMMA InWork ==
  ASSUME IInv, pc \in {"load", "show", "events", "end"},
         pc' \in {"load", "show", "events", "end"}, UNCHANGED <<splash, c, i>>
  PROVE  /\ InLoop' /\ Fresh' /\ OptionsOK' /\ i \in Nat /\ i < NumImages
         /\ Duration \in Nat /\ UNCHANGED Duration
<1>1. UNCHANGED <<NumImages, LoopStart, LoopCount>> /\ OptionsOK' /\ UNCHANGED Duration
  BY SameOptions DEF IInv
<1>2. i \in Nat /\ i < NumImages
  BY DEF IInv, InLoop, RunOK
<1>3. Duration \in Nat
  BY <1>2, DurationType DEF IInv
<1>4. InLoop'
  BY <1>1 DEF IInv, InLoop
<1> QED
  BY <1>1, <1>2, <1>3, <1>4 DEF Fresh

LEMMA LoadStep ==
  ASSUME IInv, NEW ok \in BOOLEAN, NEW t \in 0 .. MaxLoad, NEW kept \in BOOLEAN, Load(ok, t, kept)
  PROVE  IInv'
<1>1. /\ pc = "load" /\ pc' \in {"show", "end"} /\ status' \in {"ok", "error"}
      /\ UNCHANGED <<splash, c, i, errors, active, screen, dbus>>
  BY DEF Load
<1>2. /\ InLoop' /\ Fresh' /\ OptionsOK' /\ i \in Nat /\ i < NumImages
      /\ Duration \in Nat /\ UNCHANGED Duration
  BY <1>1, InWork
<1>3. /\ elapsed \in Int
      /\ elapsed' = IF elapsed < 0 THEN -1 ELSE Longer(t, Duration)
  BY DEF Load, IInv, RunOK
<1>4. elapsed' \in Int /\ elapsed' >= -1 /\ (elapsed' >= 0 => elapsed' >= Duration)
  BY <1>2, <1>3, Constants DEF Longer
<1>5. loaded' \subseteq {i}
  BY DEF Load, IInv, Memory
<1>6. RunOK'
  BY <1>1, <1>4, <1>5 DEF IInv, RunOK
<1>7. Memory' /\ Flagged'
  BY <1>1, <1>5 DEF IInv, Memory, Flagged
<1>8. Paced'
  BY <1>2, <1>4 DEF Paced
<1> QED
  BY <1>2, <1>6, <1>7, <1>8 DEF IInv

\* Drawing and the round of events leave time and memory alone.
LEMMA WorkStep ==
  ASSUME IInv, pc \in {"show", "events"}, pc' \in {"events", "end"},
         UNCHANGED <<splash, c, i, elapsed, loaded, dbus>>, active' \in BOOLEAN,
         status' \in {"ok", "error"}, errors' \in 0 .. MaxSplashImages,
         screen' = <<>> \/ screen' \in (0 .. MaxSplashImages) \X Offsets
  PROVE  IInv'
<1>1. /\ InLoop' /\ Fresh' /\ OptionsOK' /\ UNCHANGED Duration
  BY InWork
<1>2. RunOK'
  BY DEF IInv, RunOK
<1>3. Flagged' /\ Memory' /\ Paced'
  BY <1>1 DEF IInv, Flagged, Memory, Paced
<1> QED
  BY <1>1, <1>2, <1>3 DEF IInv

LEMMA ShowStep == ASSUME IInv, NEW ok \in BOOLEAN, Show(ok) PROVE IInv'
<1>1. /\ pc = "show" /\ pc' \in {"events", "end"}
      /\ UNCHANGED <<splash, c, i, elapsed, loaded, dbus>>
      /\ status' \in {"ok", "error"}
  BY DEF Show, IInv, RunOK
<1>2. errors' \in 0 .. MaxSplashImages
  BY Constants DEF Show, IInv, RunOK
<1>3. active' \in BOOLEAN
  BY Zenon DEF Show, IInv, Flagged
<1>4. i < NumImages /\ i \in 0 .. MaxSplashImages
  BY <1>1 DEF IInv, InLoop, RunOK
<1>5. splash.loop_offset \in Offsets /\ splash.frames[i + 1].offset \in Offsets
  <2>1. i + 1 \in 1 .. NumImages
    BY <1>4, OptionFacts DEF IInv
  <2> QED
    BY <2>1, OptionFacts DEF IInv
<1>6. screen' = <<>> \/ screen' \in (0 .. MaxSplashImages) \X Offsets
  BY <1>4, <1>5 DEF Show, IInv, RunOK
<1> QED
  BY <1>1, <1>2, <1>3, <1>6, WorkStep

LEMMA EventsStep == ASSUME IInv, NEW ok \in BOOLEAN, Events(ok) PROVE IInv'
<1>1. active' \in BOOLEAN
  BY DEF Events, IInv, Flagged
<1> QED
  BY <1>1, WorkStep DEF Events, IInv, RunOK

\* Every path through the loop ends at img_error: the image is released and the
\* next exists.
LEMMA EndFrameStep == ASSUME IInv, EndFrame PROVE IInv'
<1>0. /\ pc = "end" /\ UNCHANGED <<splash, status, errors, active, screen>>
      /\ elapsed' = 0 /\ loaded' = {} /\ dbus' \in BOOLEAN
  <2>1. loaded' = {}
    BY DEF EndFrame, Release, IInv, Memory
  <2>2. dbus' \in BOOLEAN
    BY Zenon DEF EndFrame, IInv, Flagged
  <2> QED
    BY <2>1, <2>2 DEF EndFrame
<1>1. /\ i \in Nat /\ i < NumImages /\ c \in 0 .. MaxPass
      /\ c > 0 => i >= LoopStart
      /\ c > 0 \/ LoopCount # 0
  BY <1>0 DEF IInv, RunOK, InLoop
<1>2. NumImages \in 0 .. MaxSplashImages /\ LoopStart \in Nat /\ LoopCount \in Int
  BY OptionFacts DEF IInv
<1>3. UNCHANGED <<NumImages, LoopStart, LoopCount>> /\ OptionsOK'
  BY <1>0, SameOptions DEF IInv
<1>4. CASE i + 1 < NumImages /\ i' = i + 1 /\ pc' = "load" /\ UNCHANGED c
  <2>1. i' \in 0 .. MaxSplashImages /\ i' < NumImages /\ (c > 0 => i' >= LoopStart)
    <3>1. i' = i + 1 /\ i + 1 < NumImages
      BY <1>4
    <3>2. i' \in 0 .. MaxSplashImages /\ i' < NumImages
      BY <1>1, <1>2, <3>1, Constants
    <3>3. c > 0 => i' >= LoopStart
      BY <1>1, <1>2, <3>1
    <3> QED
      BY <3>2, <3>3
  <2>2. RunOK'
    BY <1>0, <1>1, <1>4, <2>1 DEF IInv, RunOK
  <2>3. InLoop' /\ Fresh' /\ Memory' /\ Paced'
    BY <1>0, <1>1, <1>3, <1>4, <2>1 DEF InLoop, Fresh, Memory, Paced
  <2>4. Flagged'
    BY <1>0 DEF IInv, Flagged
  <2> QED
    BY <1>3, <2>2, <2>3, <2>4 DEF IInv
<1>5. CASE NextPass
  <2>1. c' \in 0 .. MaxPass /\ c' > 0
    BY <1>1, <1>5, Constants DEF NextPass, Shorter
  <2>2. i' = LoopStart /\ pc' \in {"load", "over"} /\ (pc' = "load" => LoopStart < NumImages)
    BY <1>5 DEF NextPass
  <2>3. i' \in 0 .. MaxSplashImages
    <3>1. LoopStart = 0 \/ LoopStart < NumImages
      BY DEF LoopStart, Looping
    <3> QED
      BY <1>2, <2>2, <3>1, Constants
  <2>4. RunOK'
    BY <1>0, <2>1, <2>2, <2>3 DEF IInv, RunOK
  <2>5. InLoop' /\ Fresh' /\ Memory' /\ Paced'
    BY <1>0, <1>2, <1>3, <2>1, <2>2 DEF InLoop, Fresh, Memory, Paced
  <2>6. Flagged'
    BY <1>0 DEF IInv, Flagged
  <2> QED
    BY <1>3, <2>4, <2>5, <2>6 DEF IInv
<1> QED
  BY <1>4, <1>5 DEF EndFrame, Advance

LEMMA NextOK == IInv /\ [Next]_vars => IInv'
<1> SUFFICES ASSUME IInv, [Next]_vars PROVE IInv'
  OBVIOUS
<1>1. CASE Options
  BY <1>1, OptionStep
<1>2. CASE \E canShow \in BOOLEAN, bootstat \in {"ok", "error"} : Run(canShow, bootstat)
  BY <1>2, RunStep
<1>3. CASE Frame
  BY <1>3, LoadStep, ShowStep, EventsStep, EndFrameStep DEF Frame
<1>4. CASE UNCHANGED vars
  <2>1. UNCHANGED <<splash, pc, c, i, status, elapsed, errors, active, loaded, screen, dbus>>
    BY <1>4 DEF vars
  <2>2. OptionsOK' /\ RunOK' /\ Flagged' /\ Fresh' /\ Memory'
    BY <2>1 DEF IInv, OptionsOK, RunOK, Flagged, Fresh, Memory
  <2>3. UNCHANGED <<NumImages, LoopStart, LoopCount, Duration>>
    BY <2>1, SameOptions
  <2> QED
    BY <2>1, <2>2, <2>3 DEF IInv, InLoop, Paced
<1> QED
  BY <1>1, <1>2, <1>3, <1>4 DEF Next

LEMMA Invariant == Spec => []IInv
<1>1. Init => IInv
  BY InitOK
<1>2. IInv /\ [Next]_vars => IInv'
  BY NextOK
<1> QED
  BY <1>1, <1>2, PTL DEF Spec

\* Every variable keeps its type, for any number of images (splash_add_image
\* never goes beyond MAX_SPLASH_IMAGES).
THEOREM SplashTypeCorrect == Spec => []TypeOK
<1>1. IInv => TypeOK
  <2> SUFFICES ASSUME IInv PROVE TypeOK
    OBVIOUS
  <2>1. /\ splash.frames \in Seq([duration : Durations \cup {25}, offset : Offsets])
        /\ splash.loop_start \in LoopStarts \cup {-1}
        /\ splash.loop_count \in LoopCounts \cup {-1}
        /\ splash.loop_duration \in Durations \cup {25}
        /\ splash.default_duration \in Durations \cup {25}
        /\ splash.offset \in Offsets /\ splash.loop_offset \in Offsets
    BY DEF IInv, OptionsOK, SplashType, Image, Times
  <2>2. NumImages <= MaxSplashImages
    BY DEF IInv, OptionsOK, NumImages
  <2> QED
    BY <2>1, <2>2 DEF IInv, RunOK, Flagged, TypeOK
<1> QED
  BY <1>1, Invariant, PTL

\* No image is attempted before its interval is over, whatever fails
\* (splash_run).
THEOREM SplashPaced == Spec => []Paced
<1>1. IInv => Paced
  BY DEF IInv
<1> QED
  BY <1>1, Invariant, PTL

\* Only the image in work is in memory, on every path through the loop
\* (splash_run, image_release).
THEOREM SplashOneImage == Spec => []OneImageLoaded
<1>1. IInv => OneImageLoaded
  BY DEF IInv, Memory, OneImageLoaded
<1> QED
  BY <1>1, Invariant, PTL
-----------------------------------------------------------------------------
(* What appears on the screen.                                             *)

\* What is on the screen is the image in work or the one before it, or the pass
\* has just begun.  After MAX_SPLASH_IMAGES failures nothing is said.
Order ==
  \/ errors = MaxSplashImages \/ screen = <<>>
  \/ /\ pc \in {"load", "show"} => i \in {screen[1], screen[1] + 1, LoopStart}
     /\ pc = "events" \/ (pc = "end" /\ status = "ok") => i = screen[1]

LEMMA NextOrder == IInv /\ Order /\ [Next]_vars => Order'
<1> SUFFICES ASSUME IInv, Order, [Next]_vars PROVE Order'
  OBVIOUS
<1>0. OptionsOK /\ RunOK
  BY DEF IInv
<1>1. CASE Options
  <2>1. pc = "options" /\ UNCHANGED <<pc, run>>
    BY <1>1 DEF Options, SetDefaultDuration, SetLoopDuration, SetLoopStart, SetLoopCount,
                SetOffset, SetLoopOffset, Set, AddImage
  <2> QED
    BY <2>1 DEF Order, run
<1>2. ASSUME NEW canShow \in BOOLEAN, NEW bootstat \in {"ok", "error"}, Run(canShow, bootstat)
      PROVE  Order'
  <2>1. UNCHANGED <<splash, c, i, errors, screen>> /\ pc = "options" /\ pc' \in {"load", "over", "skipped"}
    BY <1>2 DEF Run
  <2>2. UNCHANGED LoopStart
    BY <2>1, SameOptions
  <2>3. i = 0 /\ LoopStart \in Nat
    BY <1>0, <2>1, OptionFacts DEF IInv, Fresh
  <2> QED
    BY <2>1, <2>2, <2>3 DEF Order, IInv, Fresh
<1>3. ASSUME NEW ok \in BOOLEAN, NEW t \in 0 .. MaxLoad, NEW kept \in BOOLEAN, Load(ok, t, kept)
      PROVE  Order'
  <2>1. /\ UNCHANGED <<splash, c, i, errors, screen>> /\ pc = "load"
        /\ pc' = "show" \/ (pc' = "end" /\ status' = "error")
    BY <1>3 DEF Load
  <2>2. UNCHANGED LoopStart
    BY <2>1, SameOptions
  <2> QED
    BY <2>1, <2>2 DEF Order
<1>4. ASSUME NEW ok \in BOOLEAN, Show(ok)
      PROVE  Order'
  <2>1. UNCHANGED <<splash, c, i>> /\ pc = "show"
    BY <1>4 DEF Show
  <2>2. CASE ok
    <3>1. screen'[1] = i /\ pc' = "events"
      BY <1>4, <2>2 DEF Show
    <3> QED
      BY <2>1, <3>1 DEF Order
  <2>3. CASE ~ok /\ errors < MaxSplashImages
    <3>1. pc' = "end" /\ status' = "error"
      BY <1>0, <1>4, <2>3, Constants DEF Show, RunOK
    <3> QED
      BY <3>1 DEF Order
  <2>4. CASE ~ok /\ errors >= MaxSplashImages
    <3>1. errors = MaxSplashImages /\ errors' = errors
      BY <1>0, <1>4, <2>4, Constants DEF Show, RunOK
    <3> QED
      BY <3>1 DEF Order
  <2> QED
    BY <1>0, <2>2, <2>3, <2>4, Constants DEF RunOK
<1>5. ASSUME NEW ok \in BOOLEAN, Events(ok)
      PROVE  Order'
  BY <1>5 DEF Order, Events
<1>6. CASE EndFrame
  <2>1. UNCHANGED <<splash, errors, screen>> /\ pc = "end" /\ Advance /\ UNCHANGED LoopStart
    BY <1>6, SameOptions DEF EndFrame
  <2>2. CASE status = "ok" /\ i + 1 < NumImages
    BY <2>1, <2>2 DEF Order, Advance
  <2>3. CASE NextPass
    BY <2>1, <2>3 DEF Order, NextPass
  <2> QED
    BY <2>1, <2>2, <2>3 DEF Advance
<1>7. CASE UNCHANGED vars
  <2>1. UNCHANGED <<splash, pc, i, status, errors, screen>>
    BY <1>7 DEF vars
  <2> QED
    BY <2>1, SameOptions DEF Order
<1> QED
  BY <1>1, <1>2, <1>3, <1>4, <1>5, <1>6, <1>7 DEF Next, Frame
\* The picture on the screen changes only to an image that follows it.
LEMMA NextShown ==
  IInv /\ Order /\ [Next]_vars =>
    [screen' # screen =>
       \/ screen = <<>> \/ errors = MaxSplashImages
       \/ screen'[1] = screen[1] \/ screen'[1] = screen[1] + 1
       \/ screen'[1] = LoopStart]_vars
<1> SUFFICES ASSUME Order, [Next]_vars, screen' # screen
             PROVE  \/ screen = <<>> \/ errors = MaxSplashImages
                    \/ screen'[1] = screen[1] \/ screen'[1] = screen[1] + 1
                    \/ screen'[1] = LoopStart
  OBVIOUS
<1>1. PICK ok \in BOOLEAN : Show(ok)
  BY DEF Next, Options, SetDefaultDuration, SetLoopDuration, SetLoopStart, SetLoopCount,
         SetOffset, SetLoopOffset, Set, AddImage, Run, Frame, Load, Events, EndFrame, run, vars
<1>2. pc = "show" /\ screen'[1] = i
  BY <1>1 DEF Show
<1> QED
  BY <1>2 DEF Order

\* Every image attempted exists and belongs to the loop, and on the screen none
\* is left out in the middle, for every command line and whatever fails
\* (splash_run).
THEOREM SplashInOrder == Spec => FramesInOrder
<1>1. Init => Order
  BY DEF Init, Order
<1>2. IInv /\ Order /\ [Next]_vars => Order'
  BY NextOrder
<1>3. IInv => InLoop
  BY DEF IInv
<1> QED
  BY <1>1, <1>2, <1>3, NextShown, Invariant, PTL DEF Spec, FramesInOrder
=============================================================================
