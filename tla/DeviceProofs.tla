---------------------------- MODULE DeviceProofs ----------------------------
(***************************************************************************)
(* The two lists that follow what udev tells: the display and the          *)
(* keyboards.                                                              *)
(*                                                                         *)
(* What frecon draws on and what it draws, for any machine and a screen of *)
(* any size turned any way.  drm_scan's loop finds the best display; the   *)
(* matrices of fb_stepper_init turn the picture, nothing is written        *)
(* outside the framebuffer whatever is asked for, and what does not        *)
(* overflow an int appears exactly where it is on the screen.              *)
(*                                                                         *)
(* For any number of keyboards and modifiers: the list of devices holds    *)
(* those that are there, and while there is one and nothing was lost, a    *)
(* key is judged with the modifiers that were down when it was pressed.    *)
(***************************************************************************)
EXTENDS Display, Input, FiniteSetTheorems, SequenceTheorems, WellFoundedInduction, TLAPS

-----------------------------------------------------------------------------
(* The choice of the display.                                              *)

\* A set of numbers has a least one.
LEMMA LeastOf ==
  ASSUME NEW T, T \subseteq Nat, T # {}
  PROVE  \E n \in T : \A m \in T : n <= m
<1>1. PICK n \in T : \A m \in T : <<m, n>> \notin OpToRel(<, Nat)
  BY WFMin, NatLessThanWellFounded, Zenon
<1>2. ASSUME NEW m \in T PROVE n <= m
  <2>1. ~(m < n)
    <3>1. m \in Nat /\ n \in Nat
      OBVIOUS
    <3>2. <<m, n>> \in Nat \X Nat /\ <<m, n>>[1] = m /\ <<m, n>>[2] = n
      BY <3>1
    <3> QED
      BY <1>1, <3>2 DEF OpToRel
  <2> QED
    BY <2>1
<1> QED
  BY <1>2

\* Induction over the numbers up to a bound, for a set.
LEMMA UpTo ==
  ASSUME NEW N \in Nat, NEW T, 0 \in T, \A n \in 1 .. N : n - 1 \in T => n \in T
  PROVE  0 .. N \subseteq T
<1> DEFINE Rest == {n \in 0 .. N : n \notin T}
<1> SUFFICES ASSUME Rest # {} PROVE FALSE
  OBVIOUS
<1>1. PICK n \in Rest : \A m \in Rest : n <= m
  <2>1. Rest \subseteq Nat
    OBVIOUS
  <2> HIDE DEF Rest
  <2> QED
    BY <2>1, LeastOf
<1>2. n \in 1 .. N /\ n - 1 \in 0 .. N /\ ~(n <= n - 1)
  OBVIOUS
<1>3. n - 1 \in T
  BY <1>1, <1>2
<1> QED
  BY <1>2, <1>3

LEMMA MainConnectorType ==
  ASSUME NEW device \in DeviceType, NEW lidClosed \in BOOLEAN
  PROVE  MainConnector(device, lidClosed) \in {None} \cup DOMAIN device.connectors
<1>1. ASSUME NEW internal \in BOOLEAN
      PROVE  FirstConnected(device, internal) \in {None} \cup DOMAIN device.connectors
  <2> DEFINE connected == {k \in DOMAIN device.connectors :
                         /\ device.connectors[k].internal = internal
                         /\ device.connectors[k].connected}
  <2>1. connected \subseteq Nat
    BY DEF DeviceType
  <2>2. connected # {} => \E k \in connected : \A j \in connected : k <= j
    <3> HIDE DEF connected
    <3> QED
      BY <2>1, LeastOf
  <2>3. FirstConnected(device, internal) =
          IF connected = {} THEN None ELSE CHOOSE k \in connected : \A j \in connected : k <= j
    BY DEF FirstConnected
  <2>4. FirstConnected(device, internal) \in {None} \cup connected
    <3> HIDE DEF connected
    <3> QED
      BY <2>2, <2>3
  <2> QED
    BY <2>4
<1> QED
  BY <1>1 DEF MainConnector

\* f is the loop of KeepBest up to n.
BestLoop(C, s, f, n) ==
  f = [m \in 0 .. n |->
         IF m = 0 THEN None
         ELSE IF m \in C /\ (f[m - 1] # None => s[m] > s[f[m - 1]]) THEN m ELSE f[m - 1]]

LEMMA LoopExists ==
  ASSUME NEW C, NEW s, NEW N \in Nat
  PROVE  \E f : BestLoop(C, s, f, N)
<1> DEFINE Takes(m, b) == m \in C /\ (b # None => s[m] > s[b])
           T == {n \in 0 .. N : \E f : BestLoop(C, s, f, n)}
<1>1. 0 \in T
  <2>1. BestLoop(C, s, [m \in 0 .. 0 |-> None], 0)
    BY DEF BestLoop
  <2> QED
    BY <2>1
<1>2. ASSUME NEW n \in 1 .. N, n - 1 \in T PROVE n \in T
  <2>1. PICK f : BestLoop(C, s, f, n - 1)
    BY <1>2
  <2> DEFINE g == [m \in 0 .. n |->
                     IF m < n THEN f[m] ELSE IF Takes(n, f[n - 1]) THEN n ELSE f[n - 1]]
  <2>2. ASSUME NEW m \in 0 .. n
        PROVE  g[m] = IF m = 0 THEN None
                      ELSE IF Takes(m, g[m - 1]) THEN m ELSE g[m - 1]
    <3> HIDE DEF Takes
    <3>1. CASE m = n
      BY <3>1
    <3>2. CASE m < n
      <4>1. m \in 0 .. n - 1 /\ g[m] = f[m] /\ (m # 0 => g[m - 1] = f[m - 1])
        BY <3>2
      <4>2. f[m] = IF m = 0 THEN None
                   ELSE IF Takes(m, f[m - 1]) THEN m ELSE f[m - 1]
        BY <2>1, <4>1 DEF BestLoop, Takes
      <4> QED
        BY <4>1, <4>2
    <3> QED
      BY <3>1, <3>2
  <2>3. g = [m \in 0 .. n |-> g[m]]
    OBVIOUS
  <2> HIDE DEF g
  <2>4. BestLoop(C, s, g, n)
    BY <2>2, <2>3 DEF BestLoop
  <2> QED
    BY <2>4
<1>3. 0 .. N \subseteq T
  <2> HIDE DEF T
  <2> QED
    BY <1>1, <1>2, UpTo
<1> QED
  BY <1>3

\* m has the highest score in S and is the first that has it.
FirstBest(S, s, m) == \A n \in S : s[n] < s[m] \/ (s[n] = s[m] /\ m <= n)

LEMMA FirstBestUnique ==
  ASSUME NEW S, S \subseteq Nat, NEW s, \A m \in S : s[m] \in Int,
         NEW m \in S, NEW n \in S, FirstBest(S, s, m), FirstBest(S, s, n)
  PROVE  m = n
BY DEF FirstBest

\* The loop keeps the first of the best candidates.
LEMMA KeepBestFindsFirst ==
  ASSUME NEW N \in Nat, NEW C, NEW s, \A m \in C \cap 1 .. N : s[m] \in Int
  PROVE  IF C \cap 1 .. N = {} THEN KeepBest(C, s, N) = None
         ELSE /\ KeepBest(C, s, N) \in C \cap 1 .. N
              /\ FirstBest(C \cap 1 .. N, s, KeepBest(C, s, N))
<1> DEFINE f == CHOOSE g : BestLoop(C, s, g, N)
           Seen(i) == C \cap 1 .. i
           Fine(i) == IF Seen(i) = {} THEN f[i] = None
                      ELSE f[i] \in Seen(i) /\ FirstBest(Seen(i), s, f[i])
           T == {i \in 0 .. N : Fine(i)}
<1>0. KeepBest(C, s, N) = f[N]
  BY DEF KeepBest, BestLoop
<1>1. BestLoop(C, s, f, N)
  BY LoopExists
<1> HIDE DEF f
<1>2. /\ f[0] = None
      /\ \A i \in 1 .. N : f[i] = IF i \in C /\ (f[i - 1] # None => s[i] > s[f[i - 1]])
                                  THEN i ELSE f[i - 1]
  <2>1. \A i \in 0 .. N : f[i] = IF i = 0 THEN None
                                 ELSE IF i \in C /\ (f[i - 1] # None => s[i] > s[f[i - 1]])
                                 THEN i ELSE f[i - 1]
    BY <1>1 DEF BestLoop
  <2> QED
    BY <2>1
<1>3. 0 \in T
  BY <1>2
<1>4. ASSUME NEW i \in 1 .. N, i - 1 \in T PROVE i \in T
  <2> DEFINE before == Seen(i - 1)
             after == Seen(i)
             b == f[i - 1]
  <2>1. /\ before \subseteq 1 .. i - 1 /\ after \subseteq 1 .. i
        /\ after = before \cup ({i} \cap C)
    OBVIOUS
  <2>2. /\ before = {} => b = None
        /\ before # {} => b \in before /\ b # None /\ FirstBest(before, s, b)
    BY <1>4, <2>1 DEF None
  <2>3. f[i] = IF i \in C /\ (b # None => s[i] > s[b]) THEN i ELSE b
    BY <1>2
  <2>4. \A m \in after : s[m] \in Int
    OBVIOUS
  <2>5. Fine(i) <=> IF after = {} THEN f[i] = None ELSE f[i] \in after /\ FirstBest(after, s, f[i])
    OBVIOUS
  <2> HIDE DEF before, after, b, Fine
  <2>6. CASE i \notin C
    <3>1. f[i] = b /\ after = before
      BY <2>1, <2>3, <2>6
    <3> QED
      BY <2>2, <2>5, <3>1
  <2>7. CASE i \in C /\ before = {}
    <3>1. f[i] = i /\ after = {i}
      BY <2>1, <2>2, <2>3, <2>7
    <3>2. FirstBest(after, s, i)
      BY <3>1 DEF FirstBest
    <3> QED
      BY <2>5, <3>1, <3>2
  <2>8. CASE i \in C /\ before # {}
    <3>1. b \in before /\ b # None /\ FirstBest(before, s, b) /\ after = before \cup {i}
          /\ b \in 1 .. i - 1 /\ s[b] \in Int /\ s[i] \in Int
      BY <2>1, <2>2, <2>4, <2>8
    <3>2. CASE s[i] > s[b]
      <4>1. f[i] = i
        BY <2>3, <2>8, <3>2
      <4>2. ASSUME NEW m \in after PROVE s[m] < s[i] \/ (s[m] = s[i] /\ i <= m)
        <5>1. CASE m = i
          BY <5>1, <2>4
        <5>2. CASE m \in before
          <6>1. s[m] <= s[b] /\ s[m] \in Int
            BY <2>4, <3>1, <5>2 DEF FirstBest
          <6> QED
            BY <3>1, <3>2, <6>1
        <5> QED
          BY <3>1, <5>1, <5>2
      <4> QED
        BY <2>5, <3>1, <4>1, <4>2 DEF FirstBest
    <3>3. CASE ~(s[i] > s[b])
      <4>1. f[i] = b
        BY <2>3, <3>1, <3>3
      <4>2. s[i] < s[b] \/ (s[i] = s[b] /\ b <= i)
        BY <3>1, <3>3
      <4> QED
        BY <2>5, <3>1, <4>1, <4>2 DEF FirstBest
    <3> QED
      BY <3>2, <3>3
  <2>9. Fine(i)
    BY <2>6, <2>7, <2>8
  <2> QED
    BY <2>9
<1>5. Fine(N)
  <2> HIDE DEF T
  <2>1. 0 .. N \subseteq T
    BY <1>3, <1>4, UpTo
  <2>2. N \in T
    BY <2>1
  <2> QED
    BY <2>2 DEF T
<1> QED
  BY <1>0, <1>5

LEMMA ScoreType == ASSUME NEW device, NEW l PROVE Score(device, l) \in Int
<1> DEFINE penalty == CASE device.driver \in {"udl", "evdi"} -> 1
                        [] device.driver = "vgem" -> 1000000
                        [] OTHER -> 0
           bonus == IF device.connectors[MainConnector(device, l)].internal THEN 1 ELSE 0
<1>1. penalty \in Int /\ bonus \in Int
  OBVIOUS
<1>2. Score(device, l) = bonus - penalty
  BY DEF Score
<1> HIDE DEF penalty, bonus
<1> QED
  BY <1>1, <1>2

\* The loop of drm_scan finds the first of the best displays, as its comment
\* promises, for any number of devices.
THEOREM ScanFindsBest ==
  ASSUME NEW ds \in Seq(DeviceType), NEW l \in BOOLEAN
  PROVE  /\ Scan(ds, l) = BestMinor(ds, l)
         /\ Scan(ds, l) # None => Scan(ds, l) \in DOMAIN ds /\ Usable(ds[Scan(ds, l)], l)
<1> DEFINE usable == {m \in DOMAIN ds : Usable(ds[m], l)}
           score == [m \in usable |-> Score(ds[m], l)]
           Good(m) ==
             \A n \in usable : \/ Score(ds[n], l) < Score(ds[m], l)
                               \/ Score(ds[n], l) = Score(ds[m], l) /\ m <= n
           best == Scan(ds, l)
<1>1. /\ DOMAIN ds = 1 .. Len(ds) /\ Len(ds) \in Nat
      /\ usable \cap 1 .. Len(ds) = usable /\ usable \subseteq Nat
  OBVIOUS
<1>2. \A m \in usable : score[m] = Score(ds[m], l) /\ score[m] \in Int
  BY ScoreType
<1>3. best = KeepBest(usable, score, Len(ds))
  BY DEF Scan
<1>4. /\ BestMinor(ds, l) = IF usable = {} THEN None ELSE CHOOSE m \in usable : Good(m)
      /\ \A m \in usable : Good(m) <=> FirstBest(usable, score, m)
  <2>1. BestMinor(ds, l) = IF usable = {} THEN None ELSE CHOOSE m \in usable : Good(m)
    BY DEF BestMinor
  <2>2. \A m \in usable : Good(m) <=> FirstBest(usable, score, m)
    <3> HIDE DEF usable
    <3> QED
      BY <1>2 DEF FirstBest
  <2> QED
    BY <2>1, <2>2
<1>5. best # None => best \in usable
  <2> HIDE DEF usable, score
  <2> QED
    BY <1>1, <1>2, <1>3, KeepBestFindsFirst
<1>6. best # None => best \in DOMAIN ds /\ Usable(ds[best], l)
  BY <1>5
<1>7. best = BestMinor(ds, l)
  <2> HIDE DEF usable, score, best, Good
  <2>1. IF usable = {} THEN best = None ELSE best \in usable /\ FirstBest(usable, score, best)
    BY <1>1, <1>2, <1>3, KeepBestFindsFirst
  <2>2. \A m, n \in usable : FirstBest(usable, score, m) /\ FirstBest(usable, score, n) => m = n
    BY <1>1, <1>2, FirstBestUnique
  <2> QED
    BY <1>4, <2>1, <2>2
<1> QED
  BY <1>6, <1>7

\* The crtcs of a device that the e-th encoder of a connector can use.
UsableCrtcs(device, k, e) == device.connectors[k].encoders[e] \cap DOMAIN device.planes

\* find_crtc_for_connector returns a crtc whenever an encoder of the connector
\* can use one, and then the one with the most planes, the first of several,
\* among those of the first such encoder.
THEOREM CrtcHasMostPlanes ==
  ASSUME NEW device \in DeviceType, NEW k \in DOMAIN device.connectors
  PROVE  LET able == {e \in DOMAIN device.connectors[k].encoders : UsableCrtcs(device, k, e) # {}}
             c == CrtcFor(device, k)
         IN  /\ c = None <=> able = {}
             /\ \A e \in able :
                  (\A f \in able : e <= f) =>
                     /\ c \in UsableCrtcs(device, k, e)
                     /\ FirstBest(UsableCrtcs(device, k, e), device.planes, c)
<1> DEFINE encoders == device.connectors[k].encoders
           N == Len(device.planes)
           best(e) == KeepBest(encoders[e], device.planes, N)
           able == {e \in DOMAIN encoders : UsableCrtcs(device, k, e) # {}}
<1>1. /\ DOMAIN device.planes = 1 .. N /\ N \in Nat
      /\ \A m \in 1 .. N : device.planes[m] \in Int
  BY DEF DeviceType
<1>2. DOMAIN encoders \subseteq Nat
  <2>1. device.connectors \in Seq(ConnectorType)
    BY DEF DeviceType
  <2>2. device.connectors[k] \in ConnectorType
    BY <2>1
  <2>3. encoders \in Seq(SUBSET Nat)
    BY <2>2 DEF ConnectorType
  <2> HIDE DEF encoders
  <2> QED
    BY <2>3
<1>3. ASSUME NEW e \in DOMAIN encoders
      PROVE  /\ best(e) # None <=> e \in able
             /\ e \in able => /\ best(e) \in UsableCrtcs(device, k, e)
                              /\ FirstBest(UsableCrtcs(device, k, e), device.planes, best(e))
  <2>1. UsableCrtcs(device, k, e) = encoders[e] \cap 1 .. N
    BY <1>1 DEF UsableCrtcs
  <2>2. None \notin 1 .. N
    BY DEF None
  <2>3. IF UsableCrtcs(device, k, e) = {} THEN best(e) = None
        ELSE /\ best(e) \in UsableCrtcs(device, k, e)
             /\ FirstBest(UsableCrtcs(device, k, e), device.planes, best(e))
    BY <1>1, <2>1, KeepBestFindsFirst
  <2> HIDE DEF best
  <2> QED
    BY <2>1, <2>2, <2>3
<1>4. able = {e \in DOMAIN encoders : best(e) # None} /\ able \subseteq Nat
  <2> HIDE DEF best
  <2> QED
    BY <1>2, <1>3
<1>5. CrtcFor(device, k) =
        IF able = {} THEN None ELSE best(CHOOSE e \in able : \A f \in able : e <= f)
  <2>1. CrtcFor(device, k) =
          LET some == {e \in DOMAIN encoders : best(e) # None}
          IN  IF some = {} THEN None ELSE best(CHOOSE e \in some : \A f \in some : e <= f)
    BY DEF CrtcFor
  <2> HIDE DEF able
  <2> QED
    BY <1>4, <2>1
<1>6. able # {} => \E e \in able : \A f \in able : e <= f
  <2> HIDE DEF able
  <2> QED
    BY <1>4, LeastOf
<1>7. \A d, e \in able : (\A f \in able : d <= f) /\ (\A f \in able : e <= f) => d = e
  <2> HIDE DEF able
  <2> QED
    BY <1>4
<1>8. able \subseteq DOMAIN encoders
  OBVIOUS
<1> HIDE DEF able, best, encoders
<1>9. CASE able = {}
  BY <1>5, <1>9 DEF able, encoders
<1>10. CASE able # {}
  <2> DEFINE d == CHOOSE e \in able : \A f \in able : e <= f
  <2>1. d \in able /\ \A f \in able : d <= f
    BY <1>6, <1>10
  <2>2. CrtcFor(device, k) = best(d)
    BY <1>5, <1>10
  <2> HIDE DEF d
  <2>3. \A e \in able : (\A f \in able : e <= f) => e = d
    BY <1>7, <2>1
  <2>4. /\ best(d) # None /\ best(d) \in UsableCrtcs(device, k, d)
        /\ FirstBest(UsableCrtcs(device, k, d), device.planes, best(d))
    BY <1>3, <1>8, <2>1
  <2> QED
    BY <1>10, <2>2, <2>3, <2>4 DEF able, encoders
<1> QED
  BY <1>9, <1>10
-----------------------------------------------------------------------------
(* Drawing.                                                                *)

USE WordAssumption

\* The screen has the framebuffer's sizes in one order or the other.
LEMMA ScreenSizes ==
  ASSUME NEW fb \in Framebuffers
  PROVE  /\ ScreenW(fb) \in Nat /\ ScreenH(fb) \in Nat
         /\ fb.rotation \in {0, 2} => ScreenW(fb) = fb.w /\ ScreenH(fb) = fb.h
         /\ fb.rotation \in {1, 3} => ScreenW(fb) = fb.h /\ ScreenH(fb) = fb.w
BY DEF Framebuffers, ScreenW, ScreenH, Sideways

\* An int is an integer.
LEMMA SignedIsInt == ASSUME NEW n \in Int PROVE Signed(n) \in Int
BY DEF Signed

\* What an int can hold is not changed by storing it in one.
LEMMA SignedExact ==
  ASSUME NEW n \in Int, -(Word \div 2) <= n, n < Word \div 2
  PROVE  Signed(n) = n
<1>1. CASE n >= 0
  <2>1. n % Word = n
    BY <1>1
  <2> QED
    BY <1>1, <2>1 DEF Signed
<1>2. CASE n < 0
  <2>1. n % Word = n + Word
    BY <1>2
  <2> QED
    BY <1>2, <2>1 DEF Signed
<1> QED
  BY <1>1, <1>2

\* The matrix of each rotation is as many quarter turns (fb_stepper_init).
THEOREM CellIsTurn ==
  ASSUME NEW fb \in Framebuffers, NEW x \in Int, NEW y \in Int
  PROVE  Cell(fb, x, y) = Turned(fb, <<x, y>>)
<1>1. fb.rotation \in 0 .. 3 /\ fb.w \in Nat /\ fb.h \in Nat
  BY DEF Framebuffers
<1>2. CASE fb.rotation = 0
  BY <1>2 DEF Cell, Turned
<1>3. CASE fb.rotation = 1
  BY <1>1, <1>3, ScreenSizes DEF Cell, Turned, Turn
<1>4. CASE fb.rotation = 2
  BY <1>1, <1>4, ScreenSizes DEF Cell, Turned, Turn
<1>5. CASE fb.rotation = 3
  BY <1>1, <1>5, ScreenSizes DEF Cell, Turned, Turn
<1> QED
  BY <1>1, <1>2, <1>3, <1>4, <1>5

\* A pixel on the screen has a word of its own in the framebuffer
\* (fb_stepper_step_x).
LEMMA CellInside ==
  ASSUME NEW fb \in Framebuffers, NEW x \in Int, NEW y \in Int, Visible(fb, x, y)
  PROVE  Cell(fb, x, y) \in Cells(fb)
<1>1. fb.rotation \in 0 .. 3 /\ fb.w \in Nat /\ fb.h \in Nat
  BY DEF Framebuffers
<1>2. CASE fb.rotation \in {0, 2}
  BY <1>1, <1>2, ScreenSizes DEF Cell, Visible, Cells
<1>3. CASE fb.rotation \in {1, 3}
  BY <1>1, <1>3, ScreenSizes DEF Cell, Visible, Cells
<1> QED
  BY <1>1, <1>2, <1>3

THEOREM CellsApart ==
  ASSUME NEW fb \in Framebuffers, NEW x \in Int, NEW y \in Int, NEW u \in Int, NEW v \in Int,
         Cell(fb, x, y) = Cell(fb, u, v)
  PROVE  x = u /\ y = v
<1>1. fb.rotation \in 0 .. 3 /\ fb.w \in Nat /\ fb.h \in Nat
  BY DEF Framebuffers
<1> QED
  BY <1>1 DEF Cell

\* Whatever box, image or border is asked for, on or off the screen, with sizes
\* that overflow or not, nothing outside the framebuffer is written.
THEOREM FillInside ==
  ASSUME NEW fb \in Framebuffers, NEW x \in Int, NEW y \in Int, NEW w \in Nat, NEW h \in Nat
  PROVE  Fill(fb, x, y, w, h) \subseteq Cells(fb)
<1> SUFFICES ASSUME Starts(fb, x, y, w, h),
                    NEW p \in Steps(w) \X Steps(h),
                    Visible(fb, Signed(x + p[1]), Signed(y + p[2]))
             PROVE  Cell(fb, Signed(x + p[1]), Signed(y + p[2])) \in Cells(fb)
  BY DEF Fill
<1>1. p[1] \in Int /\ p[2] \in Int
  BY DEF Steps
<1>2. Signed(x + p[1]) \in Int /\ Signed(y + p[2]) \in Int
  BY <1>1, SignedIsInt
<1> QED
  BY <1>2, CellInside

\* A rectangle whose edges are ints.
Fits(at, size) == -(Word \div 2) <= at /\ at + size <= Word \div 2

\* A step of a rectangle that fits is stored in an int as it is.
LEMMA StepExact ==
  ASSUME NEW at \in Int, NEW size \in Nat \ {0}, Fits(at, size), NEW s \in Steps(size)
  PROVE  /\ s \in 0 .. size - 1
         /\ Signed(at + s) = at + s
<1>1. s \in 0 .. size - 1
  BY DEF Steps
<1> QED
  BY <1>1, SignedExact DEF Fits

\* The test of fb_stepper_init lets every rectangle through that has something
\* to show.
LEMMA ShownStarts ==
  ASSUME NEW fb \in Framebuffers, NEW x \in Int, NEW y \in Int,
         NEW w \in Nat \ {0}, NEW h \in Nat \ {0}, Fits(x, w), Fits(y, h),
         NEW q \in Screen(fb) \cap ((x .. x + w - 1) \X (y .. y + h - 1))
  PROVE  Starts(fb, x, y, w, h)
<1>1. ScreenW(fb) \in Nat /\ ScreenH(fb) \in Nat
  BY ScreenSizes
<1>2. /\ q[1] \in 0 .. ScreenW(fb) - 1 /\ q[1] \in x .. x + w - 1
      /\ q[2] \in 0 .. ScreenH(fb) - 1 /\ q[2] \in y .. y + h - 1
  BY DEF Screen
<1>3. x < ScreenW(fb) /\ y < ScreenH(fb)
  BY <1>1, <1>2
<1>4. x + w \in 1 .. (Word - 1) /\ y + h \in 1 .. (Word - 1)
  BY <1>1, <1>2 DEF Fits
<1>5. (x + w) % Word = x + w /\ (y + h) % Word = y + h
  BY <1>4
<1> QED
  BY <1>3, <1>4, <1>5 DEF Starts, Unsigned

\* A rectangle of at least a pixel whose edges are ints appears exactly where
\* it is on the screen, as the screen is turned, whatever part of it lies
\* outside (fb_stepper_init, fb_stepper_step_x, fb_stepper_step_y).
THEOREM FillExact ==
  ASSUME NEW fb \in Framebuffers, NEW x \in Int, NEW y \in Int,
         NEW w \in Nat \ {0}, NEW h \in Nat \ {0}, Fits(x, w), Fits(y, h)
  PROVE  Fill(fb, x, y, w, h) = Shown(fb, x, y, w, h)
<1> DEFINE Rectangle == (x .. x + w - 1) \X (y .. y + h - 1)
<1>0. ScreenW(fb) \in Nat /\ ScreenH(fb) \in Nat
  BY ScreenSizes
<1>1. ASSUME NEW p \in Steps(w) \X Steps(h),
             Visible(fb, Signed(x + p[1]), Signed(y + p[2]))
      PROVE  Cell(fb, Signed(x + p[1]), Signed(y + p[2])) \in Shown(fb, x, y, w, h)
  <2> DEFINE q == <<x + p[1], y + p[2]>>
  <2>1. p[1] \in Steps(w) /\ p[2] \in Steps(h)
    OBVIOUS
  <2>2. /\ p[1] \in 0 .. w - 1 /\ Signed(x + p[1]) = x + p[1]
        /\ p[2] \in 0 .. h - 1 /\ Signed(y + p[2]) = y + p[2]
    BY <2>1, StepExact
  <2>3. q \in Screen(fb) \cap Rectangle
    BY <1>0, <1>1, <2>2 DEF Visible, Screen
  <2>4. Cell(fb, x + p[1], y + p[2]) = Turned(fb, q)
    BY <2>2, CellIsTurn
  <2> QED
    BY <2>2, <2>3, <2>4 DEF Shown
<1>2. Fill(fb, x, y, w, h) \subseteq Shown(fb, x, y, w, h)
  BY <1>1 DEF Fill
<1>3. ASSUME NEW q \in Screen(fb) \cap Rectangle
      PROVE  Turned(fb, q) \in Fill(fb, x, y, w, h)
  <2> DEFINE p == <<q[1] - x, q[2] - y>>
  <2>1. /\ q[1] \in 0 .. ScreenW(fb) - 1 /\ q[1] \in x .. x + w - 1
        /\ q[2] \in 0 .. ScreenH(fb) - 1 /\ q[2] \in y .. y + h - 1
        /\ q = <<q[1], q[2]>>
    BY DEF Screen
  <2>2. p \in Steps(w) \X Steps(h)
    BY <2>1 DEF Steps
  <2>3. Signed(x + p[1]) = q[1] /\ Signed(y + p[2]) = q[2]
    <3>1. x + (q[1] - x) = q[1] /\ y + (q[2] - y) = q[2]
      BY <2>1
    <3>2. Signed(x + (q[1] - x)) = x + (q[1] - x) /\ Signed(y + (q[2] - y)) = y + (q[2] - y)
      BY <2>2, StepExact
    <3> QED
      BY <3>1, <3>2
  <2>4. Visible(fb, Signed(x + p[1]), Signed(y + p[2]))
    BY <1>0, <2>1, <2>3 DEF Visible
  <2>5. Cell(fb, Signed(x + p[1]), Signed(y + p[2])) = Turned(fb, q)
    BY <2>1, <2>3, CellIsTurn
  <2>6. Starts(fb, x, y, w, h)
    BY ShownStarts
  <2> HIDE DEF p
  <2> QED
    BY <2>2, <2>4, <2>5, <2>6 DEF Fill
<1> QED
  BY <1>2, <1>3 DEF Shown

-----------------------------------------------------------------------------
(* Where a drawing starts.  The sizes of a monitor leave room in an int.   *)

\* A rectangle that overflows an int to the right or below is off the screen,
\* and not drawn there either: every one that is not too large itself appears
\* exactly.
LEMMA FillFaithful ==
  ASSUME NEW fb \in Framebuffers, fb.w \in MonitorSize, fb.h \in MonitorSize,
         NEW x \in -(Word \div 2) .. Word \div 2 - 1, NEW y \in -(Word \div 2) .. Word \div 2 - 1,
         NEW w \in Nat \ {0}, NEW h \in Nat \ {0}, w <= Word \div 8, h <= Word \div 8
  PROVE  Fill(fb, x, y, w, h) = Shown(fb, x, y, w, h)
<1>1. /\ ScreenW(fb) \in 0 .. Word \div 8 /\ ScreenH(fb) \in 0 .. Word \div 8
  BY DEF MonitorSize, ScreenW, ScreenH
<1>2. Word \in Nat /\ Word > 0 /\ Word \div 8 \in Nat /\ Word \div 2 \in Nat
      /\ 8 * (Word \div 8) <= Word /\ 2 * (Word \div 2) = Word
  OBVIOUS
<1>3. CASE Fits(x, w) /\ Fits(y, h)
  BY <1>3, FillExact
<1>4. CASE ~Fits(x, w) \/ ~Fits(y, h)
  <2>1. x >= ScreenW(fb) \/ y >= ScreenH(fb)
    BY <1>1, <1>2, <1>4 DEF Fits
  <2>2. Fill(fb, x, y, w, h) = {}
    BY <1>1, <2>1 DEF Fill, Starts
  <2>3. Screen(fb) \cap ((x .. x + w - 1) \X (y .. y + h - 1)) = {}
    BY <1>1, <2>1 DEF Screen
  <2> QED
    BY <2>2, <2>3 DEF Shown
<1> QED
  BY <1>3, <1>4

\* The middle of a screen for something that fits on it, as an image computes it
\* and as a box does, moved by a distance that is not too large.
LEMMA MiddleExact ==
  ASSUME NEW screen \in MonitorSize, NEW size \in 0 .. Word \div 8,
         NEW shift \in -(Word \div 8) .. Word \div 8
  PROVE  LET centre == Quotient(screen - Signed(size), 2) IN
         /\ Unsigned(size) = size /\ Signed(size) = size
         /\ centre \in -(Word \div 8) .. Word \div 8
         /\ Centred(centre, screen, size)
         /\ Signed(centre + shift) = centre + shift
         /\ size <= screen => Signed(Unsigned(screen - size) \div 2) = centre
<1>1. /\ Word \in Nat /\ Word > 0 /\ Word \div 8 \in Nat /\ Word \div 2 \in Nat
      /\ 8 * (Word \div 8) <= Word /\ 2 * (Word \div 2) = Word
  OBVIOUS
<1>2. screen \in 0 .. Word \div 8
  BY DEF MonitorSize
<1>3. size % Word = size
  BY <1>1
<1>4. Unsigned(size) = size /\ Signed(size) = size
  BY <1>1, <1>3, SignedExact DEF Unsigned
<1> DEFINE margin == screen - size
           centre == Quotient(margin, 2)
<1>5. margin \in -(Word \div 8) .. Word \div 8
  BY <1>1, <1>2
<1>6. CASE margin >= 0
  <2>1. centre = margin \div 2 /\ centre \in 0 .. Word \div 8 /\ 2 * centre \in margin - 1 .. margin
    BY <1>1, <1>5, <1>6 DEF Quotient
  <2>2. Centred(centre, screen, size)
    <3> HIDE DEF centre
    <3>1. (screen - size - centre) - centre = margin - 2 * centre
      BY <1>2, <2>1
    <3> QED
      BY <1>2, <2>1, <3>1 DEF Centred
  <2>3. Signed(centre + shift) = centre + shift
    <3> HIDE DEF centre
    <3> QED
      BY <1>1, <2>1, SignedExact
  <2>4. margin % Word = margin
    BY <1>1, <1>5, <1>6
  <2>5. Unsigned(margin) = margin /\ Signed(margin \div 2) = centre
    <3>1. Signed(centre) = centre
      <4> HIDE DEF centre
      <4> QED
        BY <1>1, <2>1, SignedExact
    <3> QED
      BY <2>1, <2>4, <3>1 DEF Unsigned
  <2> QED
    BY <1>1, <1>4, <2>1, <2>2, <2>3, <2>5
<1>7. CASE margin < 0
  <2>1. centre = -((-margin) \div 2)
    BY <1>5, <1>7 DEF Quotient
  <2>2. centre \in -(Word \div 8) .. 0 /\ 2 * centre \in margin .. margin + 1
    BY <1>1, <1>5, <1>7, <2>1
  <2>3. Centred(centre, screen, size)
    <3> HIDE DEF centre
    <3>1. (screen - size - centre) - centre = margin - 2 * centre
      BY <1>2, <2>2
    <3> QED
      BY <1>2, <2>2, <3>1 DEF Centred
  <2>4. Signed(centre + shift) = centre + shift
    <3> HIDE DEF centre
    <3> QED
      BY <1>1, <2>2, SignedExact
  <2> QED
    BY <1>1, <1>2, <1>4, <1>7, <2>2, <2>3, <2>4
<1> QED
  BY <1>5, <1>6, <1>7

\* What storing in an int leaves.
LEMMA SignedRange ==
  ASSUME NEW n \in Int
  PROVE  Signed(n) \in -(Word \div 2) .. Word \div 2 - 1
<1>1. Word \in Nat /\ Word > 0 /\ 2 * (Word \div 2) = Word /\ n % Word \in 0 .. Word - 1
  OBVIOUS
<1> QED
  BY <1>1 DEF Signed

Shift(place, d) == place.offset[d] * place.scale

LEMMA PlaceTypes ==
  ASSUME NEW place \in PlaceType, NEW d \in 1 .. 2
  PROVE  /\ place.use_location \in BOOLEAN /\ place.use_offset \in BOOLEAN
         /\ place.location[d] \in Int /\ place.scale \in Nat \ {0} /\ Shift(place, d) \in Int
<1>1. place.offset[d] \in Int /\ place.scale \in Nat \ {0} /\ place.location[d] \in Int
  BY DEF PlaceType
<1>2. \A m \in Int, n \in Nat : m * n \in Int
  OBVIOUS
<1> QED
  BY <1>1, <1>2 DEF PlaceType, Shift

\* The start of a box and of an image is a number.
LEMMA StartType ==
  ASSUME NEW place \in PlaceType, NEW d \in 1 .. 2, NEW screen \in Nat, NEW size \in Nat
  PROVE  BoxStart(place, d, screen, size) \in Int /\ ImageStart(place, d, screen, size) \in Int
<1>1. place.location[d] \in Int /\ Shift(place, d) \in Int
      /\ place.use_location \in BOOLEAN /\ place.use_offset \in BOOLEAN
  BY PlaceTypes
<1>2. \A n \in Int : Signed(n) \in Int
  BY SignedIsInt
<1>3. Unsigned(screen - size) \div 2 \in Int
  BY DEF Unsigned
<1>4. \A n \in Int : Quotient(n, 2) \in Int
  BY DEF Quotient
<1> DEFINE box == Signed(Unsigned(screen - size) \div 2)
           image == Quotient(screen - Signed(size), 2)
<1>5. box \in Int /\ image \in Int
  BY <1>2, <1>3, <1>4
<1>6. /\ BoxStart(place, d, screen, size) =
           CASE place.use_location -> Signed(place.location[d])
             [] ~place.use_location /\ place.use_offset -> Signed(box + Shift(place, d))
             [] OTHER -> box
      /\ ImageStart(place, d, screen, size) =
           CASE place.use_location -> Signed(place.location[d])
             [] ~place.use_location /\ place.use_offset -> Signed(image + Shift(place, d))
             [] OTHER -> image
  BY DEF BoxStart, ImageStart, Shift
<1> HIDE DEF box, image
<1> QED
  BY <1>1, <1>2, <1>5, <1>6

\* What WithinInts asks of one direction.
Near(place, d, size) ==
  /\ size \in 0 .. Word \div 8
  /\ ~place.use_location /\ place.use_offset => Shift(place, d) \in -(Word \div 8) .. Word \div 8

\* The start of an image, or of a box that fits.
StartOf(start, place, d, screen, size) ==
  \/ start = ImageStart(place, d, screen, size)
  \/ /\ start = BoxStart(place, d, screen, size)
     /\ place.use_location \/ size <= screen

\* Both start where they were asked to.
LEMMA StartsWhereAsked ==
  ASSUME NEW place \in PlaceType, NEW d \in 1 .. 2, NEW screen \in MonitorSize,
         NEW size, Near(place, d, size),
         NEW start, StartOf(start, place, d, screen, size)
  PROVE  /\ start \in -(Word \div 2) .. Word \div 2 - 1
         /\ start \in StartsAsked(place, d, screen, size)
<1>1. place.location[d] \in Int /\ Shift(place, d) \in Int
      /\ place.use_location \in BOOLEAN /\ place.use_offset \in BOOLEAN
  BY PlaceTypes
<1>2. /\ Word \in Nat /\ Word > 0 /\ Word \div 8 \in Nat /\ Word \div 2 \in Nat
      /\ 8 * (Word \div 8) <= Word /\ 2 * (Word \div 2) = Word
  OBVIOUS
<1>3. size \in 0 .. Word \div 8
  BY DEF Near
<1> DEFINE box == Signed(Unsigned(screen - size) \div 2)
           image == Quotient(screen - Signed(size), 2)
           shift == IF place.use_offset THEN Shift(place, d) ELSE 0
<1>4. CASE place.use_location
  <2>1. start = Signed(place.location[d])
    BY <1>4 DEF StartOf, BoxStart, ImageStart
  <2> QED
    BY <1>1, <1>4, <2>1, SignedRange DEF StartsAsked
<1>5. CASE ~place.use_location
  <2>1. shift \in -(Word \div 8) .. Word \div 8
    BY <1>1, <1>2, <1>5 DEF Near
  <2>2. /\ image \in -(Word \div 8) .. Word \div 8
        /\ Centred(image, screen, size)
        /\ Signed(image + shift) = image + shift
        /\ size <= screen => box = image
    <3> HIDE DEF shift
    <3> QED
      BY <1>3, <2>1, MiddleExact
  <2>3. /\ BoxStart(place, d, screen, size) =
             IF place.use_offset THEN Signed(box + Shift(place, d)) ELSE box
        /\ ImageStart(place, d, screen, size) =
             IF place.use_offset THEN Signed(image + Shift(place, d)) ELSE image
    BY <1>1, <1>5 DEF BoxStart, ImageStart, Shift
  <2>4. StartsAsked(place, d, screen, size) =
          {s \in -Word .. Word : Centred(s - shift, screen, size)}
    BY <1>5 DEF StartsAsked, Shift
  <2>5. place.use_offset => shift = Shift(place, d)
    OBVIOUS
  <2>6. ~place.use_offset => shift = 0
    OBVIOUS
  <2> HIDE DEF box, image, shift
  <2>7. start = image + shift
    BY <1>5, <2>1, <2>2, <2>3, <2>5, <2>6 DEF StartOf
  <2>8. (image + shift) - shift = image /\ image + shift \in -(Word \div 4) .. Word \div 4
    BY <1>2, <2>1, <2>2
  <2> QED
    BY <1>2, <2>2, <2>4, <2>7, <2>8
<1> QED
  BY <1>1, <1>4, <1>5

\* A box too large for the middle starts half an int away, and no step of it
\* comes back to the screen.
LEMMA TooLargeUnseen ==
  ASSUME NEW place \in PlaceType, NEW d \in 1 .. 2, NEW screen \in MonitorSize,
         NEW size, Near(place, d, size), ~place.use_location, size > screen,
         NEW s \in Steps(size)
  PROVE  LET at == Signed(BoxStart(place, d, screen, size) + s) IN ~(at >= 0 /\ at < screen)
<1>1. Shift(place, d) \in Int /\ place.use_offset \in BOOLEAN
  BY PlaceTypes
<1>2. /\ Word \in Nat /\ Word > 0 /\ Word \div 8 \in Nat /\ Word \div 2 \in Nat
      /\ 8 * (Word \div 8) <= Word /\ 2 * (Word \div 2) = Word
  OBVIOUS
<1>3. size \in 1 .. Word \div 8 /\ screen \in 0 .. Word \div 8 /\ s \in 0 .. Word \div 8
  BY <1>2 DEF Near, MonitorSize, Steps
<1> DEFINE shift == IF place.use_offset THEN Shift(place, d) ELSE 0
           half == Unsigned(screen - size) \div 2
           start == BoxStart(place, d, screen, size)
<1>4. shift \in -(Word \div 8) .. Word \div 8
  BY <1>1, <1>2 DEF Near
<1>5. Unsigned(screen - size) = Word - (size - screen)
  BY <1>2, <1>3 DEF Unsigned
<1>6. half \in Int /\ 2 * half \in Word - Word \div 8 - 1 .. Word - 1
  BY <1>2, <1>3, <1>5
<1>7. Signed(half) = half
  <2> HIDE DEF half
  <2> QED
    BY <1>2, <1>6, SignedExact
<1>8. start = IF place.use_offset THEN Signed(half + shift) ELSE half
  BY <1>1, <1>7 DEF BoxStart, Shift
<1> HIDE DEF half, start
<1>9. start = half + shift \/ start = half + shift - Word
  <2>1. CASE ~place.use_offset
    BY <1>6, <1>8, <2>1
  <2>2. CASE place.use_offset
    <3>1. half + shift \in 0 .. Word - 1
      BY <1>2, <1>4, <1>6
    <3>2. (half + shift) % Word = half + shift
      <4> HIDE DEF shift
      <4> QED
        BY <1>2, <3>1
    <3>3. start = Signed(half + shift)
      BY <1>8, <2>2
    <3> HIDE DEF shift
    <3>4. Signed(half + shift) = half + shift \/ Signed(half + shift) = half + shift - Word
      BY <1>4, <1>6, <3>1, <3>2 DEF Signed
    <3> QED
      BY <3>3, <3>4
  <2> QED
    BY <1>1, <2>1, <2>2
<1> HIDE DEF shift
<1> DEFINE sum == half + shift + s
<1>10. /\ sum \in Word \div 8 .. Word - 1
       /\ sum >= Word \div 2 => sum - Word < 0
       /\ sum - Word >= -Word
  BY <1>2, <1>3, <1>4, <1>6
<1>11. (start + s) % Word = sum
  <2>1. start + s = sum \/ start + s = sum - Word
    BY <1>3, <1>4, <1>6, <1>9
  <2> HIDE DEF sum
  <2>2. sum % Word = sum /\ (sum - Word) % Word = sum
    BY <1>2, <1>10
  <2> QED
    BY <2>1, <2>2
<1> HIDE DEF sum
<1>12. Signed(start + s) = sum \/ Signed(start + s) = sum - Word
  BY <1>11 DEF Signed
<1>13. ~(Signed(start + s) >= 0 /\ Signed(start + s) < screen)
  BY <1>2, <1>3, <1>10, <1>12
<1> QED
  BY <1>13 DEF start

\* The framebuffer of a monitor.
Buffers == [w : MonitorSize, h : MonitorSize, rotation : 0 .. 3]

LEMMA BufferType ==
  ASSUME NEW fb \in Buffers
  PROVE  /\ fb \in Framebuffers /\ fb.w \in MonitorSize /\ fb.h \in MonitorSize
         /\ ScreenW(fb) \in MonitorSize /\ ScreenH(fb) \in MonitorSize
         /\ MonitorSize \subseteq Nat
<1>1. MonitorSize \subseteq Nat
  BY DEF MonitorSize
<1> QED
  BY <1>1 DEF Buffers, Framebuffers, ScreenW, ScreenH

\* What appears of something that starts where it was asked to.
LEMMA DrawnAsPlaced ==
  ASSUME NEW fb \in Buffers, NEW place \in PlaceType, NEW w, NEW h,
         Near(place, 1, w), Near(place, 2, h), w # 0, h # 0,
         NEW x, StartOf(x, place, 1, ScreenW(fb), w),
         NEW y, StartOf(y, place, 2, ScreenH(fb), h)
  PROVE  \E u \in StartsAsked(place, 1, ScreenW(fb), w), v \in StartsAsked(place, 2, ScreenH(fb), h) :
           Fill(fb, x, y, w, h) = Shown(fb, u, v, w, h)
<1>1. /\ x \in -(Word \div 2) .. Word \div 2 - 1 /\ x \in StartsAsked(place, 1, ScreenW(fb), w)
      /\ y \in -(Word \div 2) .. Word \div 2 - 1 /\ y \in StartsAsked(place, 2, ScreenH(fb), h)
  BY BufferType, StartsWhereAsked
<1>2. w \in Nat \ {0} /\ h \in Nat \ {0} /\ w <= Word \div 8 /\ h <= Word \div 8
  BY DEF Near
<1>3. Fill(fb, x, y, w, h) = Shown(fb, x, y, w, h)
  BY <1>1, <1>2, BufferType, FillFaithful
<1> QED
  BY <1>1, <1>3

\* A box that is to be in the middle and is larger than the screen does not
\* appear.
LEMMA TooLargeEmpty ==
  ASSUME NEW fb \in Buffers, NEW place \in PlaceType, NEW w, NEW h,
         Near(place, 1, w), Near(place, 2, h), ~place.use_location,
         w > ScreenW(fb) \/ h > ScreenH(fb)
  PROVE  Fill(fb, BoxStart(place, 1, ScreenW(fb), w), BoxStart(place, 2, ScreenH(fb), h), w, h) = {}
<1> DEFINE x == BoxStart(place, 1, ScreenW(fb), w)
           y == BoxStart(place, 2, ScreenH(fb), h)
<1>1. ASSUME NEW p \in Steps(w) \X Steps(h), Visible(fb, Signed(x + p[1]), Signed(y + p[2]))
      PROVE  FALSE
  <2>1. p[1] \in Steps(w) /\ p[2] \in Steps(h)
    OBVIOUS
  <2>2. CASE w > ScreenW(fb)
    <3>1. ~(Signed(x + p[1]) >= 0 /\ Signed(x + p[1]) < ScreenW(fb))
      BY <2>1, <2>2, BufferType, TooLargeUnseen
    <3> QED
      BY <1>1, <3>1 DEF Visible
  <2>3. CASE h > ScreenH(fb)
    <3>1. ~(Signed(y + p[2]) >= 0 /\ Signed(y + p[2]) < ScreenH(fb))
      BY <2>1, <2>3, BufferType, TooLargeUnseen
    <3> QED
      BY <1>1, <3>1 DEF Visible
  <2> QED
    BY <2>2, <2>3
<1> HIDE DEF x, y
<1>2. Fill(fb, x, y, w, h) = {}
  BY <1>1 DEF Fill
<1> QED
  BY <1>2 DEF x, y

\* The cells of a grid leave less than one of them over.
LEMMA GridEnd ==
  ASSUME NEW screen \in MonitorSize, NEW c \in Nat \ {0}
  PROVE  (screen \div c) * c \in 0 .. screen
<1>1. screen \in Nat
  BY DEF MonitorSize
<1>2. screen = c * (screen \div c) + (screen % c) /\ screen % c \in 0 .. c - 1
  BY <1>1
<1>3. screen \div c \in Nat
  BY <1>1
<1> DEFINE q == screen \div c
<1>4. \A m \in Nat, n \in Nat : m * n \in Nat
  OBVIOUS
<1>5. q * c \in Nat
  BY <1>3, <1>4
<1> HIDE DEF q
<1>6. screen = q * c + (screen % c)
  <2>1. \A m \in Nat, n \in Nat : m * n = n * m
    OBVIOUS
  <2> QED
    BY <1>2, <1>3, <2>1 DEF q
<1>7. q * c <= screen
  <2> DEFINE r == screen % c
             t == q * c
  <2>1. r \in Nat /\ t \in Nat /\ screen = t + r
    BY <1>2, <1>5, <1>6
  <2> HIDE DEF r, t
  <2>2. t <= screen
    BY <1>1, <2>1
  <2> QED
    BY <2>2 DEF t
<1> QED
  BY <1>1, <1>5, <1>7 DEF q

\* A part of the screen is drawn exactly, and an empty one not at all.
LEMMA PartDrawn ==
  ASSUME NEW fb \in Buffers, NEW x \in 0 .. ScreenW(fb), NEW y \in 0 .. ScreenH(fb),
         NEW w, w \in 0 .. ScreenW(fb) - x, NEW h, h \in 0 .. ScreenH(fb) - y,
         w = 0 => x = 0 \/ x = ScreenW(fb),
         h = 0 => y = 0 \/ y = ScreenH(fb)
  PROVE  Fill(fb, x, y, w, h) = {Turned(fb, p) : p \in (x .. x + w - 1) \X (y .. y + h - 1)}
<1>1. /\ ScreenW(fb) \in 0 .. Word \div 8 /\ ScreenH(fb) \in 0 .. Word \div 8
      /\ fb \in Framebuffers /\ fb.w \in MonitorSize /\ fb.h \in MonitorSize
  BY BufferType DEF MonitorSize
<1>2. /\ Word \in Nat /\ Word > 0 /\ Word \div 8 \in Nat /\ Word \div 2 \in Nat
      /\ 8 * (Word \div 8) <= Word /\ 2 * (Word \div 2) = Word
  OBVIOUS
<1>3. x \in Nat /\ y \in Nat /\ w \in Nat /\ h \in Nat /\ x + w <= ScreenW(fb) /\ y + h <= ScreenH(fb)
  BY <1>1
<1>4. CASE w # 0 /\ h # 0
  <2>1. /\ x \in -(Word \div 2) .. Word \div 2 - 1 /\ y \in -(Word \div 2) .. Word \div 2 - 1
        /\ w \in Nat \ {0} /\ h \in Nat \ {0} /\ w <= Word \div 8 /\ h <= Word \div 8
    BY <1>1, <1>2, <1>3, <1>4
  <2>2. Fill(fb, x, y, w, h) = Shown(fb, x, y, w, h)
    BY <1>1, <2>1, FillFaithful
  <2>3. Screen(fb) \cap ((x .. x + w - 1) \X (y .. y + h - 1)) = (x .. x + w - 1) \X (y .. y + h - 1)
    BY <1>1, <1>3 DEF Screen
  <2> QED
    BY <2>2, <2>3 DEF Shown
<1>5. CASE w = 0 \/ h = 0
  <2>1. ~Starts(fb, x, y, w, h)
    <3>1. 0 % Word = 0
      BY <1>2
    <3>2. CASE w = 0
      <4>1. x + w = x /\ (x = 0 \/ ~(x < ScreenW(fb)))
        BY <1>1, <1>3, <3>2
      <4> QED
        BY <3>1, <4>1 DEF Starts, Unsigned
    <3>3. CASE h = 0
      <4>1. y + h = y /\ (y = 0 \/ ~(y < ScreenH(fb)))
        BY <1>1, <1>3, <3>3
      <4> QED
        BY <3>1, <4>1 DEF Starts, Unsigned
    <3> QED
      BY <1>5, <3>2, <3>3
  <2>2. (x .. x + w - 1) \X (y .. y + h - 1) = {}
    BY <1>3, <1>5
  <2> QED
    BY <2>1, <2>2 DEF Fill
<1> QED
  BY <1>4, <1>5

\* The border is what the grid leaves over (term_clear_border).
LEMMA BorderDrawn ==
  ASSUME NEW fb \in Buffers, NEW cw \in Nat \ {0}, NEW ch \in Nat \ {0}
  PROVE  Border(fb, cw, ch) =
           {Turned(fb, p) : p \in Screen(fb) \ ((0 .. (ScreenW(fb) \div cw) * cw - 1)
                                               \X (0 .. (ScreenH(fb) \div ch) * ch - 1))}
<1> DEFINE right == (ScreenW(fb) \div cw) * cw
           below == (ScreenH(fb) \div ch) * ch
           W == ScreenW(fb)
           H == ScreenH(fb)
           side == (right .. W - 1) \X (0 .. below - 1)
           foot == (0 .. W - 1) \X (below .. H - 1)
<1>1. W \in Nat /\ H \in Nat /\ right \in 0 .. W /\ below \in 0 .. H
  BY BufferType, GridEnd
<1>2. Border(fb, cw, ch) = Fill(fb, right, 0, W - right, below) \cup Fill(fb, 0, below, W, H - below)
  BY DEF Border
<1> HIDE DEF right, below, W, H
<1>3. Fill(fb, right, 0, W - right, below) = {Turned(fb, p) : p \in side}
  <2>1. /\ right \in 0 .. W /\ 0 \in 0 .. H /\ W - right \in 0 .. W - right /\ below \in 0 .. H - 0
        /\ (W - right = 0 => right = W)
        /\ right + (W - right) - 1 = W - 1 /\ 0 + below - 1 = below - 1
    BY <1>1
  <2> QED
    BY <2>1, PartDrawn DEF W, H
<1>4. Fill(fb, 0, below, W, H - below) = {Turned(fb, p) : p \in foot}
  <2>1. /\ 0 \in 0 .. W /\ below \in 0 .. H /\ W \in 0 .. W - 0 /\ H - below \in 0 .. H - below
        /\ (H - below = 0 => below = H)
        /\ 0 + W - 1 = W - 1 /\ below + (H - below) - 1 = H - 1
    BY <1>1
  <2> QED
    BY <2>1, PartDrawn DEF W, H
<1>5. Screen(fb) \ ((0 .. right - 1) \X (0 .. below - 1)) = side \cup foot
  <2>1. Screen(fb) = (0 .. W - 1) \X (0 .. H - 1)
    BY DEF Screen, W, H
  <2> QED
    BY <1>1, <2>1
<1> HIDE DEF side, foot
<1>6. Border(fb, cw, ch) = {Turned(fb, p) : p \in Screen(fb) \ ((0 .. right - 1) \X (0 .. below - 1))}
  BY <1>2, <1>3, <1>4, <1>5
<1> QED
  BY <1>6 DEF right, below, W, H
-----------------------------------------------------------------------------
(* The specification.                                                      *)

USE DevicesAssumption, ModesAssumption, SizesAssumption, PlacesAssumption

\* What is drawn on is a device that has the connector: the id never changes.
OnConnector ==
  drm # NoDrm =>
    \E k \in DOMAIN devices[drm.minor].connectors :
      devices[drm.minor].connectors[k].id = drm.id

\* After a rescan there is a display if there can be one, and its connector has
\* the best one's id: all that drm_equal compares.
FollowsIds ==
  ~changed =>
    LET best == BestMinor(devices, lid)
    IN  (drm = NoDrm <=> best = None) /\ drm.id = ConnectorOf(devices, lid, best)

DisplayIInv == DisplayTypeOK /\ OnConnector /\ FollowsIds /\ DrawsAsAsked

\* What a scan ends with.
LEMMA NewDrmFits ==
  ASSUME devices \in Seq(DeviceType), lid \in BOOLEAN
  PROVE  LET new == NewDrm(Scan(devices, lid)) IN
         /\ new \in DrmType
         /\ new # NoDrm =>
              /\ new.minor \in DOMAIN devices
              /\ \E k \in DOMAIN devices[new.minor].connectors :
                   devices[new.minor].connectors[k].id = new.id
         /\ new = NoDrm <=> BestMinor(devices, lid) = None
         /\ new.id = ConnectorOf(devices, lid, BestMinor(devices, lid))
<1> DEFINE m == Scan(devices, lid)
           k == MainConnector(devices[m], lid)
           c == devices[m].connectors[k]
<1>1. /\ m = BestMinor(devices, lid)
      /\ m # None => m \in DOMAIN devices /\ Usable(devices[m], lid)
  BY ScanFindsBest
<1>2. 0 \in MonitorSize
  BY DEF MonitorSize
<1> HIDE DEF m
<1>3. CASE m = None
  <2>1. NewDrm(m) = NoDrm
    BY <1>3 DEF NewDrm
  <2>2. NoDrm \in DrmType /\ NoDrm.id = None
    BY <1>2 DEF NoDrm, DrmType, None
  <2> QED
    BY <1>1, <1>3, <2>1, <2>2 DEF ConnectorOf, m
<1>4. CASE m # None
  <2>1. m \in Nat /\ devices[m] \in DeviceType
    BY <1>1, <1>4
  <2>2. k # None /\ k \in DOMAIN devices[m].connectors
    BY <1>1, <1>4, <2>1, MainConnectorType DEF Usable
  <2>3. c \in ConnectorType
    BY <2>1, <2>2 DEF DeviceType
  <2>4. RotationOf(c.panel) \in 0 .. 3
    BY DEF RotationOf
  <2>5. NewDrm(m) = [minor |-> m, id |-> c.id,
                     fb |-> [w |-> c.mode[1], h |-> c.mode[2], rotation |-> RotationOf(c.panel)]]
    BY <1>4 DEF NewDrm
  <2>6. c.id \in Nat /\ c.mode[1] \in MonitorSize /\ c.mode[2] \in MonitorSize
    BY <2>3 DEF ConnectorType
  <2>7. ConnectorOf(devices, lid, m) = c.id
    BY <1>4 DEF ConnectorOf
  <2>8. \E j \in DOMAIN devices[m].connectors : devices[m].connectors[j].id = c.id
    BY <2>2
  <2> HIDE DEF c, k
  <2>9. NewDrm(m) \in DrmType /\ NewDrm(m).minor = m /\ NewDrm(m).id = c.id
    BY <2>1, <2>4, <2>5, <2>6 DEF DrmType
  <2>10. NewDrm(m) # NoDrm
    BY <1>4, <2>9 DEF NoDrm
  <2> QED
    BY <1>1, <1>4, <2>7, <2>8, <2>9, <2>10 DEF m
<1> QED
  BY <1>3, <1>4

\* Nothing is drawn where nothing was asked for.
LEMMA NothingAsked ==
  ASSUME asked' = Nothing, drawn' = {}
  PROVE  DrawsAsAsked' /\ asked' \in AskedType /\ drawn' \subseteq Cells(drm.fb)'
BY DEF DrawsAsAsked, AskedType, Nothing

LEMMA DisplayInitOK == DisplayInit => DisplayIInv
<1> SUFFICES ASSUME DisplayInit PROVE DisplayIInv
  OBVIOUS
<1>1. devices \in Seq(DeviceType) /\ lid \in BOOLEAN /\ drm = NewDrm(Scan(devices, lid))
  BY DEF DisplayInit
<1>2. DisplayTypeOK
  BY <1>1, NewDrmFits DEF DisplayInit, DisplayTypeOK, AskedType
<1>3. OnConnector /\ FollowsIds
  BY <1>1, NewDrmFits DEF OnConnector, FollowsIds
<1>4. DrawsAsAsked
  BY DEF DisplayInit, DrawsAsAsked, Nothing
<1> QED
  BY <1>2, <1>3, <1>4 DEF DisplayIInv

\* A sequence with another element.
LEMMA SeqExcept ==
  ASSUME NEW S, NEW s \in Seq(S), NEW i \in DOMAIN s, NEW e \in S
  PROVE  [s EXCEPT ![i] = e] \in Seq(S) /\ DOMAIN [s EXCEPT ![i] = e] = DOMAIN s
OBVIOUS

LEMMA PlugStep ==
  ASSUME DisplayIInv, NEW m \in DOMAIN devices, NEW k \in DOMAIN devices[m].connectors,
         NEW connected \in BOOLEAN, NEW mode \in Modes, Plug(m, k, connected, mode)
  PROVE  DisplayIInv'
<1> DEFINE d == devices[m]
           c == [d.connectors[k] EXCEPT !.connected = connected, !.mode = mode]
           e == [d EXCEPT !.connectors = [d.connectors EXCEPT ![k] = c]]
<1>1. devices \in Seq(DeviceType) /\ d \in DeviceType
  BY DEF DisplayIInv, DisplayTypeOK
<1>2. d.connectors \in Seq(ConnectorType) /\ d.connectors[k] \in ConnectorType
  BY <1>1 DEF DeviceType
<1>3. c \in ConnectorType
  BY <1>2 DEF ConnectorType
<1>9. c.id = d.connectors[k].id
  BY <1>2 DEF ConnectorType
<1> HIDE DEF c
<1>4. [d.connectors EXCEPT ![k] = c] \in Seq(ConnectorType)
  BY <1>2, <1>3, SeqExcept
<1>5. e \in DeviceType
  BY <1>1, <1>4 DEF DeviceType
<1>6. devices' = [devices EXCEPT ![m] = e]
  <2>1. devices' = [devices EXCEPT ![m].connectors[k].connected = connected,
                                   ![m].connectors[k].mode = mode]
    BY DEF Plug
  <2> QED
    BY <1>1, <1>2, <2>1 DEF c
<1> HIDE DEF e, d
<1>7. devices' \in Seq(DeviceType) /\ DOMAIN devices' = DOMAIN devices
  BY <1>1, <1>5, <1>6, SeqExcept
<1>8. changed' = TRUE /\ UNCHANGED <<lid, drm>> /\ DrawsAsAsked'
      /\ asked' \in AskedType /\ drawn' \subseteq Cells(drm.fb)'
  BY NothingAsked DEF Plug
<1>10. ASSUME NEW n \in DOMAIN devices, NEW j \in DOMAIN devices[n].connectors
       PROVE  /\ j \in DOMAIN devices'[n].connectors
              /\ devices'[n].connectors[j].id = devices[n].connectors[j].id
  <2>1. CASE n = m
    <3>1. devices'[n].connectors = [d.connectors EXCEPT ![k] = c]
      BY <1>1, <1>6, <2>1 DEF e, DeviceType
    <3>2. d.connectors = devices[n].connectors
      BY <2>1 DEF d
    <3> QED
      BY <1>2, <1>9, <3>1, <3>2
  <2>2. CASE n # m
    BY <1>1, <1>6, <2>2
  <2> QED
    BY <2>1, <2>2
<1>11. OnConnector'
  BY <1>8, <1>10 DEF OnConnector, DisplayIInv, DisplayTypeOK
<1> QED
  BY <1>7, <1>8, <1>11 DEF DisplayIInv, DisplayTypeOK, FollowsIds

LEMMA LidStep == ASSUME DisplayIInv, Lid PROVE DisplayIInv'
<1>1. changed' = TRUE /\ lid' \in BOOLEAN /\ UNCHANGED <<devices, drm>> /\ DrawsAsAsked'
      /\ asked' \in AskedType /\ drawn' \subseteq Cells(drm.fb)'
  BY NothingAsked DEF Lid, DisplayIInv, DisplayTypeOK
<1> QED
  BY <1>1 DEF DisplayIInv, DisplayTypeOK, OnConnector, FollowsIds

LEMMA RescanStep == ASSUME DisplayIInv, Rescan PROVE DisplayIInv'
<1> DEFINE new == NewDrm(Scan(devices, lid))
<1>1. /\ changed' = FALSE /\ UNCHANGED <<devices, lid>> /\ DrawsAsAsked'
      /\ asked' \in AskedType /\ drawn' \subseteq Cells(drm.fb)'
      /\ drm' = IF DrmEqual(new, drm) THEN drm ELSE new
  BY NothingAsked DEF Rescan
<1>2. devices \in Seq(DeviceType) /\ lid \in BOOLEAN
  BY DEF DisplayIInv, DisplayTypeOK
<1>3. /\ new \in DrmType
      /\ new # NoDrm =>
           /\ new.minor \in DOMAIN devices
           /\ \E k \in DOMAIN devices[new.minor].connectors :
                devices[new.minor].connectors[k].id = new.id
      /\ new = NoDrm <=> BestMinor(devices, lid) = None
      /\ new.id = ConnectorOf(devices, lid, BestMinor(devices, lid))
  BY <1>2, NewDrmFits
<1> HIDE DEF new
<1>4. drm'.id = new.id /\ (drm' = NoDrm <=> new = NoDrm)
  BY <1>1 DEF DrmEqual
<1>5. drm' \in DrmType /\ (drm' # NoDrm => drm'.minor \in DOMAIN devices')
  BY <1>1, <1>3 DEF DisplayIInv, DisplayTypeOK
<1>6. OnConnector' /\ FollowsIds'
  BY <1>1, <1>3, <1>4 DEF DisplayIInv, OnConnector, FollowsIds
<1> QED
  BY <1>1, <1>5, <1>6 DEF DisplayIInv, DisplayTypeOK

\* A drawing keeps the rest.
LEMMA DrawingStep ==
  ASSUME DisplayIInv, NEW what \in AskedType, NEW cells, Drawing(what, cells),
         cells \subseteq Cells(drm.fb), DrawsAsAsked'
  PROVE  DisplayIInv'
BY DEF Drawing, DisplayIInv, DisplayTypeOK, OnConnector, FollowsIds

\* Stored in an unsigned int, what is asked for is a size.
LEMMA Enlarged ==
  ASSUME NEW w \in Nat, NEW scale \in Nat \ {0}
  PROVE  /\ w * scale \in Nat /\ Unsigned(w * scale) \in Nat
         /\ w # 0 => w * scale # 0
         /\ w * scale <= Word \div 8 => Unsigned(w * scale) = w * scale
<1>1. \A m \in Nat, n \in Nat : m * n \in Nat
  OBVIOUS
<1>2. \A m \in Nat, n \in Nat \ {0} : m # 0 => m * n # 0
  OBVIOUS
<1> DEFINE n == w * scale
<1>3. n \in Nat /\ (w # 0 => n # 0)
  BY <1>1, <1>2
<1> HIDE DEF n
<1>4. Unsigned(n) \in Nat /\ (n <= Word \div 8 => Unsigned(n) = n)
  BY <1>3 DEF Unsigned
<1> QED
  BY <1>3, <1>4 DEF n

LEMMA DrawBoxStep ==
  ASSUME DisplayIInv, NEW w \in Sizes, NEW h \in Sizes, NEW place \in Places, DrawBox(w, h, place)
  PROVE  DisplayIInv'
<1> DEFINE fb == drm.fb
           what == [kind |-> "box", w |-> w, h |-> h, place |-> place]
           sw == w * place.scale
           sh == h * place.scale
           x == BoxStart(place, 1, ScreenW(fb), Unsigned(sw))
           y == BoxStart(place, 2, ScreenH(fb), Unsigned(sh))
           cells == Fill(fb, x, y, Unsigned(sw), Unsigned(sh))
<1>1. w \in Nat /\ h \in Nat /\ place \in PlaceType /\ place.scale \in Nat \ {0}
  BY DEF PlaceType
<1>2. fb \in Buffers
  BY DEF DisplayIInv, DisplayTypeOK, DrmType, Buffers
<1>3. /\ sw \in Nat /\ Unsigned(sw) \in Nat /\ (w # 0 => sw # 0)
      /\ (sw <= Word \div 8 => Unsigned(sw) = sw)
      /\ sh \in Nat /\ Unsigned(sh) \in Nat /\ (h # 0 => sh # 0)
      /\ (sh <= Word \div 8 => Unsigned(sh) = sh)
  BY <1>1, Enlarged
<1>4. Drawing(what, cells)
  BY DEF DrawBox
<1>5. drm' = drm /\ asked' = what /\ drawn' = cells
  BY <1>4 DEF Drawing
<1>6. what \in AskedType
  BY <1>1 DEF AskedType
<1>7. cells \subseteq Cells(fb)
  <2>1. fb \in Framebuffers /\ ScreenW(fb) \in Nat /\ ScreenH(fb) \in Nat
    BY <1>2, BufferType
  <2>2. x \in Int /\ y \in Int
    <3> HIDE DEF fb, sw, sh
    <3> QED
      BY <1>1, <1>3, <2>1, StartType
  <2> HIDE DEF fb, sw, sh, x, y
  <2> QED
    BY <1>3, <2>1, <2>2, FillInside
<1>8. DrawsAsAsked'
  <2> SUFFICES ASSUME WithinInts'
               PROVE  (IF TooLarge THEN drawn = {} ELSE asked.w > 0 /\ asked.h > 0 => PlacedAsAsked)'
    BY <1>5 DEF DrawsAsAsked
  <2>1. Near(place, 1, sw) /\ Near(place, 2, sh) /\ Unsigned(sw) = sw /\ Unsigned(sh) = sh
    BY <1>3, <1>5 DEF WithinInts, Near, Shift
  <2>2. TooLarge' <=> ~place.use_location /\ (sw > ScreenW(fb) \/ sh > ScreenH(fb))
    BY <1>5 DEF TooLarge
  <2>3. PlacedAsAsked' <=> \E u \in StartsAsked(place, 1, ScreenW(fb), sw),
                              v \in StartsAsked(place, 2, ScreenH(fb), sh) :
                             cells = Shown(fb, u, v, sw, sh)
    BY <1>5 DEF PlacedAsAsked
  <2>4. cells = Fill(fb, BoxStart(place, 1, ScreenW(fb), sw), BoxStart(place, 2, ScreenH(fb), sh), sw, sh)
    BY <2>1
  <2>5. ScreenW(fb) \in Nat /\ ScreenH(fb) \in Nat
    BY <1>2, BufferType
  <2> HIDE DEF fb, sw, sh, cells
  <2>6. CASE ~place.use_location /\ (sw > ScreenW(fb) \/ sh > ScreenH(fb))
    <3>1. cells = {}
      BY <1>1, <1>2, <2>1, <2>4, <2>6, TooLargeEmpty
    <3> QED
      BY <1>5, <2>2, <2>6, <3>1
  <2>7. CASE ~(~place.use_location /\ (sw > ScreenW(fb) \/ sh > ScreenH(fb)))
    <3> SUFFICES ASSUME w > 0, h > 0 PROVE PlacedAsAsked'
      BY <1>5, <2>2, <2>7
    <3>1. sw # 0 /\ sh # 0
      BY <1>1, <1>3
    <3>2. (place.use_location \/ sw <= ScreenW(fb)) /\ (place.use_location \/ sh <= ScreenH(fb))
      BY <1>3, <2>5, <2>7
    <3> DEFINE at == BoxStart(place, 1, ScreenW(fb), sw)
               to == BoxStart(place, 2, ScreenH(fb), sh)
    <3> HIDE DEF x, y, what
    <3>3. \E u \in StartsAsked(place, 1, ScreenW(fb), sw), v \in StartsAsked(place, 2, ScreenH(fb), sh) :
            Fill(fb, at, to, sw, sh) = Shown(fb, u, v, sw, sh)
      <4>1. StartOf(at, place, 1, ScreenW(fb), sw) /\ StartOf(to, place, 2, ScreenH(fb), sh)
        BY <3>2 DEF StartOf
      <4>2. place \in PlaceType /\ Near(place, 1, sw) /\ Near(place, 2, sh)
        BY <1>1, <2>1
      <4> HIDE DEF at, to
      <4> QED
        BY <1>2, <3>1, <4>1, <4>2, DrawnAsPlaced
    <3> QED
      BY <2>3, <2>4, <3>3
  <2> QED
    BY <2>6, <2>7
<1> QED
  BY <1>4, <1>6, <1>7, <1>8, DrawingStep

LEMMA ShowImageStep ==
  ASSUME DisplayIInv, NEW w \in Sizes, NEW h \in Sizes, NEW place \in Places, ShowImage(w, h, place)
  PROVE  DisplayIInv'
<1> DEFINE fb == drm.fb
           what == [kind |-> "image", w |-> w, h |-> h, place |-> place]
           sw == w * place.scale
           sh == h * place.scale
           x == ImageStart(place, 1, ScreenW(fb), Unsigned(sw))
           y == ImageStart(place, 2, ScreenH(fb), Unsigned(sh))
           cells == Fill(fb, x, y, Unsigned(sw), Unsigned(sh))
<1>1. w \in Nat /\ h \in Nat /\ place \in PlaceType /\ place.scale \in Nat \ {0}
  BY DEF PlaceType
<1>2. fb \in Buffers
  BY DEF DisplayIInv, DisplayTypeOK, DrmType, Buffers
<1>3. /\ sw \in Nat /\ Unsigned(sw) \in Nat /\ (w # 0 => sw # 0)
      /\ (sw <= Word \div 8 => Unsigned(sw) = sw)
      /\ sh \in Nat /\ Unsigned(sh) \in Nat /\ (h # 0 => sh # 0)
      /\ (sh <= Word \div 8 => Unsigned(sh) = sh)
  BY <1>1, Enlarged
<1>4. Drawing(what, cells) /\ w > 0 /\ h > 0
  BY DEF ShowImage
<1>5. drm' = drm /\ asked' = what /\ drawn' = cells
  BY <1>4 DEF Drawing
<1>6. what \in AskedType
  BY <1>1 DEF AskedType
<1>7. cells \subseteq Cells(fb)
  <2>1. fb \in Framebuffers /\ ScreenW(fb) \in Nat /\ ScreenH(fb) \in Nat
    BY <1>2, BufferType
  <2>2. x \in Int /\ y \in Int
    <3> HIDE DEF fb, sw, sh
    <3> QED
      BY <1>1, <1>3, <2>1, StartType
  <2> HIDE DEF fb, sw, sh, x, y
  <2> QED
    BY <1>3, <2>1, <2>2, FillInside
<1>8. DrawsAsAsked'
  <2> SUFFICES ASSUME WithinInts' PROVE PlacedAsAsked'
    BY <1>5 DEF DrawsAsAsked, TooLarge
  <2>1. Near(place, 1, sw) /\ Near(place, 2, sh) /\ Unsigned(sw) = sw /\ Unsigned(sh) = sh
    BY <1>3, <1>5 DEF WithinInts, Near, Shift
  <2>2. PlacedAsAsked' <=> \E u \in StartsAsked(place, 1, ScreenW(fb), sw),
                              v \in StartsAsked(place, 2, ScreenH(fb), sh) :
                             cells = Shown(fb, u, v, sw, sh)
    BY <1>5 DEF PlacedAsAsked
  <2>3. cells = Fill(fb, ImageStart(place, 1, ScreenW(fb), sw),
                         ImageStart(place, 2, ScreenH(fb), sh), sw, sh)
    BY <2>1
  <2>4. sw # 0 /\ sh # 0
    BY <1>1, <1>3, <1>4
  <2> DEFINE at == ImageStart(place, 1, ScreenW(fb), sw)
             to == ImageStart(place, 2, ScreenH(fb), sh)
  <2> HIDE DEF fb, sw, sh, cells, x, y, what
  <2>5. \E u \in StartsAsked(place, 1, ScreenW(fb), sw), v \in StartsAsked(place, 2, ScreenH(fb), sh) :
          Fill(fb, at, to, sw, sh) = Shown(fb, u, v, sw, sh)
    <3>1. StartOf(at, place, 1, ScreenW(fb), sw) /\ StartOf(to, place, 2, ScreenH(fb), sh)
      BY DEF StartOf
    <3>2. place \in PlaceType /\ Near(place, 1, sw) /\ Near(place, 2, sh)
      BY <1>1, <2>1
    <3> HIDE DEF at, to
    <3> QED
      BY <1>2, <2>4, <3>1, <3>2, DrawnAsPlaced
  <2> QED
    BY <2>2, <2>3, <2>5
<1> QED
  BY <1>4, <1>6, <1>7, <1>8, DrawingStep

LEMMA ClearBorderStep ==
  ASSUME DisplayIInv, NEW cw \in FontSizes, NEW ch \in FontSizes, ClearBorder(cw, ch)
  PROVE  DisplayIInv'
<1> DEFINE what == [kind |-> "border", w |-> cw, h |-> ch]
           cells == Border(drm.fb, cw, ch)
<1>1. cw \in Nat \ {0} /\ ch \in Nat \ {0} /\ drm.fb \in Buffers
  BY DEF DisplayIInv, DisplayTypeOK, DrmType, Buffers
<1>2. Drawing(what, cells) /\ drm' = drm /\ asked' = what /\ drawn' = cells
  BY DEF ClearBorder, Drawing
<1>3. what \in AskedType
  BY <1>1 DEF AskedType
<1>4. cells \subseteq Cells(drm.fb)
  <2> DEFINE fb == drm.fb
             right == (ScreenW(fb) \div cw) * cw
             below == (ScreenH(fb) \div ch) * ch
  <2>1. /\ fb \in Framebuffers /\ right \in 0 .. ScreenW(fb) /\ below \in 0 .. ScreenH(fb)
        /\ ScreenW(fb) \in Nat /\ ScreenH(fb) \in Nat
    BY <1>1, BufferType, GridEnd
  <2>2. cells = Fill(fb, right, 0, ScreenW(fb) - right, below)
                \cup Fill(fb, 0, below, ScreenW(fb), ScreenH(fb) - below)
    BY DEF Border
  <2> HIDE DEF fb, right, below, cells
  <2>3. /\ right \in Int /\ below \in Nat /\ 0 \in Int
        /\ ScreenW(fb) - right \in Nat /\ ScreenH(fb) - below \in Nat
    BY <2>1
  <2>4. /\ Fill(fb, right, 0, ScreenW(fb) - right, below) \subseteq Cells(fb)
        /\ Fill(fb, 0, below, ScreenW(fb), ScreenH(fb) - below) \subseteq Cells(fb)
    BY <2>1, <2>3, FillInside
  <2> QED
    BY <2>2, <2>4 DEF fb
<1>5. DrawsAsAsked'
  BY <1>1, <1>2, BorderDrawn DEF DrawsAsAsked
<1> QED
  BY <1>2, <1>3, <1>4, <1>5, DrawingStep

LEMMA DisplayNextOK == DisplayIInv /\ [DisplayNext]_displayVars => DisplayIInv'
<1> SUFFICES ASSUME DisplayIInv, [DisplayNext]_displayVars PROVE DisplayIInv'
  OBVIOUS
<1>1. ASSUME NEW m \in DOMAIN devices, NEW k \in DOMAIN devices[m].connectors,
             NEW connected \in BOOLEAN, NEW mode \in Modes, Plug(m, k, connected, mode)
      PROVE  DisplayIInv'
  BY <1>1, PlugStep
<1>2. CASE Lid
  BY <1>2, LidStep
<1>3. CASE Rescan
  BY <1>3, RescanStep
<1>4. ASSUME NEW w \in Sizes, NEW h \in Sizes, NEW place \in Places,
             DrawBox(w, h, place) \/ ShowImage(w, h, place)
      PROVE  DisplayIInv'
  BY <1>4, DrawBoxStep, ShowImageStep
<1>5. ASSUME NEW cw \in FontSizes, NEW ch \in FontSizes, ClearBorder(cw, ch) PROVE DisplayIInv'
  BY <1>5, ClearBorderStep
<1>6. CASE UNCHANGED displayVars
  BY <1>6 DEF displayVars, DisplayIInv, DisplayTypeOK, OnConnector, FollowsIds, DrawsAsAsked, WithinInts, TooLarge, PlacedAsAsked
<1> QED
  BY <1>1, <1>2, <1>3, <1>4, <1>5, <1>6 DEF DisplayNext

LEMMA AlwaysDisplayIInv == DisplaySpec => []DisplayIInv
<1> QED
  BY DisplayInitOK, DisplayNextOK, PTL DEF DisplaySpec

\* Whatever is plugged, closed or asked for, with sizes and positions that
\* overflow an int or not, nothing outside the framebuffer is written.
THEOREM DisplayTypeCorrect == DisplaySpec => []DisplayTypeOK
<1>1. DisplayIInv => DisplayTypeOK
  BY DEF DisplayIInv
<1> QED
  BY <1>1, AlwaysDisplayIInv, PTL

\* Where ids are apart, the connector tells the device.
LEMMA IdTellsDevice == DisplayIInv => FollowsWhereIdsApart
<1> SUFFICES ASSUME DisplayIInv, IdsApart, ~changed PROVE OnBest
  BY DEF FollowsWhereIdsApart
<1> DEFINE best == BestMinor(devices, lid)
           k == MainConnector(devices[best], lid)
<1>1. devices \in Seq(DeviceType) /\ lid \in BOOLEAN
  BY DEF DisplayIInv, DisplayTypeOK
<1>2. (drm = NoDrm <=> best = None) /\ drm.id = ConnectorOf(devices, lid, best)
  BY DEF DisplayIInv, FollowsIds
<1>3. best # None => best \in DOMAIN devices /\ Usable(devices[best], lid)
  BY <1>1, ScanFindsBest
<1> HIDE DEF best
<1>4. CASE best = None
  BY <1>2, <1>4 DEF OnBest, NoDrm, best
<1>5. CASE best # None
  <2>1. devices[best] \in DeviceType
    BY <1>1, <1>3, <1>5
  <2>2. k \in DOMAIN devices[best].connectors
    BY <1>1, <1>3, <1>5, <2>1, MainConnectorType DEF Usable
  <2>3. devices[best].connectors[k].id = drm.id
    BY <1>2, <1>5 DEF ConnectorOf
  <2> HIDE DEF k
  <2>4. /\ drm.minor \in DOMAIN devices
        /\ \E j \in DOMAIN devices[drm.minor].connectors :
             devices[drm.minor].connectors[j].id = drm.id
    BY <1>2, <1>5 DEF DisplayIInv, DisplayTypeOK, OnConnector
  <2>5. drm.minor = best
    BY <1>3, <1>5, <2>2, <2>3, <2>4 DEF IdsApart
  <2> QED
    BY <1>2, <2>5 DEF OnBest, best
<1> QED
  BY <1>4, <1>5

\* After a rescan the console is on the device and the connector of the best
\* display, whatever was plugged or closed before, on any machine no two of whose
\* devices have a connector with the same id.
THEOREM AlwaysFollowsWhereIdsApart == DisplaySpec => []FollowsWhereIdsApart
<1> QED
  BY IdTellsDevice, AlwaysDisplayIInv, PTL

\* Boxes, images and borders appear where they were asked to, for monitors of
\* any size turned any way and everything that does not overflow an int.
THEOREM AlwaysDrawsAsAsked == DisplaySpec => []DrawsAsAsked
<1>1. DisplayIInv => DrawsAsAsked
  BY DEF DisplayIInv
<1> QED
  BY <1>1, AlwaysDisplayIInv, PTL
-----------------------------------------------------------------------------
(* The keyboards: their types.                                             *)

EventType ==
  {Syn} \cup {Change(m, down) : m \in Modifiers, down \in BOOLEAN}
        \cup {Press(down) : down \in SUBSET Modifiers}

Queue == {q \in Seq(EventType) : Len(q) <= MaxQueue}
DevType == [path : Paths, plug : 1 .. MaxPlugs, queue : Queue]
UdevType == [action : {"add", "remove"}, path : Paths]

LEMMA EventFacts ==
  ASSUME NEW e \in EventType
  PROVE  /\ e.kind \in {"syn", "modifier", "press"}
         /\ e.kind = "syn" <=> e = Syn
         /\ e.kind = "modifier" => e.key \in Modifiers /\ e.down \in BOOLEAN
         /\ e.kind = "press" => e.held \in SUBSET Modifiers
<1>1. CASE e = Syn
  BY <1>1 DEF Syn
<1>2. ASSUME NEW m \in Modifiers, NEW b \in BOOLEAN, e = Change(m, b)
      PROVE  e.kind = "modifier" /\ e.key \in Modifiers /\ e.down \in BOOLEAN /\ e # Syn
  BY <1>2 DEF Change, Syn
<1>3. ASSUME NEW h \in SUBSET Modifiers, e = Press(h)
      PROVE  e.kind = "press" /\ e.held \in SUBSET Modifiers /\ e # Syn
  BY <1>3 DEF Press, Syn
<1> QED
  BY <1>1, <1>2, <1>3 DEF EventType, Syn

Types ==
  /\ devs \in Seq(DevType) /\ udevq \in Seq(UdevType)
  /\ kbd \in SUBSET Modifiers /\ found \in SUBSET Paths /\ readable \in SUBSET (1 .. MaxPlugs)
  /\ plugged \in [Paths -> 0 .. MaxPlugs] /\ plugs \in 0 .. MaxPlugs
  /\ held \in [Paths -> SUBSET Modifiers] /\ refused \in SUBSET Paths

Bits == disturbed \in BOOLEAN /\ pc \in {"init", "enumerate", "select", "dev", "input"}
-----------------------------------------------------------------------------
(* The device list.                                                        *)

\* A device of the list was opened as this keyboard.
Has(list, p, n) == \E u \in 1 .. Len(list) : list[u].path = p /\ list[u].plug = n

Once(list) == \A n, u \in 1 .. Len(list) : list[n].path = list[u].path => n = u

\* input_remove takes one path from the list and no other.
LEMMA RemoveFacts ==
  ASSUME NEW list \in Seq(DevType), Once(list), NEW path
  PROVE  LET new == InputRemove(list, path)
         IN  /\ new \in Seq(DevType) /\ Once(new)
             /\ \A p, n : Has(new, p, n) <=> Has(list, p, n) /\ p # path
<1> DEFINE new == InputRemove(list, path)
           at == {u \in 1 .. Len(list) : list[u].path = path}
           L == Len(list)
<1>1. CASE at = {}
  BY <1>1 DEF InputRemove, Has
<1>2. CASE at # {}
  <2> DEFINE u == CHOOSE n \in at : \A m \in at : n <= m
  <2>1. PICK w \in at : at = {w}
    BY <1>2 DEF Once
  <2>2. u \in at /\ at = {u}
    BY <2>1
  <2>3. new = SubSeq([list EXCEPT ![u] = list[L]], 1, Len([list EXCEPT ![u] = list[L]]) - 1)
    BY <1>2 DEF InputRemove, Front, ReplaceAt, Last
  <2> HIDE DEF u, new
  <2>4. u \in 1 .. L /\ L \in Nat /\ list[u].path = path /\ \A n \in 1 .. L : list[n].path = path => n = u
    BY <2>2
  <2> HIDE DEF at
  <2>5. /\ [list EXCEPT ![u] = list[L]] \in Seq(DevType)
        /\ Len([list EXCEPT ![u] = list[L]]) = L
        /\ \A n \in 1 .. L : [list EXCEPT ![u] = list[L]][n] = IF n = u THEN list[L] ELSE list[n]
    BY <2>4
  <2>6. /\ new \in Seq(DevType) /\ Len(new) = L - 1
        /\ \A n \in 1 .. L - 1 : new[n] = IF n = u THEN list[L] ELSE list[n]
    BY <2>3, <2>4, <2>5
  <2>7. Once(new)
    BY <2>4, <2>6 DEF Once
  <2>8. ASSUME NEW p, NEW n, Has(new, p, n) PROVE Has(list, p, n) /\ p # path
    BY <2>4, <2>6, <2>8 DEF Has, Once
  <2>9. ASSUME NEW p, NEW n, Has(list, p, n), p # path PROVE Has(new, p, n)
    <3>1. PICK v \in 1 .. L : list[v].path = p /\ list[v].plug = n
      BY <2>9 DEF Has
    <3>2. v # u
      BY <2>4, <2>9, <3>1
    <3>3. CASE v = L
      <4>1. u \in 1 .. L - 1 /\ new[u] = list[v]
        BY <2>4, <2>6, <3>2, <3>3
      <4> QED
        BY <2>6, <3>1, <4>1 DEF Has
    <3>4. CASE v # L
      <4>1. v \in 1 .. L - 1 /\ new[v] = list[v]
        BY <2>4, <2>6, <3>2, <3>4
      <4> QED
        BY <2>6, <3>1, <4>1 DEF Has
    <3> QED
      BY <3>3, <3>4
  <2> QED
    BY <2>6, <2>7, <2>8, <2>9 DEF new
<1> QED
  BY <1>1, <1>2

\* input_add adds the keyboard that is at the path, unless the path is there.
LEMMA AddFacts ==
  ASSUME Types, Once(devs), NEW path \in Paths, NEW grabbed \in BOOLEAN
  PROVE  LET new == InputAdd(devs, path, grabbed)
             one == [path |-> path, plug |-> plugged[path], queue |-> <<>>]
         IN  /\ new \in Seq(DevType) /\ Once(new)
             /\ \/ new = devs
                \/ /\ new = Append(devs, one) /\ plugged[path] # 0
                   /\ \A n : ~Has(devs, path, n)
             /\ \A p, n : Has(devs, p, n) => Has(new, p, n)
             /\ \A p, n : Has(new, p, n) =>
                  Has(devs, p, n) \/ (p = path /\ n = plugged[path] /\ n # 0)
             /\ plugged[path] # 0 /\ ~grabbed => \E n : Has(new, path, n)
             /\ grabbed => new = devs
<1> DEFINE new == InputAdd(devs, path, grabbed)
           one == [path |-> path, plug |-> plugged[path], queue |-> <<>>]
           L == Len(devs)
<1>0. devs \in Seq(DevType) /\ plugged[path] \in 0 .. MaxPlugs /\ L \in Nat
  BY DEF Types
<1>1. CASE \E u \in 1 .. L : devs[u].path = path
  <2>1. new = devs /\ \E n : Has(devs, path, n)
    BY <1>1 DEF InputAdd, Has
  <2> QED
    BY <1>0, <2>1
<1>2. CASE plugged[path] = 0 \/ grabbed
  BY <1>0, <1>2 DEF InputAdd
<1>3. CASE ~(\E u \in 1 .. L : devs[u].path = path) /\ plugged[path] # 0 /\ ~grabbed
  <2>1. new = Append(devs, one)
    BY <1>3 DEF InputAdd
  <2>2. one \in DevType /\ one.path = path /\ one.plug = plugged[path]
    <3>1. <<>> \in Queue /\ plugged[path] \in 1 .. MaxPlugs
      BY <1>0, <1>3, BoundsAssumption DEF Queue
    <3> QED
      BY <3>1 DEF DevType
  <2> HIDE DEF one, new
  <2>3. /\ new \in Seq(DevType) /\ Len(new) = L + 1 /\ new[L + 1] = one
        /\ \A n \in 1 .. L : new[n] = devs[n]
    BY <1>0, <2>1, <2>2, AppendProperties
  <2>4. \A n : ~Has(devs, path, n)
    BY <1>3 DEF Has
  <2>5. Once(new)
    BY <1>0, <1>3, <2>2, <2>3 DEF Once
  <2>6. ASSUME NEW p, NEW n, Has(devs, p, n) PROVE Has(new, p, n)
    <3>1. PICK v \in 1 .. L : devs[v].path = p /\ devs[v].plug = n
      BY <2>6 DEF Has
    <3> QED
      BY <1>0, <2>3, <3>1 DEF Has
  <2>7. Has(new, path, plugged[path])
    BY <1>0, <2>2, <2>3 DEF Has
  <2>8. ASSUME NEW p, NEW n, Has(new, p, n)
        PROVE  Has(devs, p, n) \/ (p = path /\ n = plugged[path] /\ n # 0)
    <3>1. PICK v \in 1 .. L + 1 : new[v].path = p /\ new[v].plug = n
      BY <2>3, <2>8 DEF Has
    <3>2. CASE v = L + 1
      BY <1>3, <2>2, <2>3, <3>1, <3>2
    <3>3. CASE v # L + 1
      BY <1>0, <2>3, <3>1, <3>3 DEF Has
    <3> QED
      BY <3>2, <3>3
  <2> QED
    BY <1>3, <2>1, <2>3, <2>4, <2>5, <2>6, <2>7, <2>8 DEF new, one
<1> QED
  BY <1>1, <1>2, <1>3
-----------------------------------------------------------------------------
(* The udev socket.                                                        *)

Pending(p) == \E n \in 1 .. Len(udevq) : udevq[n].path = p
Leaving(p) == \E n \in 1 .. Len(udevq) : udevq[n].path = p /\ udevq[n].action = "remove"

\* The last event of a path tells what is there.
LastTrue ==
  \A n \in 1 .. Len(udevq) :
    (\A m \in n + 1 .. Len(udevq) : udevq[m].path # udevq[n].path)
      => (udevq[n].action = "add" <=> plugged[udevq[n].path] # 0)

LEMMA Queued ==
  ASSUME Types, NEW e \in UdevType, udevq' = Append(udevq, e)
  PROVE  /\ udevq' \in Seq(UdevType)
         /\ \A p : Pending(p)' <=> Pending(p) \/ p = e.path
         /\ \A p : Leaving(p) => Leaving(p)'
         /\ e.action = "remove" => Leaving(e.path)'
         /\ \A p : Leaving(p)' => Leaving(p) \/ e.action = "remove"
<1> DEFINE L == Len(udevq)
<1>1. /\ udevq' \in Seq(UdevType) /\ Len(udevq') = L + 1 /\ udevq'[L + 1] = e /\ L \in Nat
      /\ \A n \in 1 .. L : udevq'[n] = udevq[n]
  BY AppendProperties DEF Types
<1>2. ASSUME NEW p PROVE Pending(p)' <=> Pending(p) \/ p = e.path
  BY <1>1 DEF Pending
<1>3. ASSUME NEW p, Leaving(p) PROVE Leaving(p)'
  BY <1>1, <1>3 DEF Leaving
<1>4. ASSUME e.action = "remove" PROVE Leaving(e.path)'
  BY <1>1, <1>4 DEF Leaving
<1>5. ASSUME NEW p, Leaving(p)' PROVE Leaving(p) \/ e.action = "remove"
  BY <1>1, <1>5 DEF Leaving
<1> QED
  BY <1>1, <1>2, <1>3, <1>4, <1>5

\* An event that says what has just become true.
LEMMA QueuedTrue ==
  ASSUME Types, LastTrue, NEW e \in UdevType, udevq' = Append(udevq, e),
         \A p \in Paths \ {e.path} : plugged'[p] = plugged[p],
         e.action = "add" <=> plugged'[e.path] # 0
  PROVE  LastTrue'
<1> DEFINE L == Len(udevq)
<1>1. /\ Len(udevq') = L + 1 /\ udevq'[L + 1] = e /\ L \in Nat
      /\ \A n \in 1 .. L : udevq'[n] = udevq[n] /\ udevq[n] \in UdevType
  BY AppendProperties DEF Types
<1> SUFFICES ASSUME NEW n \in 1 .. L + 1,
                    \A m \in n + 1 .. L + 1 : udevq'[m].path # udevq'[n].path
             PROVE  udevq'[n].action = "add" <=> plugged'[udevq'[n].path] # 0
  BY <1>1 DEF LastTrue
<1>2. CASE n = L + 1
  BY <1>1, <1>2
<1>3. CASE n # L + 1
  <2>1. n \in 1 .. L /\ L + 1 \in n + 1 .. L + 1 /\ udevq'[n] = udevq[n] /\ udevq[n] \in UdevType
    BY <1>1, <1>3
  <2>2. udevq[n].path \in Paths \ {e.path}
    BY <1>1, <2>1 DEF UdevType
  <2>3. \A m \in n + 1 .. L : udevq[m].path # udevq[n].path
    BY <1>1, <2>1
  <2> QED
    BY <2>1, <2>2, <2>3 DEF LastTrue
<1> QED
  BY <1>2, <1>3

LEMMA Unqueued ==
  ASSUME Types, LastTrue, udevq # <<>>, udevq' = Tail(udevq), UNCHANGED plugged
  PROVE  /\ Head(udevq) \in UdevType /\ udevq' \in Seq(UdevType) /\ LastTrue'
         /\ \A p : Pending(p) <=> Pending(p)' \/ p = Head(udevq).path
         /\ \A p : Leaving(p) <=> Leaving(p)' \/ (p = Head(udevq).path /\ Head(udevq).action = "remove")
         /\ \A p : p = Head(udevq).path /\ ~Pending(p)' =>
              (Head(udevq).action = "add" <=> plugged[p] # 0)
<1> DEFINE L == Len(udevq)
<1>1. /\ udevq' \in Seq(UdevType) /\ L \in Nat /\ L >= 1 /\ Len(udevq') = L - 1
      /\ \A n \in 1 .. L - 1 : udevq'[n] = udevq[n + 1]
      /\ Head(udevq) = udevq[1] /\ udevq[1] \in UdevType
  BY HeadTailProperties DEF Types
<1>2. \A n \in 2 .. L : n - 1 \in 1 .. L - 1 /\ udevq'[n - 1] = udevq[n]
  BY <1>1
<1>3. ASSUME NEW p PROVE Pending(p) <=> Pending(p)' \/ p = Head(udevq).path
  <2>1. Pending(p) => Pending(p)' \/ p = Head(udevq).path
    <3> SUFFICES ASSUME NEW n \in 1 .. L, udevq[n].path = p, p # Head(udevq).path PROVE Pending(p)'
      BY DEF Pending
    <3>1. n \in 2 .. L
      BY <1>1
    <3> QED
      BY <1>1, <1>2, <3>1 DEF Pending
  <2>2. Pending(p)' => Pending(p)
    BY <1>1 DEF Pending
  <2>3. p = Head(udevq).path => Pending(p)
    BY <1>1 DEF Pending
  <2> QED
    BY <2>1, <2>2, <2>3
<1>4. ASSUME NEW p
      PROVE  Leaving(p) <=> Leaving(p)' \/ (p = Head(udevq).path /\ Head(udevq).action = "remove")
  <2>1. Leaving(p) => Leaving(p)' \/ (p = Head(udevq).path /\ Head(udevq).action = "remove")
    <3> SUFFICES ASSUME NEW n \in 1 .. L, udevq[n].path = p, udevq[n].action = "remove", n # 1
                 PROVE  Leaving(p)'
      BY <1>1 DEF Leaving
    <3>1. n \in 2 .. L
      BY <1>1
    <3> QED
      BY <1>1, <1>2, <3>1 DEF Leaving
  <2>2. Leaving(p)' => Leaving(p)
    BY <1>1 DEF Leaving
  <2>3. p = Head(udevq).path /\ Head(udevq).action = "remove" => Leaving(p)
    BY <1>1 DEF Leaving
  <2> QED
    BY <2>1, <2>2, <2>3
<1>5. LastTrue'
  <2> SUFFICES ASSUME NEW n \in 1 .. L - 1,
                      \A m \in n + 1 .. L - 1 : udevq'[m].path # udevq'[n].path
               PROVE  udevq'[n].action = "add" <=> plugged[udevq'[n].path] # 0
    BY <1>1 DEF LastTrue
  <2>1. n + 1 \in 1 .. L /\ udevq'[n] = udevq[n + 1]
    BY <1>1
  <2>2. ASSUME NEW m \in (n + 1) + 1 .. L PROVE udevq[m].path # udevq[n + 1].path
    <3>1. m \in 2 .. L /\ m - 1 \in n + 1 .. L - 1
      BY <1>1
    <3> QED
      BY <1>2, <2>1, <3>1
  <2> QED
    BY <2>1, <2>2 DEF LastTrue
<1>6. ASSUME NEW p, p = Head(udevq).path, ~Pending(p)'
      PROVE  Head(udevq).action = "add" <=> plugged[p] # 0
  <2>1. \A m \in 2 .. L : udevq[m].path # udevq[1].path
    BY <1>1, <1>2, <1>6 DEF Pending
  <2> QED
    BY <1>1, <1>6, <2>1 DEF LastTrue
<1> QED
  BY <1>1, <1>3, <1>4, <1>5, <1>6
-----------------------------------------------------------------------------
(* The list follows the keyboards.                                         *)

\* A device that is no longer the one at its path has its removal to come.
Stale ==
  \A u \in 1 .. Len(devs) : devs[u].plug # plugged[devs[u].path] => Leaving(devs[u].path)

\* A keyboard nobody is going to tell of any more has been opened.
Opened ==
  pc # "init" =>
    \A p \in Paths : plugged[p] # 0 /\ p \notin refused /\ p \notin found /\ ~Pending(p)
                       => Has(devs, p, plugged[p])

Phases ==
  /\ pc = "init" => devs = <<>>
  /\ pc # "enumerate" => found = {}
  /\ pc = "dev" => udevq # <<>>

Followed == Once(devs) /\ Stale /\ Opened /\ LastTrue /\ Phases

LEMMA StaleHas == Stale <=> \A p, n : Has(devs, p, n) /\ n # plugged[p] => Leaving(p)
BY DEF Stale, Has

LEMMA StaleHasNext == Stale' <=> \A p, n : Has(devs', p, n) /\ n # plugged'[p] => Leaving(p)'
BY DEF Stale, Has

\* The same keyboards are open, whatever was read from them.
SameBoards ==
  /\ devs' \in Seq(DevType) /\ Len(devs') = Len(devs)
  /\ \A u \in 1 .. Len(devs) : devs'[u].path = devs[u].path /\ devs'[u].plug = devs[u].plug

LEMMA SameHas ==
  ASSUME SameBoards
  PROVE  /\ \A p, n : Has(devs', p, n) <=> Has(devs, p, n)
         /\ Once(devs) => Once(devs')
BY DEF SameBoards, Has, Once

\* Steps of the loop that neither open nor close a keyboard, or hear of one.
LEMMA SameFollowed ==
  ASSUME Types, Followed, SameBoards, UNCHANGED <<udevq, plugged, refused, found>>,
         pc' = pc \/ (pc # "init" /\ pc' # "init" /\ found = {} /\ (pc' = "dev" => udevq # <<>>))
  PROVE  Followed'
<1>1. /\ \A p, n : Has(devs', p, n) <=> Has(devs, p, n)
      /\ Once(devs')
  BY SameHas DEF Followed
<1>2. \A p : (Pending(p)' <=> Pending(p)) /\ (Leaving(p)' <=> Leaving(p))
  BY DEF Pending, Leaving
<1>3. Stale'
  BY <1>1, <1>2, StaleHas, StaleHasNext DEF Followed
<1>4. Opened'
  BY <1>1, <1>2 DEF Followed, Opened
<1>5. LastTrue'
  BY DEF Followed, LastTrue
<1>6. Phases'
  BY DEF Followed, Phases, SameBoards, Types
<1> QED
  BY <1>1, <1>3, <1>4, <1>5, <1>6 DEF Followed

LEMMA DeviceHas ==
  ASSUME devs \in Seq(DevType)
  PROVE  /\ \A p : (\E d \in Device : d.path = p) <=> \E n : Has(devs, p, n)
         /\ \A p, n : (\E d \in Device : d.path = p /\ d.plug = n) <=> Has(devs, p, n)
         /\ Device \subseteq DevType
<1>1. \A u \in 1 .. Len(devs) : devs[u] \in DevType
  OBVIOUS
<1>2. Device \subseteq DevType
  BY <1>1 DEF Device
<1>3. ASSUME NEW p, NEW n
      PROVE  (\E d \in Device : d.path = p /\ d.plug = n) <=> Has(devs, p, n)
  BY DEF Device, Has
<1>4. ASSUME NEW p PROVE (\E d \in Device : d.path = p) <=> \E n : Has(devs, p, n)
  <2>1. ASSUME NEW d \in Device, d.path = p PROVE Has(devs, p, d.plug)
    BY <1>3, <2>1
  <2> QED
    BY <1>3, <2>1
<1> QED
  BY <1>2, <1>3, <1>4

\* What an attempt to open a keyboard leaves.
LEMMA TryAddFacts ==
  ASSUME Types, Once(devs), NEW path \in Paths, NEW grabbed \in BOOLEAN, TryAdd(path, grabbed)
  PROVE  /\ devs' \in Seq(DevType) /\ Once(devs') /\ refused' \in SUBSET Paths
         /\ \A p, n : Has(devs, p, n) => Has(devs', p, n)
         /\ \A p, n : Has(devs', p, n) => Has(devs, p, n) \/ n = plugged[p]
         /\ plugged[path] # 0 /\ path \notin refused' => \E n : Has(devs', path, n)
         /\ \A p : p # path /\ p \notin refused' => p \notin refused
<1> DEFINE refuses == grabbed /\ plugged[path] # 0 /\ \A d \in Device : d.path # path
<1>1. /\ devs' = InputAdd(devs, path, grabbed)
      /\ refused' = IF refuses THEN refused \cup {path} ELSE refused \ {path}
  BY DEF TryAdd
<1>2. /\ devs' \in Seq(DevType) /\ Once(devs')
      /\ \A p, n : Has(devs, p, n) => Has(devs', p, n)
      /\ \A p, n : Has(devs', p, n) => Has(devs, p, n) \/ n = plugged[p]
      /\ plugged[path] # 0 /\ ~grabbed => \E n : Has(devs', path, n)
  BY <1>1, AddFacts
<1>3. ASSUME plugged[path] # 0, path \notin refused' PROVE \E n : Has(devs', path, n)
  <2>1. ~refuses
    BY <1>1, <1>3
  <2>2. CASE ~grabbed
    BY <1>2, <1>3, <2>2
  <2>3. CASE grabbed
    <3>1. \E d \in Device : d.path = path
      BY <1>3, <2>1, <2>3
    <3>2. \E n : Has(devs, path, n)
      BY <3>1, DeviceHas DEF Types
    <3> QED
      BY <1>2, <3>2
  <2> QED
    BY <2>2, <2>3
<1>4. refused' \in SUBSET Paths /\ \A p : p # path /\ p \notin refused' => p \notin refused
  BY <1>1 DEF Types
<1> QED
  BY <1>2, <1>3, <1>4

LEMMA FollowedInit == Init => Followed /\ Types
<1> SUFFICES ASSUME Init PROVE Followed /\ Types
  OBVIOUS
<1>1. Types
  BY BoundsAssumption DEF Init, Types
<1>2. Followed
  BY DEF Init, Followed, Once, Stale, Opened, LastTrue, Phases
<1> QED
  BY <1>1, <1>2

LEMMA EnumerateFollowed == ASSUME Types, Followed, Enumerate PROVE Types' /\ Followed'
<1>1. /\ UNCHANGED <<devs, kbd, readable, udevq, plugged, plugs, held, refused>>
      /\ pc = "init" /\ pc' = IF found' = {} THEN "select" ELSE "enumerate"
      /\ found' = {p \in Paths : plugged[p] # 0}
  BY DEF Enumerate, kernelVars
<1>2. Types'
  BY <1>1 DEF Types
<1>3. Stale' /\ LastTrue' /\ Once(devs')
  BY <1>1 DEF Followed, Stale, LastTrue, Leaving
<1>4. Opened' /\ Phases'
  BY <1>1 DEF Opened, Phases
<1> QED
  BY <1>2, <1>3, <1>4 DEF Followed

LEMMA AddExistingFollowed ==
  ASSUME Types, Followed, NEW grabbed \in BOOLEAN, AddExisting(grabbed)
  PROVE  Types' /\ Followed'
<1>1. PICK path \in found : TryAdd(path, grabbed) /\ found' = found \ {path}
  BY DEF AddExisting
<1>2. /\ UNCHANGED <<kbd, readable, udevq, plugged, plugs, held>>
      /\ pc = "enumerate" /\ pc' = IF found' = {} THEN "select" ELSE pc
  BY DEF AddExisting, kernelVars
<1>3. path \in Paths
  BY DEF Types
<1>4. /\ devs' \in Seq(DevType) /\ Once(devs') /\ refused' \in SUBSET Paths
      /\ \A p, n : Has(devs, p, n) => Has(devs', p, n)
      /\ \A p, n : Has(devs', p, n) => Has(devs, p, n) \/ n = plugged[p]
      /\ plugged[path] # 0 /\ path \notin refused' => \E n : Has(devs', path, n)
      /\ \A p : p # path /\ p \notin refused' => p \notin refused
  BY <1>1, <1>3, TryAddFacts DEF Followed
<1>5. Types'
  BY <1>1, <1>2, <1>4 DEF Types
<1>6. \A p : (Pending(p)' <=> Pending(p)) /\ (Leaving(p)' <=> Leaving(p)) /\ (Leaving(p) => Pending(p))
  BY <1>2 DEF Pending, Leaving
<1>7. Stale'
  BY <1>2, <1>4, <1>6, StaleHas, StaleHasNext DEF Followed
<1>8. ASSUME NEW p \in Paths, plugged[p] # 0, p \notin refused', p \notin found', ~Pending(p)
      PROVE  Has(devs', p, plugged[p])
  <2>1. CASE p = path
    <3>1. PICK n : Has(devs', p, n)
      BY <1>4, <1>8, <2>1
    <3>2. n = plugged[p]
      BY <1>4, <1>6, <1>8, <3>1, StaleHas DEF Followed
    <3> QED
      BY <3>1, <3>2
  <2>2. CASE p # path
    BY <1>1, <1>2, <1>4, <1>8, <2>2 DEF Followed, Opened
  <2> QED
    BY <2>1, <2>2
<1>9. Opened'
  BY <1>2, <1>6, <1>8 DEF Opened
<1>10. LastTrue' /\ Phases'
  BY <1>1, <1>2 DEF Followed, LastTrue, Phases
<1> QED
  BY <1>4, <1>5, <1>7, <1>9, <1>10 DEF Followed

LEMMA SelectFollowed == ASSUME Types, Followed, Select PROVE Types' /\ Followed'
<1>1. /\ UNCHANGED <<devs, kbd, found, udevq, plugged, plugs, held, refused>>
      /\ readable' = {d.plug : d \in {e \in Device : Ready(e)}}
      /\ pc = "select" /\ pc' = IF udevq # <<>> THEN "dev" ELSE "input"
  BY DEF Select, kernelVars
<1>2. readable' \in SUBSET (1 .. MaxPlugs)
  BY <1>1, DeviceHas DEF Types, DevType
<1>3. Types'
  BY <1>1, <1>2 DEF Types
<1>4. SameBoards
  BY <1>1 DEF SameBoards, Types
<1> QED
  BY <1>1, <1>3, <1>4, SameFollowed DEF Followed, Phases

LEMMA DevDispatchFollowed ==
  ASSUME Types, Followed, NEW grabbed \in BOOLEAN, DevDispatch(grabbed)
  PROVE  Types' /\ Followed'
<1> DEFINE e == Head(udevq)
           path == e.path
<1>1. /\ UNCHANGED <<kbd, found, readable, plugged, plugs, held>>
      /\ udevq' = Tail(udevq) /\ udevq # <<>> /\ pc = "dev" /\ pc' = "input" /\ found = {}
      /\ IF e.action = "add" THEN TryAdd(path, grabbed)
         ELSE devs' = InputRemove(devs, path) /\ UNCHANGED <<refused, disturbed>>
  BY DEF DevDispatch, kernelVars, Followed, Phases
<1>2. /\ e \in UdevType /\ udevq' \in Seq(UdevType) /\ LastTrue'
      /\ \A p : Pending(p) <=> Pending(p)' \/ p = path
      /\ \A p : Leaving(p) <=> Leaving(p)' \/ (p = path /\ e.action = "remove")
      /\ \A p : p = path /\ ~Pending(p)' => (e.action = "add" <=> plugged[p] # 0)
  BY <1>1, Unqueued DEF Followed
<1>3. \A p : Leaving(p)' => Pending(p)'
  BY DEF Leaving, Pending
<1>4. path \in Paths /\ e.action \in {"add", "remove"}
  BY <1>2 DEF UdevType
<1>5. Phases'
  BY <1>1 DEF Phases
<1> HIDE DEF e, path
<1>6. CASE e.action = "add"
  <2>1. /\ devs' \in Seq(DevType) /\ Once(devs') /\ refused' \in SUBSET Paths
        /\ \A p, n : Has(devs, p, n) => Has(devs', p, n)
        /\ \A p, n : Has(devs', p, n) => Has(devs, p, n) \/ n = plugged[p]
        /\ plugged[path] # 0 /\ path \notin refused' => \E n : Has(devs', path, n)
        /\ \A p : p # path /\ p \notin refused' => p \notin refused
    BY <1>1, <1>4, <1>6, TryAddFacts DEF Followed
  <2>2. Types'
    BY <1>1, <1>2, <2>1 DEF Types
  <2>3. Stale'
    BY <1>1, <1>2, <1>6, <2>1, StaleHas, StaleHasNext DEF Followed
  <2>4. ASSUME NEW p \in Paths, plugged[p] # 0, p \notin refused', ~Pending(p)'
        PROVE  Has(devs', p, plugged[p])
    <3>1. CASE p = path
      <4>1. PICK n : Has(devs', p, n)
        BY <2>1, <2>4, <3>1
      <4>2. ~Leaving(p)
        BY <1>2, <1>3, <1>6, <2>4
      <4>3. n = plugged[p]
        BY <2>1, <4>1, <4>2, StaleHas DEF Followed
      <4> QED
        BY <4>1, <4>3
    <3>2. CASE p # path
      BY <1>1, <1>2, <2>1, <2>4, <3>2 DEF Followed, Opened
    <3> QED
      BY <3>1, <3>2
  <2>5. Opened'
    BY <1>1, <2>4 DEF Opened
  <2> QED
    BY <1>2, <1>5, <2>1, <2>2, <2>3, <2>5 DEF Followed
<1>7. CASE e.action = "remove"
  <2>1. /\ devs' \in Seq(DevType) /\ Once(devs') /\ UNCHANGED refused
        /\ \A p, n : Has(devs', p, n) <=> Has(devs, p, n) /\ p # path
    BY <1>1, <1>7, RemoveFacts DEF Followed, Types
  <2>2. Types'
    BY <1>1, <1>2, <2>1 DEF Types
  <2>3. Stale'
    BY <1>1, <1>2, <2>1, StaleHas, StaleHasNext DEF Followed
  <2>4. ASSUME NEW p \in Paths, plugged[p] # 0, p \notin refused, ~Pending(p)'
        PROVE  Has(devs', p, plugged[p])
    <3>1. p # path
      BY <1>2, <1>7, <2>4
    <3>2. ~Pending(p)
      BY <1>2, <2>4, <3>1
    <3> QED
      BY <1>1, <2>1, <2>4, <3>1, <3>2 DEF Followed, Opened
  <2>5. Opened'
    BY <1>1, <2>1, <2>4 DEF Opened
  <2> QED
    BY <1>2, <1>5, <2>5, <2>1, <2>2, <2>3, <2>4 DEF Followed
<1> QED
  BY <1>4, <1>6, <1>7

LEMMA ReadGoneFollowed ==
  ASSUME Types, Followed, NEW u \in 1 .. Len(devs), ReadGone(u), pc = "input",
         UNCHANGED <<found, udevq, plugged, plugs, held, refused>>
  PROVE  Types' /\ Followed'
<1> DEFINE path == devs[u].path
<1>1. /\ plugged[path] # devs[u].plug /\ devs' = InputRemove(devs, path)
      /\ pc' = "select" /\ readable' = {} /\ UNCHANGED kbd
  BY DEF ReadGone
<1>2. /\ devs' \in Seq(DevType) /\ Once(devs')
      /\ \A p, n : Has(devs', p, n) <=> Has(devs, p, n) /\ p # path
  BY <1>1, RemoveFacts DEF Followed, Types
<1>3. Types'
  BY <1>1, <1>2 DEF Types
<1>4. \A p : (Pending(p)' <=> Pending(p)) /\ (Leaving(p)' <=> Leaving(p)) /\ (Leaving(p) => Pending(p))
  BY DEF Pending, Leaving
<1>5. Pending(path)
  BY <1>1, <1>4 DEF Followed, Stale
<1> HIDE DEF path
<1>6. Stale'
  BY <1>2, <1>4, StaleHas, StaleHasNext DEF Followed
<1>7. Opened'
  BY <1>1, <1>2, <1>4, <1>5 DEF Followed, Opened
<1>8. LastTrue' /\ Phases'
  BY <1>1 DEF Followed, LastTrue, Phases
<1> QED
  BY <1>2, <1>3, <1>6, <1>7, <1>8 DEF Followed

LEMMA Replaced ==
  ASSUME NEW s \in Seq(DevType), NEW u \in 1 .. Len(s), NEW one \in DevType,
         NEW t, t = [s EXCEPT ![u] = one]
  PROVE  /\ t \in Seq(DevType) /\ Len(t) = Len(s) /\ t[u] = one
         /\ \A n \in 1 .. Len(s) : n # u => t[n] = s[n]
OBVIOUS

\* Taking an event from a device leaves the keyboards as they were.
LEMMA ReadSameBoards ==
  ASSUME Types, NEW u \in 1 .. Len(devs), devs[u].queue # <<>>,
         devs' = [devs EXCEPT ![u].queue = Tail(@)]
  PROVE  /\ SameBoards /\ devs[u] \in DevType /\ Head(devs[u].queue) \in EventType
         /\ devs'[u].queue = Tail(devs[u].queue)
<1> DEFINE q == devs[u].queue
           one == [devs[u] EXCEPT !.queue = Tail(q)]
<1>0. devs \in Seq(DevType) /\ devs[u] \in DevType
  BY DEF Types
<1>1. q \in Seq(EventType) /\ Len(q) <= MaxQueue
  BY <1>0 DEF DevType, Queue
<1>2. Tail(q) \in Queue /\ Head(q) \in EventType
  <2>1. Tail(q) \in Seq(EventType) /\ Len(Tail(q)) = Len(q) - 1 /\ Head(q) \in EventType /\ Len(q) \in Nat
    BY <1>1, HeadTailProperties
  <2> QED
    BY <1>1, <2>1, BoundsAssumption DEF Queue
<1> HIDE DEF q
<1>3. one \in DevType /\ one.path = devs[u].path /\ one.plug = devs[u].plug /\ one.queue = Tail(q)
  BY <1>0, <1>2 DEF DevType
<1>4. devs' = [devs EXCEPT ![u] = one]
  BY DEF q
<1> HIDE DEF one
<1>5. devs' \in Seq(DevType) /\ Len(devs') = Len(devs) /\ devs'[u] = one
      /\ \A n \in 1 .. Len(devs) : n # u => devs'[n] = devs[n]
  BY ONLY <1>0, <1>3, <1>4, Replaced, u \in 1 .. Len(devs)
<1>6. SameBoards
  BY <1>3, <1>5 DEF SameBoards
<1> QED
  BY <1>0, <1>2, <1>3, <1>5, <1>6 DEF q

LEMMA InputDispatchFollowed == ASSUME Types, Followed, InputDispatch PROVE Types' /\ Followed'
<1>1. pc = "input" /\ UNCHANGED <<found, udevq, plugged, plugs, held, refused>>
  BY DEF InputDispatch, kernelVars
<1>2. ASSUME NEW u \in 1 .. Len(devs), ReadGone(u) PROVE Types' /\ Followed'
  BY <1>1, <1>2, ReadGoneFollowed
<1>3. ASSUME NEW u \in 1 .. Len(devs), ReadKey(u) PROVE Types' /\ Followed'
  <2>1. /\ devs[u].queue # <<>> /\ devs' = [devs EXCEPT ![u].queue = Tail(@)]
        /\ pc' = "select" /\ readable' = {}
        /\ Head(devs[u].queue).kind = "modifier" =>
             kbd' \in {kbd \cup {Head(devs[u].queue).key}, kbd \ {Head(devs[u].queue).key}}
        /\ Head(devs[u].queue).kind # "modifier" => kbd' = kbd
    BY <1>3 DEF ReadKey
  <2>2. SameBoards /\ Head(devs[u].queue) \in EventType
    BY <2>1, ReadSameBoards
  <2>3. kbd' \in SUBSET Modifiers
    <3> DEFINE e == Head(devs[u].queue)
    <3>1. e.kind = "modifier" => e.key \in Modifiers
      BY <2>2, EventFacts
    <3> HIDE DEF e
    <3>2. kbd' \in {kbd, kbd \cup {e.key}, kbd \ {e.key}} /\ (kbd' = kbd \/ e.kind = "modifier")
      BY <2>1 DEF e
    <3> QED
      BY <3>1, <3>2 DEF Types
  <2>4. Types'
    BY <1>1, <2>1, <2>2, <2>3 DEF Types, SameBoards
  <2> QED
    BY <1>1, <2>1, <2>2, <2>4, SameFollowed DEF Followed, Phases
<1>4. ASSUME NEW u \in 1 .. Len(devs), ReadSyn(u) PROVE Types' /\ Followed'
  <2>1. /\ devs[u].queue # <<>> /\ devs' = [devs EXCEPT ![u].queue = Tail(@)]
        /\ pc' = pc /\ readable' = readable \ {devs[u].plug} /\ kbd' = kbd
    BY <1>4 DEF ReadSyn
  <2>2. SameBoards
    BY <2>1, ReadSameBoards
  <2>3. Types'
    BY <1>1, <2>1, <2>2 DEF Types, SameBoards
  <2> QED
    BY <1>1, <2>1, <2>2, <2>3, SameFollowed
<1>5. CASE pc' = "select" /\ readable' = {} /\ UNCHANGED <<devs, kbd>>
  <2>1. SameBoards /\ Types'
    BY <1>1, <1>5 DEF SameBoards, Types
  <2> QED
    BY <1>1, <1>5, <2>1, SameFollowed DEF Followed, Phases
<1> QED
  BY <1>2, <1>3, <1>4, <1>5 DEF InputDispatch

LEMMA EventTypes ==
  /\ Syn \in EventType /\ \A h \in SUBSET Modifiers : Press(h) \in EventType
  /\ \A m \in Modifiers, down \in BOOLEAN : Change(m, down) \in EventType
BY DEF EventType

\* A queue after an event came, or was lost with all before it.
LEMMA QueueTypes ==
  ASSUME NEW q \in Queue, NEW e \in EventType
  PROVE  /\ <<Syn>> \in Queue
         /\ Len(q) + 2 <= MaxQueue => q \o <<e, Syn>> \in Queue
<1>1. Syn \in EventType /\ q \in Seq(EventType) /\ Len(q) \in Nat
  BY EventTypes DEF Queue
<1>2. <<Syn>> \in Seq(EventType) /\ Len(<<Syn>>) = 1
  BY <1>1
<1>3. <<e, Syn>> \in Seq(EventType) /\ Len(<<e, Syn>>) = 2
  BY <1>1
<1>4. q \o <<e, Syn>> \in Seq(EventType) /\ Len(q \o <<e, Syn>>) = Len(q) + 2
  BY <1>1, <1>3, ConcatProperties
<1> QED
  BY <1>1, <1>2, <1>4, BoundsAssumption DEF Queue

\* What arrives at the readers of a keyboard.
LEMMA DeliverFacts ==
  ASSUME Types, NEW p \in Paths, NEW e \in EventType, Deliver(p, e)
  PROVE  /\ SameBoards
         /\ \A u \in 1 .. Len(devs) :
              devs[u].path = p /\ devs[u].plug = plugged[p] /\ Len(devs[u].queue) + 2 <= MaxQueue
                => devs'[u].queue = devs[u].queue \o <<e, Syn>>
<1> DEFINE mine(d) == d.path = p /\ d.plug = plugged[p]
           full(d) == Len(d.queue) + 2 > MaxQueue
           new(d) == IF full(d) THEN <<Syn>> ELSE d.queue \o <<e, Syn>>
<1>1. devs \in Seq(DevType) /\ \A u \in 1 .. Len(devs) : devs[u] \in DevType
  BY DEF Types
<1>2. devs' = [u \in 1 .. Len(devs) |->
                 IF ~mine(devs[u]) THEN devs[u] ELSE [devs[u] EXCEPT !.queue = new(devs[u])]]
  BY DEF Deliver
<1>3. ASSUME NEW d \in DevType
      PROVE  /\ [d EXCEPT !.queue = new(d)] \in DevType
             /\ [d EXCEPT !.queue = new(d)].path = d.path
             /\ [d EXCEPT !.queue = new(d)].plug = d.plug
             /\ [d EXCEPT !.queue = new(d)].queue = new(d)
             /\ Len(d.queue) + 2 <= MaxQueue => new(d) = d.queue \o <<e, Syn>>
  <2>1. d.queue \in Queue /\ Len(d.queue) \in Nat
    BY DEF DevType, Queue
  <2>2. full(d) <=> ~(Len(d.queue) + 2 <= MaxQueue)
    BY <2>1, BoundsAssumption
  <2>3. new(d) \in Queue
    BY <2>1, <2>2, QueueTypes
  <2> HIDE DEF full
  <2>4. Len(d.queue) + 2 <= MaxQueue => new(d) = d.queue \o <<e, Syn>>
    BY <2>2
  <2> HIDE DEF new
  <2> QED
    BY <2>3, <2>4 DEF DevType
<1> HIDE DEF mine, new
<1> DEFINE after(d) == IF ~mine(d) THEN d ELSE [d EXCEPT !.queue = new(d)]
<1>4. /\ Len(devs') = Len(devs) /\ devs' \in Seq(DevType)
      /\ \A u \in 1 .. Len(devs) : devs'[u] = after(devs[u])
  <2>1. \A u \in 1 .. Len(devs) : after(devs[u]) \in DevType
    BY <1>1, <1>3
  <2>2. devs' = [u \in 1 .. Len(devs) |-> after(devs[u])]
    BY <1>2
  <2> HIDE DEF after
  <2> QED
    BY <1>1, <2>1, <2>2
<1>5. SameBoards
  BY <1>1, <1>3, <1>4 DEF SameBoards
<1>6. ASSUME NEW u \in 1 .. Len(devs), devs[u].path = p, devs[u].plug = plugged[p],
             Len(devs[u].queue) + 2 <= MaxQueue
      PROVE  devs'[u].queue = devs[u].queue \o <<e, Syn>>
  <2>1. mine(devs[u])
    BY <1>6 DEF mine
  <2> QED
    BY <1>1, <1>3, <1>4, <1>6, <2>1
<1> QED
  BY <1>5, <1>6

LEMMA PlugInFollowed ==
  ASSUME Types, Followed, NEW p \in Paths, PlugIn(p)
  PROVE  Types' /\ Followed'
<1> DEFINE e == [action |-> "add", path |-> p]
<1>1. /\ plugged[p] = 0 /\ plugs < MaxPlugs /\ plugs' = plugs + 1
      /\ plugged' = [plugged EXCEPT ![p] = plugs + 1] /\ held' = [held EXCEPT ![p] = {}]
      /\ UNCHANGED <<devs, kbd, pc, found, readable, refused>>
      /\ udevq' = Append(udevq, e) \/ (pc = "init" /\ udevq = <<>> /\ UNCHANGED udevq)
  BY DEF PlugIn
<1>2. e \in UdevType /\ e.path = p /\ e.action = "add"
  BY DEF UdevType
<1>3. /\ plugged' \in [Paths -> 0 .. MaxPlugs] /\ plugs' \in 0 .. MaxPlugs
      /\ held' \in [Paths -> SUBSET Modifiers]
      /\ plugged'[p] # 0 /\ \A q \in Paths \ {p} : plugged'[q] = plugged[q]
  BY <1>1, BoundsAssumption DEF Types
<1> HIDE DEF e
<1>4. udevq' \in Seq(UdevType) /\ LastTrue'
  <2>1. CASE udevq' = Append(udevq, e)
    BY <1>2, <1>3, <2>1, Queued, QueuedTrue DEF Followed
  <2>2. CASE udevq = <<>> /\ UNCHANGED udevq
    BY <2>2 DEF LastTrue, Types
  <2> QED
    BY <1>1, <2>1, <2>2
<1>5. Types'
  BY <1>1, <1>3, <1>4 DEF Types
<1>6. \A q : Leaving(q) => Leaving(q)'
  <2>1. CASE udevq' = Append(udevq, e)
    BY <1>2, <2>1, Queued
  <2>2. CASE UNCHANGED udevq
    BY <2>2 DEF Leaving
  <2> QED
    BY <1>1, <2>1, <2>2
<1>7. Stale'
  <2> SUFFICES ASSUME NEW u \in 1 .. Len(devs), devs[u].plug # plugged'[devs[u].path]
               PROVE  Leaving(devs[u].path)
    BY <1>1, <1>6 DEF Stale
  <2>1. devs[u] \in DevType
    BY DEF Types
  <2>2. devs[u].plug # 0 /\ devs[u].path \in Paths
    BY <2>1 DEF DevType
  <2>3. devs[u].plug # plugged[devs[u].path]
    BY <1>1, <1>3, <2>2
  <2> QED
    BY <2>3 DEF Followed, Stale
<1>8. Opened'
  <2>1. CASE udevq' = Append(udevq, e)
    <3>1. \A q : Pending(q)' <=> Pending(q) \/ q = p
      BY <1>2, <2>1, Queued
    <3> QED
      BY <1>1, <1>3, <3>1 DEF Followed, Opened
  <2>2. CASE pc = "init"
    BY <1>1, <2>2 DEF Opened
  <2> QED
    BY <1>1, <2>1, <2>2
<1>9. Phases'
  <2>1. udevq # <<>> => udevq' # <<>>
    BY <1>1, <1>2, AppendProperties DEF Types
  <2> QED
    BY <1>1, <2>1 DEF Followed, Phases
<1> QED
  BY <1>1, <1>4, <1>5, <1>7, <1>8, <1>9 DEF Followed

LEMMA UnplugFollowed ==
  ASSUME Types, Followed, NEW p \in Paths, Unplug(p)
  PROVE  Types' /\ Followed'
<1> DEFINE e == [action |-> "remove", path |-> p]
<1>1. /\ plugged' = [plugged EXCEPT ![p] = 0] /\ held' = [held EXCEPT ![p] = {}]
      /\ UNCHANGED <<devs, kbd, pc, found, readable, plugs, refused>>
      /\ udevq' = Append(udevq, e)
  BY DEF Unplug
<1>2. e \in UdevType /\ e.path = p /\ e.action = "remove"
  BY DEF UdevType
<1>3. /\ plugged' \in [Paths -> 0 .. MaxPlugs] /\ held' \in [Paths -> SUBSET Modifiers]
      /\ plugged'[p] = 0 /\ \A q \in Paths \ {p} : plugged'[q] = plugged[q]
  BY <1>1, BoundsAssumption DEF Types
<1> HIDE DEF e
<1>4. udevq' \in Seq(UdevType) /\ LastTrue'
  BY <1>1, <1>2, <1>3, Queued, QueuedTrue DEF Followed
<1>5. /\ \A q : Leaving(q) => Leaving(q)'
      /\ \A q : q = p => Leaving(q)'
      /\ \A q : Pending(q)' <=> Pending(q) \/ q = p
  BY <1>1, <1>2, Queued
<1>6. Types'
  BY <1>1, <1>3, <1>4 DEF Types
<1>7. Stale'
  <2> SUFFICES ASSUME NEW u \in 1 .. Len(devs), devs[u].plug # plugged'[devs[u].path],
                      devs[u].path # p
               PROVE  Leaving(devs[u].path)
    BY <1>1, <1>5 DEF Stale
  <2>1. devs[u] \in DevType
    BY DEF Types
  <2>2. devs[u].plug # plugged[devs[u].path]
    BY <1>3, <2>1 DEF DevType
  <2> QED
    BY <2>2 DEF Followed, Stale
<1>8. Opened'
  BY <1>1, <1>3, <1>5 DEF Followed, Opened
<1>9. Phases'
  <2>1. udevq' # <<>>
    BY <1>1, <1>2, AppendProperties DEF Types
  <2> QED
    BY <1>1, <2>1 DEF Followed, Phases
<1> QED
  BY <1>1, <1>4, <1>6, <1>7, <1>8, <1>9 DEF Followed

LEMMA KeyFollowed ==
  ASSUME Types, Followed, NEW p \in Paths,
         PressKey(p) \/ \E m \in Modifiers : Modify(p, m)
  PROVE  Types' /\ Followed'
<1>1. /\ UNCHANGED <<kbd, pc, found, readable, udevq, plugged, plugs, refused>>
      /\ \E e \in EventType : Deliver(p, e)
      /\ held' \in [Paths -> SUBSET Modifiers]
  <2>1. CASE PressKey(p)
    <3>1. Press(held[p]) \in EventType
      BY EventTypes DEF Types
    <3> QED
      BY <2>1, <3>1 DEF PressKey, kernelVars, Types
  <2>2. ASSUME NEW m \in Modifiers, Modify(p, m)
        PROVE  /\ UNCHANGED <<kbd, pc, found, readable, udevq, plugged, plugs, refused>>
               /\ \E e \in EventType : Deliver(p, e)
               /\ held' \in [Paths -> SUBSET Modifiers]
    <3>1. (m \notin held[p]) \in BOOLEAN
      OBVIOUS
    <3>2. Change(m, m \notin held[p]) \in EventType
      BY <3>1, EventTypes
    <3>3. held' \in [Paths -> SUBSET Modifiers]
      BY <2>2 DEF Modify, Types
    <3> QED
      BY <2>2, <3>2, <3>3 DEF Modify
  <2> QED
    BY <2>1, <2>2
<1>2. SameBoards
  BY <1>1, DeliverFacts
<1>3. Types'
  BY <1>1, <1>2 DEF Types, SameBoards
<1> QED
  BY <1>1, <1>2, <1>3, SameFollowed

LEMMA FollowedNext == Types /\ Followed /\ [Next]_vars => Types' /\ Followed'
<1> SUFFICES ASSUME Types, Followed, [Next]_vars PROVE Types' /\ Followed'
  OBVIOUS
<1>1. CASE UNCHANGED vars
  <2>1. SameBoards /\ Types'
    BY <1>1 DEF vars, SameBoards, Types, kernelVars
  <2> QED
    BY <1>1, <2>1, SameFollowed DEF vars
<1>2. CASE Next
  BY <1>2, EnumerateFollowed, AddExistingFollowed, SelectFollowed, DevDispatchFollowed,
     InputDispatchFollowed, PlugInFollowed, UnplugFollowed, KeyFollowed
     DEF Next, Start, Loop, User
<1> QED
  BY <1>1, <1>2

\* However the start-up enumeration, the udev events and the ENODEV of a read
\* interleave, once the udev socket is drained the list holds each keyboard that
\* is there and was not refused, once, opened since it was plugged in (dev_init,
\* dev_dispatch_io, input_get_event).
THEOREM KeyboardsAlwaysFollowed == Spec => []KeyboardsFollowed
<1>1. Init => Types /\ Followed
  BY FollowedInit
<1>2. (Types /\ Followed) /\ [Next]_vars => (Types /\ Followed)'
  BY FollowedNext
<1>3. ASSUME Types, Followed PROVE KeyboardsFollowed
  <2> SUFFICES ASSUME pc \notin {"init", "enumerate"}, udevq = <<>>
               PROVE  /\ \A p \in Paths : plugged[p] # 0 /\ p \notin refused =>
                            \E d \in Device : d.path = p /\ d.plug = plugged[p]
                      /\ \A n, u \in 1 .. Len(devs) : devs[n].path = devs[u].path => n = u
    BY DEF KeyboardsFollowed
  <2>1. found = {} /\ \A p : ~Pending(p)
    BY <1>3 DEF Followed, Phases, Pending
  <2>2. \A p \in Paths : plugged[p] # 0 /\ p \notin refused => Has(devs, p, plugged[p])
    BY <1>3, <2>1 DEF Followed, Opened
  <2>3. \A p \in Paths : Has(devs, p, plugged[p]) =>
          \E d \in Device : d.path = p /\ d.plug = plugged[p]
    BY <1>3, DeviceHas DEF Types
  <2> QED
    BY <1>3, <2>2, <2>3 DEF Followed, Once
<1> QED
  BY <1>1, <1>2, <1>3, PTL DEF Spec
-----------------------------------------------------------------------------
(* The types, as TypeOK has them.                                          *)

LEMMA BitsInit == Init => Bits
BY DEF Init, Bits

LEMMA BitsNext == Bits /\ [Next]_vars => Bits'
<1> SUFFICES ASSUME Bits, [Next]_vars PROVE Bits'
  OBVIOUS
<1>1. CASE UNCHANGED vars \/ Start \/ Select
  BY <1>1 DEF vars, Start, Enumerate, AddExisting, TryAdd, Select, Bits
<1>2. CASE \E grabbed \in BOOLEAN : DevDispatch(grabbed)
  BY <1>2 DEF DevDispatch, TryAdd, Bits
<1>3. CASE InputDispatch
  BY <1>3 DEF InputDispatch, ReadGone, ReadKey, ReadSyn, Bits
<1>4. CASE User
  BY <1>4 DEF User, PlugIn, Unplug, PressKey, Modify, Deliver, Bits
<1> QED
  BY <1>1, <1>2, <1>3, <1>4 DEF Next, Loop

\* No more devices than paths, as each has one at most.
LEMMA AtMostPaths ==
  ASSUME Types, Once(devs)
  PROVE  Len(devs) <= Cardinality(Paths)
<1> DEFINE f == [u \in 1 .. Len(devs) |-> devs[u].path]
<1>1. Len(devs) \in Nat /\ \A u \in 1 .. Len(devs) : devs[u] \in DevType
  BY DEF Types
<1>2. f \in Injection(1 .. Len(devs), Paths)
  BY <1>1 DEF Injection, IsInjective, Once, DevType
<1>3. Cardinality(1 .. Len(devs)) = Len(devs)
  <2> DEFINE L == Len(devs)
  <2>1. L \in Nat /\ 1 \in Int /\ L \in Int
    BY <1>1
  <2> HIDE DEF L
  <2>2. Cardinality(1 .. L) = IF 1 > L THEN 0 ELSE L - 1 + 1
    BY <2>1, FS_Interval
  <2>3. Cardinality(1 .. L) = L
    BY <2>1, <2>2
  <2> QED
    BY <2>3 DEF L
<1> HIDE DEF f
<1>4. Cardinality(1 .. Len(devs)) <= Cardinality(Paths)
  BY <1>2, FS_Injection, PathsAssumption
<1> QED
  BY <1>3, <1>4

\* The list never holds more devices than there are paths, and the kernel's
\* queues keep to their size (input_add, input_remove).
THEOREM InputTypeCorrect == Spec => []TypeOK
<1>1. Init => Types /\ Followed /\ Bits
  BY FollowedInit, BitsInit
<1>2. (Types /\ Followed /\ Bits) /\ [Next]_vars => (Types /\ Followed /\ Bits)'
  BY FollowedNext, BitsNext
<1>3. ASSUME Types, Followed, Bits PROVE TypeOK
  <2>1. Len(devs) <= Cardinality(Paths)
    BY <1>3, AtMostPaths DEF Followed
  <2>2. \A d \in Device : d.path \in Paths /\ d.plug \in 1 .. MaxPlugs /\ Len(d.queue) <= MaxQueue
    BY <1>3, DeviceHas DEF Types, DevType, Queue
  <2>3. \A n \in 1 .. Len(udevq) : udevq[n].action \in {"add", "remove"} /\ udevq[n].path \in Paths
    <3>1. \A n \in 1 .. Len(udevq) : udevq[n] \in UdevType
      BY <1>3 DEF Types
    <3> QED
      BY <3>1 DEF UdevType
  <2> QED
    BY <1>3, <2>1, <2>2, <2>3 DEF TypeOK, Types, Bits
<1> QED
  BY <1>1, <1>2, <1>3, PTL DEF Spec
-----------------------------------------------------------------------------
(* The modifiers.  While nothing was lost there is one keyboard, and its   *)
(* queue leads from the modifiers that were remembered to those that are   *)
(* down: a trace of them, one for each event, in which every key that was  *)
(* pressed finds the modifiers it was pressed with.                        *)

After(e, S) ==
  IF e.kind # "modifier" THEN S ELSE IF e.down THEN S \cup {e.key} ELSE S \ {e.key}

Trace(s, q, k, h) ==
  /\ s \in [1 .. Len(q) + 1 -> SUBSET Modifiers]
  /\ s[1] = k /\ s[Len(q) + 1] = h
  /\ \A n \in 1 .. Len(q) : s[n + 1] = After(q[n], s[n]) /\ (q[n].kind = "press" => q[n].held = s[n])

Explains(q, k, h) == \E s : Trace(s, q, k, h)

LEMMA AfterType ==
  ASSUME NEW e \in EventType, NEW S \in SUBSET Modifiers
  PROVE  After(e, S) \in SUBSET Modifiers
<1>1. e.kind = "modifier" => e.key \in Modifiers
  BY EventFacts
<1> QED
  BY <1>1 DEF After

LEMMA NothingQueued == Explains(<<>>, {}, {})
<1>1. Trace([n \in {1} |-> {}], <<>>, {}, {})
  BY DEF Trace
<1> QED
  BY <1>1 DEF Explains

LEMMA TraceRead ==
  ASSUME NEW q \in Seq(EventType), q # <<>>, NEW k, NEW h, Explains(q, k, h)
  PROVE  /\ Explains(Tail(q), After(Head(q), k), h)
         /\ Head(q).kind = "press" => Head(q).held = k
<1>1. PICK s : Trace(s, q, k, h)
  BY DEF Explains
<1> DEFINE L == Len(q)
           t == [n \in 1 .. L |-> s[n + 1]]
<1>2. /\ L \in Nat /\ L >= 1 /\ Len(Tail(q)) = L - 1 /\ Head(q) = q[1]
      /\ \A n \in 1 .. L - 1 : Tail(q)[n] = q[n + 1]
  BY HeadTailProperties
<1>3. /\ s \in [1 .. L + 1 -> SUBSET Modifiers] /\ s[1] = k /\ s[L + 1] = h
      /\ \A n \in 1 .. L : s[n + 1] = After(q[n], s[n]) /\ (q[n].kind = "press" => q[n].held = s[n])
  BY <1>1 DEF Trace
<1> HIDE DEF L
<1>4. t \in [1 .. L -> SUBSET Modifiers]
  BY <1>2, <1>3
<1>5. t[1] = After(Head(q), k) /\ t[L] = h
  BY <1>2, <1>3
<1>6. ASSUME NEW n \in 1 .. L - 1
      PROVE  /\ t[n + 1] = After(Tail(q)[n], t[n])
             /\ Tail(q)[n].kind = "press" => Tail(q)[n].held = t[n]
  <2>1. n + 1 \in 1 .. L /\ n \in 1 .. L
    BY <1>2
  <2>2. t[n + 1] = s[n + 1 + 1] /\ t[n] = s[n + 1] /\ Tail(q)[n] = q[n + 1]
    BY <1>2, <2>1
  <2> HIDE DEF t
  <2> QED
    BY <1>3, <2>1, <2>2
<1> HIDE DEF t
<1>7. Trace(t, Tail(q), After(Head(q), k), h)
  BY <1>2, <1>4, <1>5, <1>6 DEF Trace
<1>8. Head(q).kind = "press" => Head(q).held = k
  BY <1>2, <1>3
<1> QED
  BY <1>7, <1>8 DEF Explains

LEMMA TraceWritten ==
  ASSUME NEW q \in Seq(EventType), NEW e \in EventType, NEW k, NEW h \in SUBSET Modifiers,
         Explains(q, k, h), e.kind = "press" => e.held = h
  PROVE  Explains(q \o <<e, Syn>>, k, After(e, h))
<1>1. PICK s : Trace(s, q, k, h)
  BY DEF Explains
<1> DEFINE L == Len(q)
           new == q \o <<e, Syn>>
           t == [n \in 1 .. L + 3 |-> IF n <= L + 1 THEN s[n] ELSE After(e, h)]
<1>2. /\ L \in Nat /\ Len(new) = L + 2 /\ new[L + 1] = e /\ new[L + 2] = Syn
      /\ \A n \in 1 .. L : new[n] = q[n]
  BY EventTypes
<1>3. /\ s \in [1 .. L + 1 -> SUBSET Modifiers] /\ s[1] = k /\ s[L + 1] = h
      /\ \A n \in 1 .. L : s[n + 1] = After(q[n], s[n]) /\ (q[n].kind = "press" => q[n].held = s[n])
  BY <1>1 DEF Trace
<1> HIDE DEF L, new
<1>4. After(e, h) \in SUBSET Modifiers
  BY AfterType
<1>5. t \in [1 .. L + 3 -> SUBSET Modifiers]
  BY <1>2, <1>3, <1>4
<1>6. t[1] = k /\ t[L + 1] = h /\ t[L + 2] = After(e, h) /\ t[L + 3] = After(e, h)
      /\ \A n \in 1 .. L : t[n] = s[n] /\ t[n + 1] = s[n + 1]
  BY <1>2, <1>3
<1> HIDE DEF t
<1>7. ASSUME NEW n \in 1 .. L + 2
      PROVE  t[n + 1] = After(new[n], t[n]) /\ (new[n].kind = "press" => new[n].held = t[n])
  <2>1. CASE n \in 1 .. L
    BY <1>2, <1>3, <1>6, <2>1
  <2>2. CASE n = L + 1
    <3>1. n + 1 = L + 2
      BY <1>2, <2>2
    <3> QED
      BY <1>2, <1>6, <2>2, <3>1
  <2>3. CASE n = L + 2
    <3>1. n + 1 = L + 3 /\ After(Syn, t[n]) = t[n] /\ Syn.kind # "press"
      BY <1>2, <2>3 DEF After, Syn
    <3> QED
      BY <1>2, <1>6, <2>3, <3>1
  <2> QED
    BY <1>2, <2>1, <2>2, <2>3
<1>8. Trace(t, new, k, After(e, h))
  <2>1. Len(new) + 1 = L + 3 /\ Len(new) = L + 2
    BY <1>2
  <2> QED
    BY <1>5, <1>6, <1>7, <2>1 DEF Trace
<1> QED
  BY <1>8 DEF Explains, new

Pressed == "kbd" \in DOMAIN last => last.kbd = last.held

\* The one keyboard there is.
Alone ==
  /\ plugs <= 1
  /\ \A p, q \in Paths : plugged[p] # 0 /\ plugged[q] # 0 => p = q /\ plugs = 1
  /\ \A n \in 1 .. Len(udevq) : udevq[n].action = "add"

Remembered ==
  /\ \A p \in Paths : held[p] # {} => \E u \in 1 .. Len(devs) : devs[u].path = p
  /\ devs = <<>> => kbd = {}
  /\ \A u \in 1 .. Len(devs) : Explains(devs[u].queue, kbd, held[devs[u].path])

Calm == ~disturbed => Alone /\ Remembered /\ Pressed

IInv == Types /\ Followed /\ Bits /\ Calm

\* Every device is the keyboard that is there, so that there is one at most.
LEMMA AloneFacts ==
  ASSUME Types, Followed, Alone
  PROVE  /\ \A p : ~Leaving(p)
         /\ \A u \in 1 .. Len(devs) : devs[u] \in DevType /\ devs[u].plug = plugged[devs[u].path]
                                       /\ plugged[devs[u].path] # 0
         /\ \A u, n \in 1 .. Len(devs) : u = n
<1>1. \A p : ~Leaving(p)
  BY DEF Alone, Leaving
<1>2. \A u \in 1 .. Len(devs) : devs[u] \in DevType
  BY DEF Types
<1>3. \A u \in 1 .. Len(devs) : devs[u].path \in Paths /\ devs[u].plug # 0
  BY <1>2 DEF DevType
<1>4. \A u \in 1 .. Len(devs) : devs[u].plug = plugged[devs[u].path]
  BY <1>1 DEF Followed, Stale
<1>5. \A u, n \in 1 .. Len(devs) : devs[u].path = devs[n].path
  BY <1>3, <1>4 DEF Alone
<1> QED
  BY <1>1, <1>2, <1>3, <1>4, <1>5 DEF Followed, Once
Quiet == Alone /\ Remembered /\ Pressed

LEMMA QuietSame ==
  ASSUME Quiet, UNCHANGED <<devs, kbd, udevq, plugged, plugs, held, last>>
  PROVE  Quiet'
BY DEF Quiet, Alone, Remembered, Pressed

\* The one keyboard is opened before a modifier goes down.
LEMMA TryAddQuiet ==
  ASSUME Types, Followed, Quiet, NEW path \in Paths, NEW grabbed \in BOOLEAN,
         TryAdd(path, grabbed), ~disturbed', UNCHANGED <<kbd, plugged, plugs, held, last>>,
         \A n \in 1 .. Len(udevq') : udevq'[n].action = "add"
  PROVE  Quiet'
<1> DEFINE one == [path |-> path, plug |-> plugged[path], queue |-> <<>>]
<1>1. Alone' /\ Pressed'
  BY DEF Quiet, Alone, Pressed
<1>2. CASE devs' = devs
  BY <1>1, <1>2 DEF Quiet, Remembered
<1>3. CASE devs' # devs
  <2>1. devs' = Append(devs, one) /\ plugged[path] # 0 /\ \A n : ~Has(devs, path, n)
    BY <1>3, AddFacts DEF TryAdd, Followed
  <2>2. ASSUME NEW u \in 1 .. Len(devs) PROVE FALSE
    <3>1. devs[u] \in DevType /\ plugged[devs[u].path] # 0
      BY AloneFacts DEF Quiet
    <3>2. devs[u].path = path
      BY <2>1, <3>1 DEF Quiet, Alone, DevType
    <3>3. Has(devs, path, devs[u].plug)
      BY <3>2 DEF Has
    <3> QED
      BY <2>1, <3>3
  <2>3. devs = <<>> /\ Len(devs) = 0
    BY <2>2 DEF Types
  <2>4. kbd = {} /\ \A p \in Paths : held[p] = {}
    BY <2>3 DEF Quiet, Remembered
  <2>5. one.path = path /\ one.queue = <<>>
    OBVIOUS
  <2> HIDE DEF one
  <2>6. Len(devs') = 1 /\ devs'[1] = one /\ devs' # <<>>
    BY <2>1, <2>3
  <2>7. Explains(devs'[1].queue, kbd', held'[devs'[1].path])
    <3>1. devs'[1].queue = <<>> /\ kbd' = {} /\ held'[devs'[1].path] = {}
      BY <2>4, <2>5, <2>6
    <3> QED
      BY <3>1, NothingQueued
  <2>8. \A n \in 1 .. Len(devs') : n = 1
    BY <2>6
  <2>9. Remembered'
    BY <2>4, <2>6, <2>7, <2>8 DEF Remembered
  <2> QED
    BY <1>1, <2>9 DEF Quiet
<1> QED
  BY <1>2, <1>3

\* What a read takes from the queue is what kbd gains.
LEMMA ReadQuiet ==
  ASSUME Types, Followed, Quiet, NEW u \in 1 .. Len(devs), devs[u].queue # <<>>,
         devs' = [devs EXCEPT ![u].queue = Tail(@)],
         kbd' = After(Head(devs[u].queue), kbd),
         UNCHANGED <<udevq, plugged, plugs, held>>
  PROVE  /\ Alone' /\ Remembered'
         /\ Head(devs[u].queue).kind = "press" => Head(devs[u].queue).held = kbd
<1> DEFINE q == devs[u].queue
<1>1. SameBoards /\ devs[u] \in DevType /\ devs'[u].queue = Tail(q)
  BY ReadSameBoards
<1>2. q \in Seq(EventType)
  BY <1>1 DEF DevType, Queue
<1>3. Explains(q, kbd, held[devs[u].path])
  BY DEF Quiet, Remembered
<1>4. /\ Explains(Tail(q), After(Head(q), kbd), held[devs[u].path])
      /\ Head(q).kind = "press" => Head(q).held = kbd
  BY <1>2, <1>3, TraceRead
<1> HIDE DEF q
<1>5. \A n \in 1 .. Len(devs) : n = u
  BY AloneFacts DEF Quiet
<1>6. Len(devs') = Len(devs) /\ devs'[u].path = devs[u].path
  BY <1>1 DEF SameBoards
<1>7. \A n \in 1 .. Len(devs') : Explains(devs'[n].queue, kbd', held'[devs'[n].path])
  <2>1. kbd' = After(Head(q), kbd)
    BY DEF q
  <2>2. Explains(devs'[u].queue, kbd', held'[devs'[u].path])
    BY <1>1, <1>4, <1>6, <2>1
  <2> QED
    BY <1>5, <1>6, <2>2
<1>8. \A p \in Paths : held'[p] # {} => \E n \in 1 .. Len(devs') : devs'[n].path = p
  BY <1>5, <1>6 DEF Quiet, Remembered
<1>9. devs' # <<>>
  BY <1>1 DEF SameBoards
<1>10. Remembered'
  BY <1>7, <1>8, <1>9 DEF Remembered
<1>11. Alone'
  BY DEF Quiet, Alone
<1> QED
  BY <1>4, <1>10, <1>11 DEF q

LEMMA InputDispatchQuiet ==
  ASSUME Types, Followed, Quiet, InputDispatch
  PROVE  Quiet'
<1>1. UNCHANGED <<udevq, plugged, plugs, held>>
  BY DEF InputDispatch, kernelVars
<1>2. ASSUME NEW u \in 1 .. Len(devs), ReadGone(u) PROVE Quiet'
  BY <1>2, AloneFacts DEF ReadGone, Quiet
<1>3. ASSUME NEW u \in 1 .. Len(devs), ReadKey(u) PROVE Quiet'
  <2> DEFINE e == Head(devs[u].queue)
  <2>1. /\ devs[u].queue # <<>> /\ devs' = [devs EXCEPT ![u].queue = Tail(@)]
        /\ kbd' = After(e, kbd) /\ e.kind # "syn"
        /\ \/ last' = [path |-> devs[u].path]
           \/ e.kind # "modifier" /\ last' = [path |-> devs[u].path, kbd |-> kbd, held |-> e.held]
    BY <1>3 DEF ReadKey, After
  <2>2. e \in EventType
    BY <2>1, ReadSameBoards
  <2>3. Alone' /\ Remembered' /\ (e.kind = "press" => e.held = kbd)
    BY <1>1, <2>1, ReadQuiet
  <2>4. Pressed'
    <3>1. e.kind \in {"syn", "modifier", "press"}
      BY <2>2, EventFacts
    <3> HIDE DEF e
    <3>2. CASE last' = [path |-> devs[u].path]
      BY <3>2 DEF Pressed
    <3>3. CASE e.kind = "press" /\ last' = [path |-> devs[u].path, kbd |-> kbd, held |-> e.held]
      BY <2>3, <3>3 DEF Pressed
    <3> QED
      BY <2>1, <3>1, <3>2, <3>3
  <2> QED
    BY <2>3, <2>4 DEF Quiet
<1>4. ASSUME NEW u \in 1 .. Len(devs), ReadSyn(u) PROVE Quiet'
  <2>1. /\ devs[u].queue # <<>> /\ devs' = [devs EXCEPT ![u].queue = Tail(@)]
        /\ Head(devs[u].queue) = Syn /\ kbd' = kbd /\ last' = [path |-> devs[u].path]
    BY <1>4 DEF ReadSyn
  <2>2. kbd' = After(Head(devs[u].queue), kbd)
    BY <2>1 DEF After, Syn
  <2>3. Alone' /\ Remembered'
    BY <1>1, <2>1, <2>2, ReadQuiet
  <2>4. Pressed'
    BY <2>1 DEF Pressed
  <2> QED
    BY <2>3, <2>4 DEF Quiet
<1>5. CASE UNCHANGED <<devs, kbd, disturbed, last>>
  BY <1>1, <1>5, QuietSame
<1> QED
  BY <1>2, <1>3, <1>4, <1>5 DEF InputDispatch

LEMMA DevDispatchQuiet ==
  ASSUME Types, Followed, Quiet, NEW grabbed \in BOOLEAN, DevDispatch(grabbed), ~disturbed'
  PROVE  Quiet'
<1>1. /\ UNCHANGED <<kbd, plugged, plugs, held, last>> /\ udevq' = Tail(udevq) /\ udevq # <<>>
      /\ IF Head(udevq).action = "add" THEN TryAdd(Head(udevq).path, grabbed)
         ELSE devs' = InputRemove(devs, Head(udevq).path) /\ UNCHANGED <<refused, disturbed>>
  BY DEF DevDispatch, kernelVars, Followed, Phases
<1>2. /\ Head(udevq) = udevq[1] /\ Head(udevq) \in UdevType
      /\ Len(udevq') = Len(udevq) - 1 /\ Len(udevq) \in Nat /\ Len(udevq) >= 1
      /\ \A n \in 1 .. Len(udevq) - 1 : udevq'[n] = udevq[n + 1]
  BY <1>1, HeadTailProperties DEF Types
<1>3. \A n \in 1 .. Len(udevq) : udevq[n].action = "add"
  BY DEF Quiet, Alone
<1>4. \A n \in 1 .. Len(udevq') : udevq'[n].action = "add"
  BY <1>2, <1>3
<1>5. Head(udevq).path \in Paths /\ Head(udevq).action = "add"
  BY <1>2, <1>3 DEF UdevType
<1>6. TryAdd(Head(udevq).path, grabbed)
  BY <1>1, <1>5
<1> QED
  BY <1>1, <1>4, <1>5, <1>6, TryAddQuiet

LEMMA PlugInQuiet ==
  ASSUME Types, Followed, Quiet, NEW p \in Paths, PlugIn(p), ~disturbed'
  PROVE  Quiet'
<1> DEFINE e == [action |-> "add", path |-> p]
<1>1. /\ plugged' = [plugged EXCEPT ![p] = plugs + 1] /\ held' = [held EXCEPT ![p] = {}]
      /\ plugs' = plugs + 1 /\ UNCHANGED <<devs, kbd, last>> /\ plugs = 0
      /\ udevq' = Append(udevq, e) \/ UNCHANGED udevq
  <2>1. ~(plugs > 0)
    BY DEF PlugIn
  <2>2. /\ plugs' = plugs + 1 /\ plugged' = [plugged EXCEPT ![p] = plugs']
        /\ held' = [held EXCEPT ![p] = {}] /\ UNCHANGED <<devs, kbd, last>>
        /\ udevq' = Append(udevq, e) \/ UNCHANGED udevq
    BY DEF PlugIn
  <2>3. plugs = 0
    BY <2>1, BoundsAssumption DEF Types
  <2> HIDE DEF e
  <2> QED
    BY <2>2, <2>3
<1>2. \A q \in Paths : plugged[q] = 0
  BY <1>1 DEF Quiet, Alone
<1>3. devs = <<>>
  <2>1. ASSUME NEW u \in 1 .. Len(devs) PROVE FALSE
    BY <1>2, AloneFacts DEF Quiet, DevType
  <2> QED
    BY <2>1 DEF Types
<1>4. kbd = {} /\ \A q \in Paths : held[q] = {}
  BY <1>3 DEF Quiet, Remembered
<1>5. Remembered'
  BY <1>1, <1>3, <1>4 DEF Types, Remembered
<1>6. \A n \in 1 .. Len(udevq') : udevq'[n].action = "add"
  <2>1. e \in UdevType /\ e.action = "add"
    BY DEF UdevType
  <2> HIDE DEF e
  <2>2. CASE udevq' = Append(udevq, e)
    BY <2>1, <2>2, AppendProperties DEF Types, Quiet, Alone
  <2> QED
    BY <1>1, <2>2 DEF Quiet, Alone
<1>7. Alone'
  BY <1>1, <1>2, <1>6 DEF Types, Alone
<1>8. Pressed'
  BY <1>1 DEF Quiet, Pressed
<1> QED
  BY <1>5, <1>7, <1>8 DEF Quiet

\* What the user does is put at the end of the one queue.
LEMMA WrittenQuiet ==
  ASSUME Types, Followed, Quiet, NEW p \in Paths, plugged[p] # 0, NEW e \in EventType,
         Deliver(p, e), ~disturbed', e.kind = "press" => e.held = held[p],
         held' = [held EXCEPT ![p] = After(e, held[p])],
         UNCHANGED <<kbd, udevq, plugged, plugs, last>>
  PROVE  Quiet'
<1>1. PICK u \in 1 .. Len(devs) :
        devs[u].path = p /\ devs[u].plug = plugged[p] /\ Len(devs[u].queue) + 2 <= MaxQueue
  <2>1. PICK d \in Device : d.path = p /\ d.plug = plugged[p] /\ ~(Len(d.queue) + 2 > MaxQueue)
    BY DEF Deliver
  <2>2. Len(d.queue) \in Nat
    BY <2>1, DeviceHas DEF Types, DevType, Queue
  <2>3. Len(d.queue) + 2 <= MaxQueue
    BY <2>1, <2>2, BoundsAssumption
  <2> QED
    BY <2>1, <2>3 DEF Device
<1>2. SameBoards /\ devs'[u].queue = devs[u].queue \o <<e, Syn>>
  BY <1>1, DeliverFacts
<1>3. \A n \in 1 .. Len(devs) : n = u
  BY AloneFacts DEF Quiet
<1>4. devs[u].queue \in Seq(EventType) /\ held[p] \in SUBSET Modifiers
  <2>1. devs[u] \in DevType
    BY DEF Types
  <2> QED
    BY <2>1 DEF Types, DevType, Queue
<1>5. Explains(devs[u].queue, kbd, held[p])
  BY <1>1 DEF Quiet, Remembered
<1>6. Explains(devs[u].queue \o <<e, Syn>>, kbd, After(e, held[p]))
  BY <1>4, <1>5, TraceWritten
<1>7. /\ Len(devs') = Len(devs) /\ devs'[u].path = p /\ devs' # <<>>
      /\ held'[p] = After(e, held[p]) /\ \A q \in Paths \ {p} : held'[q] = held[q]
  BY <1>1, <1>2 DEF SameBoards, Types
<1>8. Explains(devs'[u].queue, kbd', held'[devs'[u].path])
  BY <1>2, <1>6, <1>7
<1>9. \A q \in Paths : held'[q] # {} => \E n \in 1 .. Len(devs') : devs'[n].path = q
  <2>1. \A q \in Paths \ {p} : held[q] = {}
    BY <1>1, <1>3 DEF Quiet, Remembered
  <2> QED
    BY <1>7, <2>1
<1>10. Remembered'
  BY <1>3, <1>7, <1>8, <1>9 DEF Remembered
<1>11. Alone' /\ Pressed'
  BY DEF Quiet, Alone, Pressed
<1> QED
  BY <1>10, <1>11 DEF Quiet

LEMMA PressKeyQuiet ==
  ASSUME Types, Followed, Quiet, NEW p \in Paths, PressKey(p), ~disturbed'
  PROVE  Quiet'
<1> DEFINE e == Press(held[p])
<1>1. /\ plugged[p] # 0 /\ Deliver(p, e)
      /\ UNCHANGED <<kbd, udevq, plugged, plugs, held, last>>
  BY DEF PressKey, kernelVars
<1>2. e \in EventType /\ e.kind = "press" /\ e.held = held[p]
  BY EventTypes DEF Press, Types
<1> HIDE DEF e
<1>3. held' = [held EXCEPT ![p] = After(e, held[p])]
  BY <1>1, <1>2 DEF After, Types
<1> QED
  BY <1>1, <1>2, <1>3, WrittenQuiet

LEMMA ModifyQuiet ==
  ASSUME Types, Followed, Quiet, NEW p \in Paths, NEW m \in Modifiers, Modify(p, m), ~disturbed'
  PROVE  Quiet'
<1> DEFINE down == m \notin held[p]
           e == Change(m, down)
<1>1. /\ plugged[p] # 0 /\ Deliver(p, e)
      /\ held' = [held EXCEPT ![p] = IF m \in @ THEN @ \ {m} ELSE @ \cup {m}]
      /\ UNCHANGED <<kbd, udevq, plugged, plugs, last>>
  BY DEF Modify
<1>2. down \in BOOLEAN
  OBVIOUS
<1>3. e \in EventType
  BY <1>2, EventTypes
<1>4. e.kind = "modifier" /\ e.key = m /\ e.down = down
  BY DEF Change
<1>5. After(e, held[p]) = IF m \in held[p] THEN held[p] \ {m} ELSE held[p] \cup {m}
  BY <1>4 DEF After
<1> HIDE DEF e, down
<1>6. held' = [held EXCEPT ![p] = After(e, held[p])]
  BY <1>1, <1>5
<1> QED
  BY <1>1, <1>3, <1>4, <1>6, WrittenQuiet

LEMMA CalmNext ==
  ASSUME Types, Followed, Bits, Calm, [Next]_vars
  PROVE  Calm'
<1> SUFFICES ASSUME ~disturbed' PROVE Quiet'
  BY DEF Calm, Quiet
<1>1. ~disturbed => Quiet
  BY DEF Calm, Quiet
<1>2. CASE UNCHANGED vars
  BY <1>1, <1>2, QuietSame DEF vars
<1>3. CASE Enumerate \/ Select
  BY <1>1, <1>3, QuietSame DEF Enumerate, Select, kernelVars
<1>4. ASSUME NEW grabbed \in BOOLEAN, AddExisting(grabbed) PROVE Quiet'
  <2>1. PICK path \in Paths : TryAdd(path, grabbed)
    BY <1>4 DEF AddExisting, Types
  <2>2. ~disturbed /\ UNCHANGED <<kbd, udevq, plugged, plugs, held, last>>
    BY <1>4, <2>1 DEF AddExisting, TryAdd, kernelVars
  <2> QED
    BY <1>1, <2>1, <2>2, TryAddQuiet DEF Quiet, Alone
<1>5. ASSUME NEW grabbed \in BOOLEAN, DevDispatch(grabbed) PROVE Quiet'
  <2>1. ~disturbed
    BY <1>5 DEF DevDispatch, TryAdd
  <2> QED
    BY <1>1, <1>5, <2>1, DevDispatchQuiet
<1>6. CASE InputDispatch
  <2>1. ~disturbed
    BY <1>6 DEF InputDispatch, ReadGone, ReadKey, ReadSyn
  <2> QED
    BY <1>1, <1>6, <2>1, InputDispatchQuiet
<1>7. ASSUME NEW p \in Paths, PlugIn(p) PROVE Quiet'
  <2>1. ~disturbed
    BY <1>7 DEF PlugIn
  <2> QED
    BY <1>1, <1>7, <2>1, PlugInQuiet
<1>8. ASSUME NEW p \in Paths, Unplug(p) PROVE Quiet'
  BY <1>8 DEF Unplug
<1>9. ASSUME NEW p \in Paths, PressKey(p) PROVE Quiet'
  <2>1. ~disturbed
    BY <1>9 DEF PressKey, Deliver
  <2> QED
    BY <1>1, <1>9, <2>1, PressKeyQuiet
<1>10. ASSUME NEW p \in Paths, NEW m \in Modifiers, Modify(p, m) PROVE Quiet'
  <2>1. ~disturbed
    BY <1>10 DEF Modify, Deliver
  <2> QED
    BY <1>1, <1>10, <2>1, ModifyQuiet
<1> QED
  BY <1>2, <1>3, <1>4, <1>5, <1>6, <1>7, <1>8, <1>9, <1>10 DEF Next, Start, Loop, User

\* With a single keyboard, opened before a modifier went down, and read in time,
\* a key press is judged with the modifiers that were down when it happened
\* (input_get_event, input_special_key).
THEOREM ChordsAsPressed == Spec => []ChordAsPressed
<1>1. Init => IInv
  <2> SUFFICES ASSUME Init PROVE IInv
    OBVIOUS
  <2>1. Types /\ Followed /\ Bits
    BY FollowedInit, BitsInit
  <2>2. Alone /\ Remembered /\ Pressed
    BY DEF Init, Alone, Remembered, Pressed
  <2> QED
    BY <2>1, <2>2 DEF IInv, Calm
<1>2. IInv /\ [Next]_vars => IInv'
  BY FollowedNext, BitsNext, CalmNext DEF IInv
<1>3. IInv => ChordAsPressed
  BY DEF IInv, Calm, Pressed, ChordAsPressed
<1> QED
  BY <1>1, <1>2, <1>3, PTL DEF Spec
=============================================================================
