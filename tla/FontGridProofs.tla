---------------------------- MODULE FontGridProofs ----------------------------
(***************************************************************************)
(* The font and the sizes for any number of terminals, any monitors and    *)
(* any largest scaling.  The argument: what font_init and font_free do to  *)
(* a sound font leaves it sound; its scaling changes only while nobody     *)
(* holds it; and a loop that has let go of it for every terminal finds it  *)
(* held by nobody, so the first to take it again sets the scaling for all. *)
(***************************************************************************)
EXTENDS FontGrid, FiniteSetTheorems, TLAPS

\* Prescaled glyphs are there when, and only when, the font is held at a scaling
\* above 1.
FontOK(f) ==
  /\ f.ref \in Int /\ f.scaling \in 0 .. MaxScale
  /\ IF f.ref >= 1 /\ f.scaling > 1 THEN f.glyphs = f.scaling ELSE f.glyphs = 0
  /\ f.ref >= 1 => f.scaling >= 1

\* font_init: the scaling asked for counts only when nobody holds the font.
LEMMA InitOfFont ==
  ASSUME NEW f, FontOK(f), NEW s \in 1 .. MaxScale
  PROVE  /\ FontOK(FontInit(f, s)) /\ FontInit(f, s).ref = f.ref + 1
         /\ f.ref # 0 => FontInit(f, s).scaling = f.scaling
BY ScaleAssumption DEF FontOK, FontInit

\* font_free never changes the scaling.
LEMMA FreeOfFont ==
  ASSUME NEW f, FontOK(f)
  PROVE  /\ FontOK(FontFree(f)) /\ FontFree(f).ref = f.ref - 1
         /\ FontFree(f).scaling = f.scaling
BY ScaleAssumption DEF FontOK, FontFree

FbType == [size : Nat, scaling : 1 .. MaxScale]
SizeType == Nat \X (0 .. MaxScale)
SizeTable == [Vts -> SizeType]

\* A framebuffer made anew, or not, is one.
LEMMA NewFbType ==
  ASSUME NEW f \in FbType, monitor \in Monitors \cup {NoMonitor}, NEW g \in NewFb(f)
  PROVE  g \in FbType
<1>1. CASE g = f
  BY <1>1
<1>2. CASE g # f
  <2>1. /\ monitor \in Monitors
        /\ g = [size |-> monitor.size,
                scaling |-> IF monitor.scaling = 0 THEN f.scaling ELSE monitor.scaling]
    BY <1>2 DEF NewFb
  <2>2. monitor.size \in Nat /\ monitor.scaling \in 0 .. MaxScale
    BY <2>1, MonitorsAssumption
  <2>3. f.scaling \in 1 .. MaxScale
    BY DEF FbType
  <2> QED
    BY <2>1, <2>2, <2>3, ScaleAssumption DEF FbType
<1> QED
  BY <1>1, <1>2

LEMMA DefaultFbType == DefaultFb \in FbType
BY ScaleAssumption DEF DefaultFb, FbType
-----------------------------------------------------------------------------
(* The invariant.                                                          *)

Tables ==
  /\ fb \in [Vts -> FbType]
  /\ grid \in SizeTable /\ screen \in SizeTable /\ pty \in SizeTable

Rest ==
  /\ monitor \in Monitors \cup {NoMonitor}
  /\ open \subseteq Vts /\ todo \subseteq Vts
  /\ scaling \in 0 .. MaxScale
  /\ fault \in BOOLEAN
  /\ pc \in {"idle", "free", "take", "stopped"}

\* A loop is about terminals that exist.
LoopOK == pc \in {"free", "take"} => todo \subseteq open

IInv == Tables /\ Rest /\ FontOK(Font) /\ LoopOK /\ RefPerTerminal /\ SizesAgree

LEMMA FiniteVts ==
  ASSUME NEW S, S \subseteq Vts
  PROVE  IsFiniteSet(S) /\ Cardinality(S) \in Nat /\ (Cardinality(S) = 0 <=> S = {})
BY VtsAssumption, FS_Subset, FS_CardinalityType, FS_EmptySet

\* One terminal more, or less.
LEMMA OneMore ==
  ASSUME NEW S, S \subseteq Vts, NEW v \in Vts, v \notin S
  PROVE  Cardinality(S \cup {v}) = Cardinality(S) + 1
BY FiniteVts, FS_AddElement

LEMMA OneLess ==
  ASSUME NEW S, S \subseteq Vts, NEW v \in S
  PROVE  Cardinality(S \ {v}) = Cardinality(S) - 1
BY FiniteVts, FS_RemoveElement

LEMMA FontIs ==
  Font.ref = font_ref /\ Font.scaling = font_scaling /\ Font.glyphs = glyphs
BY DEF Font

\* The font a step leaves.
LEMMA SetFontOK ==
  ASSUME NEW f, FontOK(f), SetFont(f)
  PROVE  FontOK(Font)' /\ font_ref' = f.ref /\ font_scaling' = f.scaling
BY DEF SetFont, FontOK, Font

LEMMA InitOK == Init => IInv
<1> SUFFICES ASSUME Init PROVE IInv
  OBVIOUS
<1>1. /\ monitor \in Monitors \cup {NoMonitor} /\ open = {} /\ todo = {} /\ scaling = 0
      /\ fault = FALSE /\ pc = "idle" /\ font_ref = 0 /\ font_scaling = 0 /\ glyphs = 0
      /\ fb = [v \in Vts |-> DefaultFb] /\ grid = [v \in Vts |-> NoSize]
      /\ screen = grid /\ pty = grid
  BY DEF Init
<1>2. NoSize \in SizeType
  BY ScaleAssumption DEF NoSize, SizeType
<1>3. Tables
  BY <1>1, <1>2, DefaultFbType DEF Tables, SizeTable
<1>4. Rest /\ LoopOK
  <2>1. fault \in BOOLEAN
    BY <1>1, Zenon
  <2> QED
    BY <1>1, <2>1, ScaleAssumption DEF Rest, LoopOK
<1>5. FontOK(Font)
  BY <1>1, ScaleAssumption DEF FontOK, Font
<1>6. RefPerTerminal
  BY <1>1, FS_EmptySet DEF RefPerTerminal, Drawing
<1>7. SizesAgree
  BY <1>1 DEF SizesAgree, Drawing
<1> QED
  BY <1>3, <1>4, <1>5, <1>6, <1>7 DEF IInv

\* term_resize: the grid is of the framebuffer at the scaling of the font, which
\* is the one of before if anybody held it.
LEMMA ResizeOK ==
  ASSUME Tables, FontOK(Font), NEW v \in Vts, NEW f \in FbType, NEW s \in 0 .. MaxScale,
         NEW answer, Resize(v, f, s, answer)
  PROVE  /\ FontOK(Font)'
         /\ grid' \in SizeTable /\ screen' \in SizeTable /\ pty' \in SizeTable
         /\ answer # "fits" => fault' = TRUE
         /\ fault' = (fault \/ answer # "fits")
         /\ answer = "fits" =>
              /\ font_ref' = font_ref + 1
              /\ font_ref # 0 => font_scaling' = font_scaling
              /\ grid'[v] = <<f.size, font_scaling'>> /\ screen'[v] = grid'[v] /\ pty'[v] = grid'[v]
              /\ \A w \in Vts \ {v} : /\ grid'[w] = grid[w] /\ screen'[w] = screen[w]
                                      /\ pty'[w] = pty[w]
<1> DEFINE t == IF s = 0 THEN f.scaling ELSE s
           init == FontInit(Font, t)
           size == <<f.size, init.scaling>>
<1>1. /\ grid' = [grid EXCEPT ![v] = size]
      /\ screen' = IF answer = "screen refused" THEN screen ELSE [screen EXCEPT ![v] = size]
      /\ pty' = IF answer = "fits" THEN [pty EXCEPT ![v] = size] ELSE pty
      /\ SetFont(IF answer = "fits" THEN init ELSE FontFree(init))
      /\ fault' = (fault \/ answer # "fits")
  BY DEF Resize
<1>2. t \in 1 .. MaxScale /\ f.size \in Nat
  BY DEF FbType
<1> HIDE DEF t
<1>3. FontOK(init) /\ init.ref = font_ref + 1 /\ (font_ref # 0 => init.scaling = font_scaling)
  BY <1>2, InitOfFont, FontIs
<1>4. FontOK(FontFree(init))
  BY <1>3, FreeOfFont
<1>5. size \in SizeType
  BY <1>2, <1>3 DEF SizeType, FontOK
<1>6. /\ FontOK(Font)'
      /\ answer = "fits" => font_ref' = init.ref /\ font_scaling' = init.scaling
  <2>1. CASE answer = "fits"
    BY <1>1, <1>3, <2>1, SetFontOK
  <2>2. CASE answer # "fits"
    BY <1>1, <1>4, <2>2, SetFontOK
  <2> QED
    BY <2>1, <2>2
<1>11. answer = "fits" => size = <<f.size, font_scaling'>>
  BY <1>6
<1> HIDE DEF size, init
<1>7. grid' \in SizeTable /\ \A w \in Vts : grid'[w] = IF w = v THEN size ELSE grid[w]
  BY <1>1, <1>5 DEF Tables, SizeTable
<1>8. /\ screen' \in SizeTable
      /\ answer = "fits" => \A w \in Vts : screen'[w] = IF w = v THEN size ELSE screen[w]
  BY <1>1, <1>5 DEF Tables, SizeTable
<1>9. /\ pty' \in SizeTable
      /\ answer = "fits" => \A w \in Vts : pty'[w] = IF w = v THEN size ELSE pty[w]
  BY <1>1, <1>5 DEF Tables, SizeTable
<1>10. fault' = (fault \/ answer # "fits") /\ (answer # "fits" => fault' = TRUE)
  BY <1>1
<1> QED
  BY <1>3, <1>6, <1>7, <1>8, <1>9, <1>10, <1>11

LEMMA DrawingType == ASSUME Rest PROVE Drawing \subseteq Vts
BY DEF Rest, Drawing

\* One terminal takes the font: if it is the first it alone draws, and if it is
\* not the scaling stays.
LEMMA OneDrawsMore ==
  ASSUME Tables, Rest, FontOK(Font), RefPerTerminal, SizesAgree,
         pc \in {"idle", "take"}, UNCHANGED pc,
         NEW v \in Vts, v \notin Drawing, Drawing' = Drawing \cup {v},
         NEW f \in FbType, fb' = [fb EXCEPT ![v] = f],
         NEW s \in 0 .. MaxScale, NEW answer, Resize(v, f, s, answer)
  PROVE  FontOK(Font)' /\ Tables' /\ RefPerTerminal' /\ SizesAgree' /\ fault' \in BOOLEAN
<1>1. /\ FontOK(Font)'
      /\ grid' \in SizeTable /\ screen' \in SizeTable /\ pty' \in SizeTable
      /\ answer # "fits" => fault' = TRUE
      /\ fault' = (fault \/ answer # "fits")
      /\ answer = "fits" =>
           /\ font_ref' = font_ref + 1
           /\ font_ref # 0 => font_scaling' = font_scaling
           /\ grid'[v] = <<f.size, font_scaling'>> /\ screen'[v] = grid'[v] /\ pty'[v] = grid'[v]
           /\ \A w \in Vts \ {v} : /\ grid'[w] = grid[w] /\ screen'[w] = screen[w]
                                   /\ pty'[w] = pty[w]
  BY ResizeOK
<1>2. /\ fb' \in [Vts -> FbType]
      /\ \A w \in Vts : fb'[w] = IF w = v THEN f ELSE fb[w]
  BY DEF Tables
<1>3. Tables'
  BY <1>1, <1>2 DEF Tables
<1>4. fault' \in BOOLEAN
  BY <1>1, Zenon
<1>5. CASE fault'
  BY <1>1, <1>3, <1>4, <1>5 DEF RefPerTerminal, SizesAgree
<1>6. CASE ~fault'
  <2>1. ~fault /\ answer = "fits"
    BY <1>1, <1>6
  <2>2. Drawing \subseteq Vts /\ font_ref = Cardinality(Drawing)
    BY <2>1, DrawingType DEF RefPerTerminal
  <2>3. Cardinality(Drawing') = font_ref + 1
    BY <2>2, OneMore
  <2>4. RefPerTerminal'
    BY <1>1, <2>1, <2>3 DEF RefPerTerminal
  <2>5. font_ref = 0 => Drawing = {}
    BY <2>2, FiniteVts
  <2>6. ASSUME NEW w \in Drawing
        PROVE  grid'[w] = <<fb'[w].size, font_scaling'>> /\ screen'[w] = grid'[w] /\ pty'[w] = grid'[w]
    <3>1. w \in Vts \ {v} /\ font_scaling' = font_scaling
      BY <1>1, <2>1, <2>2, <2>5
    <3>2. grid[w] = <<fb[w].size, font_scaling>> /\ screen[w] = grid[w] /\ pty[w] = grid[w]
      BY <2>1 DEF SizesAgree
    <3> QED
      BY <1>1, <1>2, <2>1, <3>1, <3>2
  <2>7. grid'[v] = <<fb'[v].size, font_scaling'>> /\ screen'[v] = grid'[v] /\ pty'[v] = grid'[v]
    BY <1>1, <1>2, <2>1
  <2>8. \A w \in Drawing' :
          grid'[w] = <<fb'[w].size, font_scaling'>> /\ screen'[w] = grid'[w] /\ pty'[w] = grid'[w]
    BY <2>6, <2>7
  <2>9. SizesAgree'
    BY <2>8 DEF SizesAgree
  <2> QED
    BY <1>1, <1>3, <1>4, <2>4, <2>9
<1> QED
  BY <1>5, <1>6

LEMMA OpenTermStep == ASSUME IInv, NEW v \in Vts, OpenTerm(v) PROVE IInv'
<1>0. Tables /\ Rest /\ FontOK(Font) /\ RefPerTerminal /\ SizesAgree
  BY DEF IInv
<1>1. /\ pc = "idle" /\ v \notin open /\ open' = open \cup {v}
      /\ UNCHANGED <<monitor, pc, todo, scaling>>
  BY DEF OpenTerm
<1>2. PICK f \in NewFb(DefaultFb) : fb' = [fb EXCEPT ![v] = f] /\ Resize(v, f, 0, "fits")
  BY DEF OpenTerm
<1>3. f \in FbType /\ 0 \in 0 .. MaxScale
  BY <1>0, <1>2, NewFbType, DefaultFbType, ScaleAssumption DEF Rest
<1>4. v \notin Drawing /\ Drawing' = Drawing \cup {v}
  BY <1>1 DEF Drawing
<1>5. FontOK(Font)' /\ Tables' /\ RefPerTerminal' /\ SizesAgree' /\ fault' \in BOOLEAN
  BY <1>0, <1>1, <1>2, <1>3, <1>4, OneDrawsMore
<1>6. Rest' /\ LoopOK'
  BY <1>0, <1>1, <1>5 DEF Rest, LoopOK
<1> QED
  BY <1>5, <1>6 DEF IInv

LEMMA TakeOneStep == ASSUME IInv, NEW v \in Vts, NEW answer, TakeOne(v, answer) PROVE IInv'
<1>0. Tables /\ Rest /\ FontOK(Font) /\ RefPerTerminal /\ SizesAgree /\ LoopOK
  BY DEF IInv
<1>1. /\ pc = "take" /\ v \in todo /\ todo' = todo \ {v}
      /\ UNCHANGED <<monitor, open, pc, scaling>>
  BY DEF TakeOne, First
<1>2. PICK f \in IF scaling = 0 THEN NewFb(fb[v]) ELSE {fb[v]} :
        fb' = [fb EXCEPT ![v] = f] /\ Resize(v, f, scaling, answer)
  BY DEF TakeOne
<1>3. f \in FbType /\ scaling \in 0 .. MaxScale
  BY <1>0, <1>2, NewFbType DEF Rest, Tables
<1>4. v \notin Drawing /\ Drawing' = Drawing \cup {v}
  BY <1>0, <1>1 DEF Drawing, LoopOK
<1>5. FontOK(Font)' /\ Tables' /\ RefPerTerminal' /\ SizesAgree' /\ fault' \in BOOLEAN
  BY <1>0, <1>1, <1>2, <1>3, <1>4, OneDrawsMore
<1>6. Rest' /\ LoopOK'
  BY <1>0, <1>1, <1>5 DEF Rest, LoopOK
<1> QED
  BY <1>5, <1>6 DEF IInv

\* A terminal that could not be set up gives back what it does not hold; from
\* then on only the font itself is sound.
LEMMA CloseUnfinishedOK ==
  ASSUME FontOK(Font), monitor \in Monitors \cup {NoMonitor}, CloseUnfinished
  PROVE  FontOK(Font)' /\ fault' = TRUE
<1>1. CASE SetFont(FontFree(Font))
  BY <1>1, FreeOfFont, SetFontOK DEF CloseUnfinished
<1>2. ASSUME NEW f \in NewFb(DefaultFb), SetFont(FontFree(FontFree(FontInit(Font, f.scaling))))
      PROVE  FontOK(Font)'
  <2>1. f.scaling \in 1 .. MaxScale
    BY DefaultFbType, NewFbType DEF FbType
  <2>2. FontOK(FontInit(Font, f.scaling))
    BY <2>1, InitOfFont
  <2>3. FontOK(FontFree(FontFree(FontInit(Font, f.scaling))))
    BY <2>2, FreeOfFont
  <2> QED
    BY <1>2, <2>3, SetFontOK
<1> QED
  BY <1>1, <1>2 DEF CloseUnfinished

LEMMA ForgetOK ==
  ASSUME Tables, NEW v \in Vts, Forget(v)
  PROVE  /\ Tables' /\ open' = open \ {v}
         /\ \A w \in Vts \ {v} : /\ fb'[w] = fb[w] /\ grid'[w] = grid[w]
                                 /\ screen'[w] = screen[w] /\ pty'[w] = pty[w]
<1>1. NoSize \in SizeType
  BY ScaleAssumption DEF NoSize, SizeType
<1> QED
  BY <1>1, DefaultFbType DEF Forget, Tables, SizeTable

LEMMA OpenFailsStep == ASSUME IInv, NEW v \in Vts, OpenFails(v) PROVE IInv'
<1>0. Tables /\ Rest /\ FontOK(Font)
  BY DEF IInv
<1>1. UNCHANGED <<monitor, open, fb, grid, screen, pty, pc, todo, scaling>> /\ pc = "idle"
  BY DEF OpenFails, sizes
<1>2. FontOK(Font)' /\ fault' = TRUE
  BY <1>0, CloseUnfinishedOK DEF OpenFails, Rest
<1>3. fault' \in BOOLEAN
  BY <1>2, Zenon
<1>4. Tables' /\ Rest' /\ LoopOK'
  BY <1>0, <1>1, <1>3 DEF Tables, Rest, LoopOK
<1>5. RefPerTerminal' /\ SizesAgree'
  BY <1>2 DEF RefPerTerminal, SizesAgree
<1> QED
  BY <1>2, <1>4, <1>5 DEF IInv

LEMMA RestartFailsStep == ASSUME IInv, NEW v \in Vts, RestartFails(v) PROVE IInv'
<1>0. Tables /\ Rest /\ FontOK(Font)
  BY DEF IInv
<1>1. UNCHANGED <<monitor, pc, todo, scaling>> /\ pc = "idle"
  BY DEF RestartFails
<1>2. FontOK(Font)' /\ fault' = TRUE
  BY <1>0, CloseUnfinishedOK DEF RestartFails, Rest
<1>3. fault' \in BOOLEAN
  BY <1>2, Zenon
<1>4. Tables' /\ open' = open \ {v}
  BY <1>0, ForgetOK DEF RestartFails
<1>5. Rest' /\ LoopOK'
  BY <1>0, <1>1, <1>3, <1>4 DEF Rest, LoopOK
<1>6. RefPerTerminal' /\ SizesAgree'
  BY <1>2 DEF RefPerTerminal, SizesAgree
<1> QED
  BY <1>2, <1>4, <1>5, <1>6 DEF IInv

\* The old terminal holds the font while the new one takes it.
LEMMA RestartStep == ASSUME IInv, NEW v \in Vts, Restart(v) PROVE IInv'
<1>0. Tables /\ Rest /\ FontOK(Font) /\ RefPerTerminal /\ SizesAgree
  BY DEF IInv
<1>1. pc = "idle" /\ v \in open /\ UNCHANGED <<monitor, open, fault, pc, todo, scaling>>
  BY DEF Restart
<1>2. PICK f \in NewFb(DefaultFb) :
        LET init == FontInit(Font, f.scaling)
            size == <<f.size, init.scaling>>
        IN  /\ SetFont(FontFree(init))
            /\ fb' = [fb EXCEPT ![v] = f] /\ grid' = [grid EXCEPT ![v] = size]
            /\ screen' = [screen EXCEPT ![v] = size] /\ pty' = [pty EXCEPT ![v] = size]
  BY DEF Restart
<1> DEFINE init == FontInit(Font, f.scaling)
           size == <<f.size, init.scaling>>
<1>3. f \in FbType /\ f.scaling \in 1 .. MaxScale /\ f.size \in Nat
  BY <1>0, DefaultFbType, NewFbType DEF FbType, Rest
<1>4. /\ FontOK(init) /\ init.ref = font_ref + 1
      /\ font_ref # 0 => init.scaling = font_scaling
  BY <1>0, <1>3, InitOfFont, FontIs
<1>5. /\ FontOK(FontFree(init)) /\ FontFree(init).ref = font_ref
      /\ FontFree(init).scaling = init.scaling
  <2>1. font_ref \in Int
    BY <1>0, FontIs DEF FontOK
  <2> QED
    BY <1>4, <2>1, FreeOfFont
<1>6. FontOK(Font)' /\ font_ref' = font_ref /\ font_scaling' = init.scaling
  BY <1>2, <1>5, SetFontOK
<1>7. size \in SizeType /\ size = <<f.size, font_scaling'>>
  BY <1>3, <1>4, <1>6 DEF SizeType, FontOK
<1>8. /\ fb' = [fb EXCEPT ![v] = f] /\ grid' = [grid EXCEPT ![v] = size]
      /\ screen' = [screen EXCEPT ![v] = size] /\ pty' = [pty EXCEPT ![v] = size]
  BY <1>2
<1> HIDE DEF init, size
<1>9. /\ grid' \in SizeTable /\ screen' \in SizeTable /\ pty' \in SizeTable
      /\ \A w \in Vts : /\ grid'[w] = IF w = v THEN size ELSE grid[w]
                        /\ screen'[w] = IF w = v THEN size ELSE screen[w]
                        /\ pty'[w] = IF w = v THEN size ELSE pty[w]
  BY <1>0, <1>7, <1>8 DEF Tables, SizeTable
<1>10. fb' \in [Vts -> FbType] /\ \A w \in Vts : fb'[w] = IF w = v THEN f ELSE fb[w]
  BY <1>0, <1>3, <1>8 DEF Tables
<1>11. Tables' /\ Rest' /\ LoopOK'
  BY <1>0, <1>1, <1>9, <1>10 DEF Tables, Rest, LoopOK
<1>12. RefPerTerminal'
  BY <1>0, <1>1, <1>6 DEF RefPerTerminal, Drawing
<1>13. SizesAgree'
  <2> SUFFICES ASSUME ~fault, NEW w \in open
               PROVE  /\ grid'[w] = <<fb'[w].size, font_scaling'>>
                      /\ screen'[w] = grid'[w] /\ pty'[w] = grid'[w]
    BY <1>1 DEF SizesAgree, Drawing
  <2>1. font_ref # 0 /\ w \in Vts
    <3>1. font_ref = Cardinality(open) /\ open \subseteq Vts
      BY <1>0, <1>1 DEF RefPerTerminal, Drawing, Rest
    <3> QED
      BY <1>1, <3>1, FiniteVts
  <2>2. font_scaling' = font_scaling
    BY <1>4, <1>6, <2>1
  <2>3. grid[w] = <<fb[w].size, font_scaling>> /\ screen[w] = grid[w] /\ pty[w] = grid[w]
    BY <1>0, <1>1 DEF SizesAgree, Drawing
  <2> QED
    BY <1>7, <1>9, <1>10, <2>1, <2>2, <2>3
<1> QED
  BY <1>6, <1>11, <1>12, <1>13 DEF IInv

LEMMA DestroySplashStep == ASSUME IInv, DestroySplash PROVE IInv'
<1>0. Tables /\ Rest /\ FontOK(Font) /\ RefPerTerminal /\ SizesAgree /\ 0 \in Vts
  BY VtsAssumption DEF IInv
<1>1. /\ pc = "idle" /\ 0 \in open /\ UNCHANGED <<monitor, fault, pc, todo, scaling>>
      /\ Forget(0) /\ SetFont(FontFree(Font))
  BY DEF DestroySplash
<1>2. FontOK(Font)' /\ font_ref' = font_ref - 1 /\ font_scaling' = font_scaling
  BY <1>0, <1>1, FreeOfFont, SetFontOK, FontIs
<1>3. /\ Tables' /\ open' = open \ {0}
      /\ \A w \in Vts \ {0} : /\ fb'[w] = fb[w] /\ grid'[w] = grid[w]
                              /\ screen'[w] = screen[w] /\ pty'[w] = pty[w]
  BY <1>0, <1>1, ForgetOK
<1>4. Rest' /\ LoopOK'
  BY <1>0, <1>1, <1>3 DEF Rest, LoopOK
<1>5. RefPerTerminal'
  BY <1>0, <1>1, <1>2, <1>3, OneLess DEF RefPerTerminal, Drawing, Rest
<1>6. SizesAgree'
  BY <1>0, <1>1, <1>2, <1>3 DEF SizesAgree, Drawing, Rest
<1> QED
  BY <1>2, <1>3, <1>4, <1>5, <1>6 DEF IInv

\* A loop begins: every terminal is on its list.
LEMMA LoopBegins ==
  ASSUME IInv, pc = "idle", pc' = "free", todo' = open,
         UNCHANGED <<open, fb, sizes, font_ref, font_scaling, glyphs, fault>>,
         monitor' \in Monitors \cup {NoMonitor}, scaling' \in 0 .. MaxScale
  PROVE  IInv'
<1>1. Tables' /\ Rest' /\ LoopOK'
  BY DEF IInv, Tables, Rest, LoopOK, sizes
<1>2. FontOK(Font)'
  BY DEF IInv, FontOK, Font
<1>3. RefPerTerminal' /\ SizesAgree'
  BY DEF IInv, RefPerTerminal, SizesAgree, Drawing
<1> QED
  BY <1>1, <1>2, <1>3 DEF IInv

LEMMA ZoomStep == ASSUME IInv, NEW zoom_in \in BOOLEAN, Zoom(zoom_in) PROVE IInv'
<1>1. font_scaling \in 0 .. MaxScale /\ monitor \in Monitors \cup {NoMonitor}
  BY FontIs DEF IInv, FontOK, Rest
<1>2. \E s \in 0 .. MaxScale : Rescale(s)
  BY <1>1, ScaleAssumption DEF Zoom
<1> QED
  BY <1>1, <1>2, LoopBegins DEF Rescale

LEMMA HotplugStep ==
  ASSUME IInv, NEW m \in Monitors \cup {NoMonitor}, Hotplug(m)
  PROVE  IInv'
BY LoopBegins, ScaleAssumption DEF Hotplug

LEMMA FreeOneStep == ASSUME IInv, NEW v \in Vts, FreeOne(v) PROVE IInv'
<1>0. Tables /\ Rest /\ FontOK(Font) /\ RefPerTerminal /\ LoopOK
  BY DEF IInv
<1>1. /\ pc = "free" /\ v \in todo /\ todo' = todo \ {v} /\ SetFont(FontFree(Font))
      /\ UNCHANGED <<monitor, open, fb, grid, screen, pty, fault, pc, scaling>>
  BY DEF FreeOne, First, sizes
<1>2. FontOK(Font)' /\ font_ref' = font_ref - 1
  BY <1>0, <1>1, FreeOfFont, SetFontOK, FontIs
<1>3. Tables' /\ Rest' /\ LoopOK'
  BY <1>0, <1>1 DEF Tables, Rest, LoopOK
<1>4. RefPerTerminal'
  BY <1>0, <1>1, <1>2, OneLess DEF RefPerTerminal, Rest
<1>5. SizesAgree'
  BY <1>1 DEF SizesAgree, Drawing
<1> QED
  BY <1>2, <1>3, <1>4, <1>5 DEF IInv

\* The first loop is done: nobody holds the font.
LEMMA AllFreedStep == ASSUME IInv, AllFreed PROVE IInv'
<1>1. /\ pc = "free" /\ todo = {} /\ pc' = "take" /\ todo' = open
      /\ UNCHANGED <<monitor, open, fb, sizes, font_ref, font_scaling, glyphs, fault, scaling>>
  BY DEF AllFreed
<1>2. Tables' /\ Rest' /\ LoopOK'
  BY <1>1 DEF IInv, Tables, Rest, LoopOK, sizes
<1>3. FontOK(Font)'
  BY <1>1 DEF IInv, FontOK, Font
<1>4. Drawing' = {}
  BY <1>1 DEF Drawing
<1>5. RefPerTerminal' /\ SizesAgree'
  BY <1>1, <1>4 DEF IInv, RefPerTerminal, SizesAgree
<1> QED
  BY <1>2, <1>3, <1>5 DEF IInv

\* The other steps: the same terminals draw.
LEMMA SameDrawing ==
  ASSUME IInv, pc # "free", pc' # "free", Drawing' = Drawing, Rest', LoopOK',
         UNCHANGED <<fb, sizes, font_ref, font_scaling, glyphs, fault>>
  PROVE  IInv'
<1>1. Tables' /\ FontOK(Font)'
  BY DEF IInv, Tables, FontOK, Font, sizes
<1>2. RefPerTerminal' /\ SizesAgree'
  BY DEF IInv, RefPerTerminal, SizesAgree, sizes
<1> QED
  BY <1>1, <1>2 DEF IInv

LEMMA AllTakenStep == ASSUME IInv, AllTaken PROVE IInv'
<1>1. /\ pc = "take" /\ todo = {} /\ pc' = "idle"
      /\ UNCHANGED <<monitor, open, fb, sizes, font_ref, font_scaling, glyphs, fault, todo, scaling>>
  BY DEF AllTaken
<1>2. Rest' /\ LoopOK' /\ Drawing' = Drawing
  BY <1>1 DEF IInv, Rest, LoopOK, Drawing
<1> QED
  BY <1>1, <1>2, SameDrawing

LEMMA CrashStep == ASSUME IInv, Crash PROVE IInv'
<1>1. /\ pc = "idle" /\ pc' = "stopped"
      /\ UNCHANGED <<monitor, open, fb, sizes, font_ref, font_scaling, glyphs, fault, todo, scaling>>
  BY DEF Crash
<1>2. Rest' /\ LoopOK' /\ Drawing' = Drawing
  BY <1>1 DEF IInv, Rest, LoopOK, Drawing
<1> QED
  BY <1>1, <1>2, SameDrawing

LEMMA NextOK == IInv /\ [Next]_vars => IInv'
<1> SUFFICES ASSUME IInv, [Next]_vars PROVE IInv'
  OBVIOUS
<1>1. CASE UNCHANGED vars
  BY <1>1 DEF vars, sizes, IInv, Tables, Rest, LoopOK, FontOK, Font, RefPerTerminal,
              SizesAgree, Drawing
<1>2. ASSUME NEW v \in Vts,
             \/ OpenTerm(v)
             \/ OpenFails(v)
             \/ Restart(v)
             \/ RestartFails(v)
             \/ FreeOne(v)
             \/ \E answer \in Answers : TakeOne(v, answer)
      PROVE  IInv'
  BY <1>2, OpenTermStep, OpenFailsStep, RestartStep, RestartFailsStep, FreeOneStep, TakeOneStep
<1>3. CASE \E zoom_in \in BOOLEAN : Zoom(zoom_in)
  BY <1>3, ZoomStep
<1>4. CASE \E m \in Monitors \cup {NoMonitor} : Hotplug(m)
  BY <1>4, HotplugStep
<1>5. CASE Crash \/ DestroySplash \/ AllFreed \/ AllTaken
  BY <1>5, CrashStep, DestroySplashStep, AllFreedStep, AllTakenStep
<1> QED
  BY <1>1, <1>2, <1>3, <1>4, <1>5 DEF Next
-----------------------------------------------------------------------------
\* Every variable keeps its type; however often term_zoom is called and whatever
\* fails, the scaling is never above the largest, and it is not 0 while the font
\* counts as held (at a count below 1 it may be, and term_resize divides by it).
THEOREM FontTypeCorrect == Spec => []TypeOK
<1>1. IInv => TypeOK
  <2> SUFFICES ASSUME IInv PROVE TypeOK
    OBVIOUS
  <2>1. /\ fb \in [Vts -> [size : Nat, scaling : 1 .. MaxScale]]
        /\ \A s \in {grid, screen, pty} : s \in [Vts -> Nat \X (0 .. MaxScale)]
    BY DEF IInv, Tables, FbType, SizeTable, SizeType
  <2>2. /\ font_ref \in Int /\ font_scaling \in 0 .. MaxScale
        /\ font_ref >= 1 => font_scaling >= 1
        /\ glyphs \in {0} \cup 2 .. MaxScale
    BY FontIs, ScaleAssumption DEF IInv, FontOK
  <2> QED
    BY <2>1, <2>2 DEF TypeOK, IInv, Rest
<1> QED
  BY InitOK, NextOK, <1>1, PTL DEF Spec

\* The glyphs in store go with the count of the references, whatever fails; and
\* as long as no terminal failed to be set up that count is the number of the
\* terminals that hold the font, so that a zoom or a hotplug never takes effect
\* under a terminal that still draws (font_init, font_free).
THEOREM FontAlwaysShared == Spec => []FontShared
<1>1. IInv => FontShared
  <2> SUFFICES ASSUME IInv PROVE FontShared
    OBVIOUS
  <2>1. GlyphsMatch
    BY FontIs DEF IInv, FontOK, GlyphsMatch
  <2> QED
    BY <2>1 DEF IInv, FontShared
<1> QED
  BY InitOK, NextOK, <1>1, PTL DEF Spec

\* As long as no terminal failed to be set up, a terminal that draws, its screen
\* and its child agree on one size, that of its framebuffer at the current scaling
\* (term_resize).
THEOREM SizesAlwaysAgree == Spec => []SizesAgree
<1>1. IInv => SizesAgree
  BY DEF IInv
<1> QED
  BY InitOK, NextOK, <1>1, PTL DEF Spec
=============================================================================
