------------------------------ MODULE Stepper -------------------------------
(***************************************************************************)
(* The arithmetic of drawing: where a box or an image starts, which pixels *)
(* fb_stepper visits and which word of the framebuffer each becomes, with  *)
(* int32_t and uint32_t of Word values.                                    *)
(*                                                                         *)
(* A framebuffer is [w, h, rotation], w and h as the display scans it out  *)
(* and the rotation in quarter turns.                                      *)
(***************************************************************************)
EXTENDS Integers

CONSTANT Word  \* how many values an int has: 2 to the number of its bits

ASSUME WordAssumption == Word \in Nat \ {0} /\ Word % 2 = 0

\* Framebuffers, and the sizes a monitor can have: its modes have 16 bits for
\* each, an int twice as many.
Framebuffers == [w : Nat, h : Nat, rotation : 0 .. 3]
MonitorSize == 0 .. Word \div 8

Unsigned(n) == n % Word
Signed(n) == IF n % Word < Word \div 2 THEN n % Word ELSE (n % Word) - Word

\* The division of C.
Quotient(a, b) == IF a >= 0 THEN a \div b ELSE -((-a) \div b)

\* fb_getwidth, fb_getheight, and max_x, max_y of fb_stepper_init.
Sideways(fb) == fb.rotation \in {1, 3}
ScreenW(fb) == IF Sideways(fb) THEN fb.h ELSE fb.w
ScreenH(fb) == IF Sideways(fb) THEN fb.w ELSE fb.h

\* The rotation fb_buffer_init reads from "panel orientation".
RotationOf(panel) == IF panel \in 1 .. 3 THEN <<2, 3, 1>>[panel] ELSE 0

\* Wrong: the pixel just right of the screen is taken to be on it.
VisibleAtEdge(fb, x, y) == x >= 0 /\ x <= ScreenW(fb) /\ y >= 0 /\ y < ScreenH(fb)

\* The test of fb_stepper_step_x.
Visible(fb, x, y) == x >= 0 /\ x < ScreenW(fb) /\ y >= 0 /\ y < ScreenH(fb)

\* Wrong: the last column is forgotten when turned upside down.
CellOffByOne(fb, x, y) ==
  IF fb.rotation = 1 THEN <<fb.w - 1 - y, x>>
  ELSE IF fb.rotation = 3 THEN <<y, fb.h - 1 - x>>
  ELSE IF fb.rotation = 2 THEN <<fb.w - x, fb.h - 1 - y>>
  ELSE <<x, y>>

\* The matrices of fb_stepper_init: column and row of a pixel of the screen.
Cell(fb, x, y) ==
  IF fb.rotation = 1 THEN <<fb.w - 1 - y, x>>
  ELSE IF fb.rotation = 3 THEN <<y, fb.h - 1 - x>>
  ELSE IF fb.rotation = 2 THEN <<fb.w - 1 - x, fb.h - 1 - y>>
  ELSE <<x, y>>

\* What fb_stepper_init lets through: the sum of a signed position and an
\* unsigned size is unsigned, and not above 0 only when it is 0.
Starts(fb, x, y, w, h) ==
  /\ Unsigned(x + w) # 0 /\ Unsigned(y + h) # 0
  /\ x < ScreenW(fb) /\ y < ScreenH(fb)

\* The steps taken in one direction: one at least.
Steps(size) == 0 .. (IF size = 0 THEN 0 ELSE size - 1)

\* The double loop over fb_stepper_step_x and fb_stepper_step_y.
Fill(fb, x, y, w, h) ==
  IF ~Starts(fb, x, y, w, h) THEN {}
  ELSE {Cell(fb, Signed(x + p[1]), Signed(y + p[2])) :
          p \in {q \in Steps(w) \X Steps(h) :
                   Visible(fb, Signed(x + q[1]), Signed(y + q[2]))}}

\* Where a box starts in direction d, term_esc_draw_box: the difference of the
\* screen's size and the box's is unsigned, and so is its half.
BoxStart(place, d, screen, size) ==
  LET centre == Signed(Unsigned(screen - size) \div 2) IN
  CASE place.use_location -> Signed(place.location[d])
    [] ~place.use_location /\ place.use_offset ->
         Signed(centre + place.offset[d] * place.scale)
    [] OTHER -> centre

\* The same for an image, image_show.
ImageStart(place, d, screen, size) ==
  LET centre == Quotient(screen - Signed(size), 2) IN
  CASE place.use_location -> Signed(place.location[d])
    [] ~place.use_location /\ place.use_offset ->
         Signed(centre + place.offset[d] * place.scale)
    [] OTHER -> centre

\* term_clear_border around a grid of cells of cw by ch.
Border(fb, cw, ch) ==
  LET right == (ScreenW(fb) \div cw) * cw
      below == (ScreenH(fb) \div ch) * ch
  IN  Fill(fb, right, 0, ScreenW(fb) - right, below)
      \cup Fill(fb, 0, below, ScreenW(fb), ScreenH(fb) - below)
-----------------------------------------------------------------------------
(* What drawing means, in whole numbers.                                   *)

\* A quarter turn of a screen of height h.
Turn(h, p) == <<h - 1 - p[2], p[1]>>

\* The framebuffer's pixel for one of the screen, by turning.
Turned(fb, p) ==
  LET w == ScreenW(fb)
      h == ScreenH(fb)
  IN  IF fb.rotation = 0 THEN p
      ELSE IF fb.rotation = 1 THEN Turn(h, p)
      ELSE IF fb.rotation = 2 THEN Turn(w, Turn(h, p))
      ELSE Turn(h, Turn(w, Turn(h, p)))

\* The words of the framebuffer.
Cells(fb) == (0 .. fb.w - 1) \X (0 .. fb.h - 1)

Screen(fb) == (0 .. ScreenW(fb) - 1) \X (0 .. ScreenH(fb) - 1)

\* The part of a rectangle that is on the screen.
Shown(fb, x, y, w, h) ==
  {Turned(fb, p) : p \in Screen(fb) \cap ((x .. x + w - 1) \X (y .. y + h - 1))}

\* In the middle: the margins differ by a pixel at most.
Centred(start, screen, size) == (screen - size - start) - start \in -1 .. 1
=============================================================================
