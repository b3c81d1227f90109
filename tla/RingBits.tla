------------------------------ MODULE RingBits ------------------------------
(***************************************************************************)
(* The bit arithmetic of the pty ring buffer for a size_t of Width bits,   *)
(* as shl_pty.c computes it.  A number and the set of the positions of its *)
(* ones say the same; the operators of C are given by the positions.       *)
(***************************************************************************)
EXTENDS Naturals

CONSTANT Width

ASSUME WidthAssumption == Width \in Nat \ {0}

Positions == 0 .. Width - 1

Pow2[n \in 0 .. Width] == IF n = 0 THEN 1 ELSE 2 * Pow2[n - 1]

\* v, halved n times.
Halved(v) ==
  LET half[n \in 0 .. Width] == IF n = 0 THEN v ELSE half[n - 1] \div 2 IN half

\* The number whose ones are S, from the top: what its n upper bits say.
Upper(S) ==
  LET upper[n \in 0 .. Width] ==
        IF n = 0 THEN 0 ELSE 2 * upper[n - 1] + (IF Width - n \in S THEN 1 ELSE 0)
  IN  upper

Bits(v) == {k \in Positions : Halved(v)[k] % 2 = 1}
Number(S) == Upper(S)[Width]

Or(v, w) == Number(Bits(v) \cup Bits(w))
And(v, w) == Number(Bits(v) \cap Bits(w))
ShiftRight(v, i) == Number({k \in Positions : k + i \in Bits(v)})

\* The loop of ring_pow2 after n rounds: i is 1, 2, 4 and so on below Width.
Smeared(v) ==
  LET smeared[n \in 0 .. Width] ==
        IF n = 0 THEN v
        ELSE IF Pow2[n - 1] < Width
        THEN Or(smeared[n - 1], ShiftRight(smeared[n - 1], Pow2[n - 1]))
        ELSE smeared[n - 1]
  IN  smeared

\* ring_pow2: the next power of two, 4096 for 0, 0 when it does not fit.
CodePow2(v) == IF v = 0 THEN 4096 ELSE (Smeared(v - 1)[Width] + 1) % Pow2[Width]

\* RING_MASK.
CodeMask(size, v) == And(v, size - 1)

\* What a size_t can be, and the sizes ring_pow2 can return.
CodeMaxSize == Pow2[Width] - 1
CodeSizes == {Pow2[k] : k \in Positions}
=============================================================================
