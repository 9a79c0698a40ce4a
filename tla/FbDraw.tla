------------------------------- MODULE FbDraw -------------------------------
(***************************************************************************)
(* The drawing algorithms of fb.c as the sets of pixels they store to, and *)
(* what a line and a circle on a grid should be.  A pixel is <<x, y>>.     *)
(*                                                                         *)
(* Coordinates are 16 bits wide in the code and differences are computed   *)
(* in 32; the callers' coordinates are those of a screen, far below 32768, *)
(* where neither width is reached.                                         *)
(***************************************************************************)
EXTENDS Integers, FiniteSets

Abs(n) == IF n < 0 THEN -n ELSE n
Sgn(n) == IF n < 0 THEN -1 ELSE IF n > 0 THEN 1 ELSE 0

Fixed == 65536    \* the unit of the 16.16 fixed-point numbers

\* Division in C rounds towards zero, >> of a negative number rounds down.
Quotient(a, b) == Sgn(a) * (Abs(a) \div b)

-----------------------------------------------------------------------------
(***************************************************************************)
(* A line runs along its longer axis, a pixel per step, and drifts across. *)
(***************************************************************************)
YLonger(p, q)  == Abs(q[2] - p[2]) > Abs(q[1] - p[1])
LongLen(p, q)  == IF YLonger(p, q) THEN q[2] - p[2] ELSE q[1] - p[1]
ShortLen(p, q) == IF YLonger(p, q) THEN q[1] - p[1] ELSE q[2] - p[2]
Steps(p, q)    == Abs(LongLen(p, q))

\* The pixel k steps along the line from p to q, and c across.
LinePixel(p, q, k, c) ==
    LET i == k * Sgn(LongLen(p, q))
    IN IF YLonger(p, q) THEN <<p[1] + c, p[2] + i>> ELSE <<p[1] + i, p[2] + c>>

\* Mutant: the slope is divided before it is scaled.
DecInc_late(p, q) ==
    IF Steps(p, q) = 0 THEN 0 ELSE Quotient(ShortLen(p, q), Steps(p, q)) * Fixed

\* decInc: how far the line drifts in a step.
DecInc(p, q) ==
    IF Steps(p, q) = 0 THEN 0 ELSE Quotient(ShortLen(p, q) * Fixed, Steps(p, q))

\* _line.  After k steps the sum "j" is k * decInc.
LinePixels(p, q) ==
    {LinePixel(p, q, k, (k * DecInc(p, q)) \div Fixed) : k \in 0 .. Steps(p, q) - 1}

\* _block: the corners may be any two opposite ones; the sides to the right and
\* at the bottom are not part of it.
BlockPixels(p, q) ==
    {<<x, y>> : x \in (IF p[1] < q[1] THEN p[1] .. q[1] - 1 ELSE q[1] .. p[1] - 1),
                y \in (IF p[2] < q[2] THEN p[2] .. q[2] - 1 ELSE q[2] .. p[2] - 1)}

-----------------------------------------------------------------------------
\* Mutant: the error is compared before the next row is counted in.
CircleStep_early(s) ==
    LET t2 == s.t1 - s.xpos
    IN  IF t2 >= 0 THEN [xpos |-> s.xpos - 1, ypos |-> s.ypos + 1, t1 |-> t2 + s.ypos]
                   ELSE [s EXCEPT !.ypos = @ + 1, !.t1 = @ + s.ypos]

\* The body of fb_circle's loop, after its eight points.
CircleStep(s) ==
    LET t1 == s.t1 + s.ypos + 1
        t2 == t1 - s.xpos
    IN  IF t2 >= 0 THEN [xpos |-> s.xpos - 1, ypos |-> s.ypos + 1, t1 |-> t2]
                   ELSE [s EXCEPT !.ypos = @ + 1, !.t1 = t1]

\* The eighth of the circle the loop walks along: it ends when xpos < ypos, which
\* each iteration brings nearer.
Octant(radius) ==
    LET walk[n \in 0 .. radius + 1] ==
            IF n = 0 THEN [xpos |-> radius, ypos |-> 0, t1 |-> radius \div 16]
                     ELSE CircleStep(walk[n - 1])
    IN {walk[n] : n \in {m \in 0 .. radius + 1 : walk[m].xpos >= walk[m].ypos}}

\* fb_circle
CirclePixels(p, radius) ==
    UNION {{<<p[1] + i * s.xpos, p[2] + j * s.ypos>> : i, j \in {-1, 1}} \cup
           {<<p[1] + i * s.ypos, p[2] + j * s.xpos>> : i, j \in {-1, 1}}
             : s \in Octant(radius)}

-----------------------------------------------------------------------------
(***************************************************************************)
(* What the pixels of a shape should be.                                   *)
(***************************************************************************)
\* S is a stroke from p towards q: it starts in p and stops before q, has one
\* pixel per step, leaves neither the box of the two ends nor the line by more
\* than a pixel, and has no gap.
IsStroke(S, p, q) ==
    LET n == Steps(p, q)
        short == ShortLen(p, q)
        drifts(k) == {c \in -n .. n : LinePixel(p, q, k, c) \in S}
    IN  /\ Cardinality(S) = n
        /\ \A k \in 0 .. n - 1 :
             \E c \in drifts(k) :
                /\ k = 0 => c = 0
                /\ c * n <= k * short /\ k * short <= (c + 1) * n
                /\ 0 <= c * Sgn(short) /\ c * Sgn(short) <= Abs(short)
                /\ k > 0 => \E d \in drifts(k - 1) : c - d \in -1 .. 1

Near(p, q) == Abs(p[1] - q[1]) <= 1 /\ Abs(p[2] - q[2]) <= 1

\* S is a ring around p: no pixel is as much as a pixel away from the circle,
\* none has fewer than two neighbours, and it looks the same from eight sides.
IsRing(S, p, radius) ==
    \A s \in S :
      LET dx == s[1] - p[1]
          dy == s[2] - p[2]
      IN  /\ dx * dx + dy * dy < (radius + 1) * (radius + 1)
          /\ radius > 0 =>
               /\ dx * dx + dy * dy > (radius - 1) * (radius - 1)
               /\ Cardinality({r \in S : Near(r, s)}) >= 3
          /\ \A i, j \in {-1, 1} : /\ <<p[1] + i * dx, p[2] + j * dy>> \in S
                                   /\ <<p[1] + i * dy, p[2] + j * dx>> \in S
=============================================================================
