------------------------------- MODULE Canvas -------------------------------
(***************************************************************************)
(* What the framebuffer promises to programs: a picture of rows and        *)
(* columns.  A call paints the pixels of its shape, all in one colour, and *)
(* no other; a pan shifts the whole picture by one pixel, drops what leaves *)
(* it and shows the background colour on the side it comes from.           *)
(*                                                                         *)
(* One pixel of that side is left open: lines stop before their end, so    *)
(* the last pixel keeps whatever the shift brought there.                  *)
(***************************************************************************)
EXTENDS Integers

CONSTANTS XRes, YRes,   \* columns and rows
          Screen,       \* the pixels: all <<column, row>>
          Pixels,       \* the values of a pixel
          Colours,      \* the colour numbers of programs
          Entry(_),     \* the values a colour number may show as
          Blocks,       \* the <<corner, corner>> of the blocks a program draws
          Shapes        \* the sets of pixels its lines and circles may be

VARIABLES image, background

cvars == <<image, background>>

CanvasInit ==
    /\ image \in [Screen -> Pixels]
    /\ background = 0

\* The pixels between two opposite corners, but for the last column and row.
Rectangle(p, q) ==
    {r \in Screen : \A i \in {1, 2} : \/ p[i] <= r[i] /\ r[i] < q[i]
                                      \/ q[i] <= r[i] /\ r[i] < p[i]}

Paint(S, value) ==
    /\ image' = [p \in Screen |-> IF p \in S THEN value ELSE image[p]]
    /\ UNCHANGED background

SetBackground ==
    /\ background' \in Colours
    /\ UNCHANGED image

\* The picture moved by <<dx, dy>>.  Of the pixels that appear the last one may be
\* anything, the others show the background.
Shift(dx, dy) ==
    /\ \E value \in Entry(background), last \in Pixels :
         image' =
           [p \in Screen |->
              LET from == <<p[1] - dx, p[2] - dy>>
              IN  IF from \in Screen THEN image[from]
                  ELSE IF (dx # 0 /\ p[2] = YRes - 1) \/ (dy # 0 /\ p[1] = XRes - 1)
                       THEN last ELSE value]
    /\ UNCHANGED background

CanvasNext ==
    \/ SetBackground
    \/ Shift(1, 0) \/ Shift(-1, 0) \/ Shift(0, 1) \/ Shift(0, -1)
    \/ \E value \in Pixels :
         \/ \E p \in Screen : Paint({p}, value)
         \/ \E S \in Shapes \cup {Screen} : Paint(S, value)
         \/ \E block \in Blocks : Paint(Rectangle(block[1], block[2]), value)

CanvasSpec == CanvasInit /\ [][CanvasNext]_cvars
=============================================================================
