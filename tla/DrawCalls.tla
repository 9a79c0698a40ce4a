------------------------------ MODULE DrawCalls ------------------------------
(***************************************************************************)
(* The calls fb_line and fb_circle one at a time, with the pixels they     *)
(* store to.  Where a pixel is in memory, and in what state the device is, *)
(* is Framebuffer's.                                                       *)
(***************************************************************************)
EXTENDS FbDraw

CONSTANTS Points,  \* the pixels a line may run between
          Radii    \* the radii of circles

ASSUME PointsAssumption == Points \subseteq Int \X Int
ASSUME RadiiAssumption  == Radii \subseteq Nat

VARIABLES call,   \* the call that is served: <<name, argument, argument>>
          drawn   \* the pixels it has stored to

vars == <<call, drawn>>

NoCall == <<"none">>

DrawInit == call = NoCall /\ drawn = {}

\* fb_line fetches the two ends, _line draws.
fb_line(p, q) ==
    /\ call = NoCall
    /\ call' = <<"line", p, q>>
    /\ drawn' = LinePixels(p, q)

\* The centre adds the same to every pixel.
fb_circle(radius) ==
    /\ call = NoCall
    /\ call' = <<"circle", <<0, 0>>, radius>>
    /\ drawn' = CirclePixels(<<0, 0>>, radius)

\* The call returns, and the program makes the next.
Return ==
    /\ call # NoCall
    /\ call' = NoCall
    /\ drawn' = {}

DrawNext ==
    \/ \E p, q \in Points : fb_line(p, q)
    \/ \E radius \in Radii : fb_circle(radius)
    \/ Return

DrawSpec == DrawInit /\ [][DrawNext]_vars

-----------------------------------------------------------------------------
\* Whatever its direction and slope, a line is a stroke: the fixed-point sum,
\* rounded towards zero once and down at every step, never leaves the box of the
\* two ends, which keeps a line between two points of the screen in its memory,
\* and never strays a pixel from the line (fb.c:107-138).
LinesAreStrokes == call[1] = "line" => IsStroke(drawn, call[2], call[3])

\* The integer recurrence, with its start at a sixteenth of the radius, keeps to
\* the circle at every radius and closes where the octants meet (fb.c:483-518).
CirclesAreRings == call[1] = "circle" => IsRing(drawn, call[2], call[3])
=============================================================================
