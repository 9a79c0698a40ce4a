---------------------------- MODULE MCFramebuffer ----------------------------
(***************************************************************************)
(* A screen of three rows of two pixels, without a spare line; one colour  *)
(* of the palette and one beyond it; a line that drifts to the left, a     *)
(* block given by its lower right corner first, a dot.                     *)
(***************************************************************************)
EXTENDS Framebuffer

MCLines == {<< <<1, 0>>, <<0, 2>> >>}
MCBlocks == {<< <<2, 3>>, <<1, 1>> >>}
MCCircles == {<< <<1, 1>>, 0 >>}
=============================================================================
