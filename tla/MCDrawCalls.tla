----------------------------- MODULE MCDrawCalls -----------------------------
(***************************************************************************)
(* All lines between two pixels of a field, so that slopes with a          *)
(* remainder occur in every direction, and radii up to ten times sixteen,  *)
(* the divisor in the circle's start.                                      *)
(***************************************************************************)
EXTENDS DrawCalls

MCPoints == {<<x, y>> : x, y \in 0 .. 10}
MCRadii == 0 .. 160
=============================================================================
