----------------------------- MODULE MCTimeUnit -----------------------------
(***************************************************************************)
(* A second of two milliseconds of two microseconds each, and milliseconds *)
(* that start over after two seconds: a reading may straddle each of these,*)
(* and so may a sleep.  The longer of the two sleeps needs a high byte.    *)
(***************************************************************************)
EXTENDS TimeUnit

MCDurations == {1, 3}
=============================================================================
