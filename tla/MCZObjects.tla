----------------------------- MODULE MCZObjects -----------------------------
(***************************************************************************)
(* Four objects that start alone, and games that may be in two places.     *)
(***************************************************************************)
EXTENDS ZObjects, TLC

CONSTANTS o1, o2, o3, o4, somewhere, elsewhere

MCObjects == {o1, o2, o3, o4}
MCPlaces == {somewhere, elsewhere}
MCStoryTree == [parent  |-> [o \in MCObjects |-> Nothing],
                sibling |-> [o \in MCObjects |-> Nothing],
                child   |-> [o \in MCObjects |-> Nothing]]

\* A branch that is taken leads to the other place, and so does one taken there.
MCBranchOf == [p \in MCPlaces |-> [taken \in BOOLEAN |->
                 IF taken THEN CHOOSE other \in MCPlaces : other # p ELSE p]]

\* All, none, all but the first, the last, or one in between.
MCOutcomes == {1 .. 5, {}, 2 .. 5, 1 .. 4, {1, 2, 4, 5}}

\* The numbers of objects are only compared.
MCSymmetry == Permutations(MCObjects)
=============================================================================
