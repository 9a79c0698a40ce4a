------------------------------ MODULE ZObjects ------------------------------
(***************************************************************************)
(* The object tree of the Z-machine and the file a game is saved in        *)
(* (native/C/z-machine/mojozork.c, stories of version 3).                  *)
(*                                                                         *)
(* An object has three bytes in the story's memory: its parent, its next   *)
(* sibling and its first child.  save writes that memory, then the rest of *)
(* the game in four pieces; it goes on when a piece cannot be written, and *)
(* the program may be killed between two of them.  restore reads the five  *)
(* over the running game, and dies afterwards if one was missing.          *)
(*                                                                         *)
(* The rest of a game (pc, sp, stack, bp) is one value here, its place.    *)
(* save and restore end in a branch: a story goes on after a restore where *)
(* it went on after the save.  A branch that returns from no routine dies, *)
(* which is a step of its own here.                                        *)
(*                                                                         *)
(* A story never puts an object into itself or into one it holds; nothing  *)
(* in the code looks.                                                      *)
(***************************************************************************)
EXTENDS Integers, FiniteSets, SequencesExt

CONSTANTS Objects,    \* the numbers of the objects
          Nothing,    \* the number 0
          Places,     \* where a game may be: pc, sp, stack, bp
          StoryTree,  \* the three bytes of every object in the story's file
          StoryPlace, \* where a game starts
          BranchOf,   \* where doBranch leads from a place, by what it is told
          Outcomes    \* the sets of pieces that may get written

ASSUME OutcomesAssumption == Outcomes \subseteq SUBSET (1 .. 5)
ASSUME ObjectsAssumption == IsFiniteSet(Objects) /\ Nothing \notin Objects

VARIABLES tree,       \* the bytes: [parent, sibling, child]
          place,      \* where the game is
          file,       \* the pieces in save.dat, NoFile if there is none
          promise,    \* history: the game that a story, told that it is saved, went
                      \* on with, if the file was closed with all of it
          status      \* "running"; "dead", until the program is run again;
                      \* "lost", if a walk along a list has run off its end;
                      \* "astray", executing what is no instruction; "undefined"

objVars == <<tree, place, file, promise, status>>

ObjectIds == Objects \cup {Nothing}
NoFile == <<"none">>
NoPromise == <<>>

-----------------------------------------------------------------------------
(***************************************************************************)
(* The objects' lists.                                                     *)
(***************************************************************************)
\* The objects met on the way from x along the siblings, no more than there are.
Walk(t) ==
    LET from[n \in 0 .. Cardinality(Objects)] ==
            [x \in ObjectIds |->
                IF n = 0 \/ x = Nothing THEN <<>> ELSE <<x>> \o from[n - 1][t.sibling[x]]]
    IN  from

ListFrom(t, x) == Walk(t)[Cardinality(Objects)][x]

ListOf(t, holder) == ListFrom(t, t.child[holder])

Contents(t) == [holder \in Objects |-> ListOf(t, holder)]

\* What the bytes of the objects should be: those behind child are a list, each
\* object in it once, and the objects in the list are the ones with that parent.
Trees == [parent : [Objects -> ObjectIds], sibling : [Objects -> ObjectIds],
          child : [Objects -> ObjectIds]]

Chain(t, x, list) ==
    /\ list \in Seq(Objects) /\ IsInjective(list)
    /\ x = IF list = <<>> THEN Nothing ELSE list[1]
    /\ \A n \in DOMAIN list :
          t.sibling[list[n]] = IF n = Len(list) THEN Nothing ELSE list[n + 1]

WellFormed(t) ==
    \A holder \in Objects :
        /\ Chain(t, t.child[holder], ListOf(t, holder))
        /\ \A o \in Objects : t.parent[o] = holder <=> o \in ToSet(ListOf(t, holder))

\* The compiler that wrote the story has made such a tree.
ASSUME StoryAssumption ==
    StoryTree \in Trees /\ WellFormed(StoryTree) /\ StoryPlace \in Places

ASSUME BranchAssumption == BranchOf \in [Places -> [BOOLEAN -> Places]]

ObjInit == /\ tree = StoryTree
           /\ place = StoryPlace
           /\ file = NoFile
           /\ promise = NoPromise
           /\ status = "running"

-----------------------------------------------------------------------------
(***************************************************************************)
(* unparentObject.                                                         *)
(***************************************************************************)
\* Those before o in its parent's list; the walk fails if o is not in it.
Before(t, o) == {x \in ToSet(ListOf(t, t.parent[o])) : t.sibling[x] = o}

Lost(t, o) == /\ t.parent[o] # Nothing
              /\ t.child[t.parent[o]] # o
              /\ Before(t, o) = {}

\* Mutant: the first child is looked for among the siblings only.
Unparented_first(t, o) ==
    IF t.parent[o] = Nothing THEN t
    ELSE IF t.child[t.parent[o]] = o
         THEN [t EXCEPT !.child[t.parent[o]] = Nothing]
         ELSE [t EXCEPT !.sibling = [x \in Objects |->
                  IF x \in Before(t, o) THEN t.sibling[o] ELSE @[x]]]

Unparented(t, o) ==
    IF t.parent[o] = Nothing THEN t
    ELSE IF t.child[t.parent[o]] = o
         THEN [t EXCEPT !.child[t.parent[o]] = t.sibling[o]]
         ELSE [t EXCEPT !.sibling = [x \in Objects |->
                  IF x \in Before(t, o) THEN t.sibling[o] ELSE @[x]]]

\* Mutant: the destination's first child is read before the object is taken out.
Inserted_early(t, o, dst) ==
    [Unparented(t, o) EXCEPT !.parent[o] = dst, !.sibling[o] = t.child[dst], !.child[dst] = o]

\* opcode_insert_obj: the destination's first child is read after the object has
\* left its old list, which may be the same one.
Inserted(t, o, dst) ==
    LET u == Unparented(t, o)
    IN  [u EXCEPT !.parent[o] = dst, !.sibling[o] = u.child[dst], !.child[dst] = o]

Removed(t, o) ==
    [Unparented(t, o) EXCEPT !.parent[o] = Nothing, !.sibling[o] = Nothing]

\* Object o, its parent, the parent of that, and so on.
Holders(t, o) ==
    LET up[n \in 0 .. Cardinality(Objects)] ==
            IF n = 0 THEN {o}
            ELSE up[n - 1] \cup {t.parent[x] : x \in up[n - 1] \ {Nothing}}
    IN  up[Cardinality(Objects)]

-----------------------------------------------------------------------------
\* An instruction ends and the game is somewhere else.
Continue == place' \in Places /\ UNCHANGED <<file, promise, status>>

\* The process ends, or nothing more can be said of it.  Its memory is gone: what
\* the next run will load takes its place here.
Ended(how) == /\ status' = how
              /\ tree' = StoryTree
              /\ place' = StoryPlace

Halt(how) == Ended(how) /\ UNCHANGED <<file, promise>>

\* The walk along a list that ends without finding the object asks for object 0,
\* and getObjectPtr dies.
Move(o, t) == /\ tree' = t
              /\ place' \in Places
              /\ status' = IF Lost(tree, o) THEN "lost" ELSE "running"
              /\ UNCHANGED <<file, promise>>

InsertObj(o, dst) == o \notin Holders(tree, dst) /\ Move(o, Inserted(tree, o, dst))

RemoveObj(o) == Move(o, Removed(tree, o))

\* jin compares a parent and branches; with object 0 it returns without the bytes
\* of its branch, which are executed next.
Jin(o) == IF o = Nothing THEN Halt("astray")
                         ELSE Continue /\ UNCHANGED tree

\* get_parent, get_sibling, get_child, and every instruction that has nothing to
\* do with objects.
Other == Continue /\ UNCHANGED tree

\* getObjectPtr, of object 0; and all other reasons to die.
Die == Halt("dead")

-----------------------------------------------------------------------------
(***************************************************************************)
(* opcode_save, opcode_restore, opcode_restart, and the end of the program.*)
(***************************************************************************)
\* Mutant: the place that is saved is the one behind the branch.
Pieces_branched ==
    LET behind == BranchOf[place][TRUE]
    IN  << <<"memory", tree>>, <<"pc", behind>>, <<"sp", behind>>,
           <<"stack", behind>>, <<"bp", behind>> >>

\* pc is at the branch of the save.
Pieces == << <<"memory", tree>>, <<"pc", place>>, <<"sp", place>>,
             <<"stack", place>>, <<"bp", place>> >>

Complete(pieces) == DOMAIN pieces = 1 .. 5

\* Those of the pieces that are written, one behind the other in the file.
Written(which) == [n \in which |-> Pieces[n]]

\* okay: what became of the calls of fwrite.
Answer(written) == written = 1 .. 5

\* Opening the file empties it.  Of the pieces that fwrite took, fclose may fail to
\* bring some to the file; its result is not looked at.
Save(written, kept) ==
    /\ kept \subseteq written
    /\ file' = Written(kept)
    /\ place' = BranchOf[place][Answer(written)]
    /\ promise' = IF Answer(written) /\ kept = written
                  THEN [tree |-> tree, place |-> place'] ELSE NoPromise
    /\ UNCHANGED <<tree, status>>

\* The file cannot be opened for writing: fwrite is given no file.
SaveUnopened == Halt("undefined")

KilledWhileSaving(kept) ==
    /\ file' = Written(kept)
    /\ promise' = NoPromise
    /\ Ended("dead")

\* Mutant: the memory is read where sp was written.
GameInFile_swapped == [tree |-> file[3][2], place |-> BranchOf[file[2][2]][TRUE]]

\* What restore makes of a complete file: the branch of the save is taken again.
GameInFile == [tree |-> file[1][2], place |-> BranchOf[file[2][2]][TRUE]]

\* A piece that is missing leaves too few bytes for those that follow.
Restore ==
    /\ file # NoFile
    /\ IF Complete(file)
       THEN /\ tree' = GameInFile.tree
            /\ place' = GameInFile.place
            /\ UNCHANGED <<status, file, promise>>
       ELSE Halt("dead")

RestoreUnopened == file = NoFile /\ Halt("undefined")

\* loadStory
Restart == Halt("running")

RunAgain == status \in {"dead", "lost"} /\ status' = "running"
            /\ UNCHANGED <<tree, place, file, promise>>

ObjNext ==
    \/ /\ status = "running"
       /\ \/ \E o, dst \in Objects : InsertObj(o, dst)
          \/ \E o \in Objects : RemoveObj(o)
          \/ \E o \in ObjectIds : Jin(o)
          \/ Other \/ Die \/ Restart
          \/ \E written, kept \in Outcomes : Save(written, kept)
          \/ \E kept \in Outcomes : KilledWhileSaving(kept)
          \/ SaveUnopened \/ Restore \/ RestoreUnopened
    \/ RunAgain

ObjSpec == ObjInit /\ [][ObjNext]_objVars

-----------------------------------------------------------------------------
(***************************************************************************)
(* Properties.                                                             *)
(***************************************************************************)
ObjTypeOK ==
    /\ tree \in Trees
    /\ place \in Places
    /\ promise \in [tree : Trees, place : Places] \cup {NoPromise}
    /\ status \in {"running", "dead", "lost", "astray", "undefined"}

\* Every object with a parent is in its parent's list, so that taking it out never
\* runs off the end of the list, whatever moves and restores came before
\* (mojozork.c:652-664).
NeverLost == status # "lost"

\* The bytes of every object, and those in a file that is whole, are lists: each
\* object is once in the list of the parent it names, and in no other, although it
\* is named in three places and a move changes them one after the other
\* (mojozork.c:652-704, 1501-1550).
ListsWhole == /\ WellFormed(tree)
              /\ Complete(file) => WellFormed(file[1][2])

Forest == INSTANCE ZForest
            WITH NoGame <- <<>>,
                 Beginning <- [contents |-> Contents(StoryTree), place |-> StoryPlace],
                 game <- IF status = "running"
                         THEN [contents |-> Contents(tree), place |-> place]
                         ELSE <<>>,
                 saved <- IF Complete(file)
                          THEN [contents |-> Contents(GameInFile.tree),
                                place |-> GameInFile.place]
                          ELSE <<>>

\* The three bytes of the objects are lists of what every object holds, each move
\* takes one object out of its list and puts it first in another, and a restore
\* goes on as the last game that was saved whole did after its save, or ends the
\* game: after failed pieces, kills and new runs too (mojozork.c:652-704, 1501-1550).
ImplementsForest == Forest!ForestSpec

\* A story that was told its game is saved, over a file that was closed in full, can
\* restore it until another save begins: whatever it has moved since, and through
\* deaths, restarts, new runs and other restores, it goes on with the objects and at
\* the place with which it went on after that save (mojozork.c:1501-1550).
SavedGamesResume ==
    [][(Restore \/ RestoreUnopened) /\ promise # NoPromise =>
          status' = "running" /\ [tree |-> tree', place |-> place'] = promise]_objVars
=============================================================================
