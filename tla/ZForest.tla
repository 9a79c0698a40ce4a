------------------------------- MODULE ZForest -------------------------------
(***************************************************************************)
(* What a story may expect of the Z-machine's objects and of saved games:  *)
(* every object holds a list of objects, the latest arrival first; a move  *)
(* takes an object, with all it holds, out of the list it is in; and a     *)
(* restored game goes on as the one that was saved last went on after the  *)
(* save, wherever it was left.                                             *)
(*                                                                         *)
(* The machine may stop at any time and be started again; the saved game   *)
(* outlives it.                                                            *)
(***************************************************************************)
EXTENDS SequencesExt

CONSTANTS Objects,    \* the objects of the story
          NoGame,     \* is not a game
          Places,     \* how far the game is: pc and stack
          Beginning   \* the game as the story has it

VARIABLES game,       \* what every object holds, and the place; NoGame if none is played
          saved       \* the game saved last, or NoGame

forestVars == <<game, saved>>

ForestInit == game = Beginning /\ saved = NoGame

\* Taking an object out of the list it is in, if it is in one.
Without(contents, o) ==
    [holder \in Objects |->
        LET list == contents[holder]
        IN  IF o \in ToSet(list)
            THEN RemoveAt(list, CHOOSE n \in DOMAIN list : list[n] = o)
            ELSE list]

Playing == game # NoGame

\* insert_obj
MoveInto(o, holder) ==
    LET rest == Without(game.contents, o)
    IN  \E place \in Places :
          game' = [contents |-> [rest EXCEPT ![holder] = <<o>> \o @], place |-> place]

\* remove_obj
TakeAway(o) ==
    \E place \in Places :
        game' = [contents |-> Without(game.contents, o), place |-> place]

\* Everything else a game does.
Play == \E place \in Places : game' = [game EXCEPT !.place = place]

\* A save that fails takes the game saved before with it, and the game may end in it.
Save == /\ Playing
        /\ \E place \in Places :
             LET next == [game EXCEPT !.place = place]
             IN  game' \in {next, NoGame} /\ saved' \in {next, NoGame}

Restore == /\ Playing /\ saved # NoGame
           /\ game' = saved
           /\ UNCHANGED saved

Move == /\ Playing
        /\ \/ \E o, holder \in Objects : MoveInto(o, holder)
           \/ \E o \in Objects : TakeAway(o)
           \/ Play
        /\ UNCHANGED saved

\* restart, and a new run of the program
Restart == game' = Beginning /\ UNCHANGED saved
Stop    == game' = NoGame /\ UNCHANGED saved

ForestNext == Stop \/ Restart \/ Restore \/ Save \/ Move

ForestSpec == ForestInit /\ [][ForestNext]_forestVars
=============================================================================
