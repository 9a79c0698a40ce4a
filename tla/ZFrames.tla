------------------------------- MODULE ZFrames -------------------------------
(***************************************************************************)
(* What a story may expect of routine calls in the Z-machine: every        *)
(* routine that is running has a frame with its locals and the values it   *)
(* has pushed, and nobody else touches them; a return drops the frame, puts*)
(* the result in the variable the call named, and goes on behind the call. *)
(*                                                                         *)
(* The story itself is not modelled: which instruction comes next, where   *)
(* jumps go and what arithmetic yields is left open.  So is when the       *)
(* machine stops, be it for an error, for a limit, or because it is done.  *)
(*                                                                         *)
(* A game that has been saved goes on, when it is restored, as it went on  *)
(* after the save.                                                         *)
(***************************************************************************)
EXTENDS Integers, SequencesExt

CONSTANTS Values,      \* the words a story computes with
          Positions,   \* the places in the story an instruction may stand at
          Variables,   \* the numbers of the variables it uses
          Operands,    \* the lists of operands an instruction may have
          Routines,    \* where the routines start, and their locals' defaults
          Start,       \* where the story starts, and the values of its globals
          NoGame       \* is not a game

VARIABLES frames,      \* of the running routines, <<>> when the machine has stopped
          globals,     \* the words of the global variables
          pc,          \* where the next instruction stands
          saved        \* the game that was saved last, or NoGame

gameVars == <<frames, globals, pc>>
frameVars == <<gameVars, saved>>

TheStack == 0          \* the variable that pushes and pops
LocalVars == 1 .. 15

MainFrame == [locals |-> <<>>, temps |-> <<>>, store |-> 0, back |-> 0]

FramesInit == /\ frames = <<MainFrame>>
              /\ globals = Start.globals
              /\ pc = Start.pc
              /\ saved = NoGame

-----------------------------------------------------------------------------
(***************************************************************************)
(* Variables.  A state s here is a pair of frames and globals; an operator *)
(* yields the set of its results, which is empty if there is none.         *)
(***************************************************************************)
Top(s) == Last(s.frames)
WithTop(s, frame) == [s EXCEPT !.frames = Append(Front(@), frame)]

ReadVariable(s, var) ==
    IF var = TheStack THEN
        IF Top(s).temps = <<>> THEN {}
        ELSE {[state |-> WithTop(s, [Top(s) EXCEPT !.temps = Front(@)]),
               value |-> Last(Top(s).temps)]}
    ELSE IF var \in LocalVars THEN
        {[state |-> s, value |-> Top(s).locals[n]] :
            n \in {var} \cap DOMAIN Top(s).locals}
    ELSE {[state |-> s, value |-> s.globals[var]]}

Write(s, var, value) ==
    IF var = TheStack THEN {WithTop(s, [Top(s) EXCEPT !.temps = Append(@, value)])}
    ELSE IF var \in LocalVars THEN
        {WithTop(s, [Top(s) EXCEPT !.locals[n] = value]) :
            n \in {var} \cap DOMAIN Top(s).locals}
    ELSE {[s EXCEPT !.globals[var] = value]}

\* An operand is a constant or the number of a variable.
Read(s, x) == IF x.kind = "constant" THEN {[state |-> s, value |-> x.word]}
                                     ELSE ReadVariable(s, x.word)

\* The operands of an instruction, from left to right.
Evaluate(s, xs) ==
    LET results[n \in 0 .. Len(xs)] ==
            IF n = 0 THEN {[state |-> s, values |-> <<>>]}
            ELSE UNION {{[state |-> r.state, values |-> Append(e.values, r.value)] :
                            r \in Read(e.state, xs[n])} : e \in results[n - 1]}
    IN  results[Len(xs)]

Now == [frames |-> frames, globals |-> globals]

Arguments == UNION {Evaluate(Now, xs) : xs \in Operands}

-----------------------------------------------------------------------------
Becomes(s, at) == /\ frames' = s.frames
                  /\ globals' = s.globals
                  /\ pc' = at

\* Instructions that only use their operands, and jumps.
Proceed == \E e \in Arguments, at \in Positions : Becomes(e.state, at)

\* Instructions that leave a value in a variable.
Assigned == UNION {Write(e.state, var, v) :
                      e \in Arguments, var \in Variables, v \in Values}

Assign == \E s \in Assigned, at \in Positions : Becomes(s, at)

\* Instructions that read one more variable: load copies the one its operand names,
\* pop takes what was pushed last.
Load == \E e \in Arguments, store \in Variables, at \in Positions :
            /\ Len(e.values) = 1 /\ e.values[1] \in Variables
            /\ \E r \in ReadVariable(e.state, e.values[1]) :
                 \E s \in Write(r.state, store, r.value) : Becomes(s, at)

Popped == ReadVariable(Now, TheStack)

Pop == \E r \in Popped, at \in Positions : Becomes(r.state, at)

\* A routine's locals start from its arguments, where there are any.
Called(e, store, back, header) ==
    [e.state EXCEPT !.frames = Append(@,
        [locals |-> [n \in DOMAIN header |->
                        IF n + 1 \in DOMAIN e.values THEN e.values[n + 1]
                                                     ELSE header[n]],
         temps |-> <<>>, store |-> store, back |-> back])]

Call == \E e \in Arguments, store \in Variables, back \in Positions, r \in Routines :
            Becomes(Called(e, store, back, r.header), r.entry)

\* A return, by itself or as the branch of a comparison or an assignment.
Returned(s, value) == Write([s EXCEPT !.frames = Front(@)], Top(s).store, value)

Returns(s, value) == /\ Len(s.frames) > 1
                     /\ \E after \in Returned(s, value) : Becomes(after, Top(s).back)

Return == \/ \E s \in {Now} \cup {e.state : e \in Arguments} \cup Assigned, v \in Values :
                 Returns(s, v)
          \/ \E r \in Popped : Returns(r.state, r.value)

Restart == /\ frames' = <<MainFrame>>
           /\ globals' = Start.globals
           /\ pc' = Start.pc

Instruction == Proceed \/ Assign \/ Load \/ Pop \/ Call \/ Return \/ Restart

\* The games to which a branch may lead: on at some place, or behind the call of a
\* routine that returns false or true.
Branches ==
    {[frames |-> frames, globals |-> globals, pc |-> at] : at \in Positions}
    \cup {[frames |-> s.frames, globals |-> s.globals, pc |-> Top(Now).back] :
             s \in IF Len(frames) > 1 THEN Returned(Now, 0) \cup Returned(Now, 1) ELSE {}}

GoOn(game) == /\ frames' = game.frames
              /\ globals' = game.globals
              /\ pc' = game.pc

\* A save that fails takes the game saved before with it.
Save == \E game \in Branches : GoOn(game) /\ saved' \in {game, NoGame}

Restore == saved # NoGame /\ GoOn(saved) /\ UNCHANGED saved

\* What an instruction that fails halfway has left in the globals is nobody's; it
\* may have been a save.
Stop == /\ frames' = <<>>
        /\ globals' \in [DOMAIN globals -> Values]
        /\ pc' \in Positions
        /\ saved' \in {saved, NoGame}

FramesNext == /\ frames # <<>>
              /\ \/ Stop
                 \/ Instruction /\ UNCHANGED saved
                 \/ Save \/ Restore

FramesSpec == FramesInit /\ [][FramesNext]_frameVars
=============================================================================
