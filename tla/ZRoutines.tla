------------------------------ MODULE ZRoutines ------------------------------
(***************************************************************************)
(* The variables, the stack and the routine calls of the Z-machine that    *)
(* runs on the 6502 (native/C/z-machine/mojozork.c, stories of version 3). *)
(*                                                                         *)
(* One array holds the frames of all routines: a call pushes the variable  *)
(* for its result, the address behind it as two words, the base pointer    *)
(* and the number of locals, then the locals; what the routine pushes      *)
(* follows.  Nothing but bp and the number of locals below it tells these  *)
(* words apart.                                                            *)
(*                                                                         *)
(* runInstruction takes no interrupts, so an instruction is one step: its  *)
(* operands, which pop the stack if they name variable 0, then the opcode. *)
(* The story is not modelled: every instruction may come next, branches and*)
(* jumps go anywhere, and arithmetic, properties, attributes and the       *)
(* player's input yield any value.  Instructions have as many operands as  *)
(* their opcode takes.                                                     *)
(*                                                                         *)
(* A game in save.dat is whole or it is not; its pieces, and what a kill   *)
(* or a new run makes of them, are in ZObjects.                            *)
(***************************************************************************)
EXTENDS Integers, SequencesExt

CONSTANTS Values,      \* the words a story computes with
          Positions,   \* the places in the story an instruction may stand at
          Variables,   \* the numbers of the variables it uses
          Operands,    \* the lists of operands an instruction may have
          Routines,    \* where the routines start, and their locals' defaults
          Start,       \* where the story starts, and the values of its globals
          TrueBranch,  \* where the branch at a position leads if its test is true
          StackSize,   \* words in the stack: 2048
          Radix        \* what a word holds: 65536

LocalVars == 1 .. 15
Globals == {var \in Variables : var > 15}

\* A word holds the number of a variable, which is a byte, and an index of the stack;
\* two of them hold a place in the story.
ASSUME StackAssumption == StackSize \in Nat /\ Radix \in Nat /\ Radix > 255 /\ Radix > StackSize
ASSUME ValuesAssumption == {0, 1} \subseteq Values /\ Values \subseteq 0 .. Radix - 1
ASSUME PositionsAssumption == Positions \subseteq 0 .. Radix * Radix - 1
ASSUME VariablesAssumption == 0 \in Variables /\ Variables \subseteq 0 .. 255
ASSUME OperandsAssumption ==
    Operands \subseteq Seq([kind : {"constant"}, word : Values]
                           \cup [kind : {"variable"}, word : Variables])
ASSUME RoutinesAssumption ==
    \A routine \in Routines : routine.entry \in Positions /\ routine.header \in Seq(Values)
ASSUME StartAssumption == Start.pc \in Positions /\ Start.globals \in [Globals -> Values]

\* A branch goes on somewhere, or returns false or true from the routine.
Destinations == [kind : {"jump"}, to : Positions] \cup [kind : {"return"}, to : {0, 1}]

ASSUME TrueBranchAssumption == TrueBranch \in [Positions -> Destinations]

VARIABLES stack,       \* the words below sp
          bp,          \* the index of the running routine's first local
          globals,     \* the words of the global variables
          pc,          \* where the next instruction stands
          zstatus,     \* "running", how the machine has stopped, or "undefined"
          disk         \* what is in save.dat

machineVars == <<stack, bp, globals, pc, zstatus>>
zVars == <<machineVars, disk>>

\* die's reasons; "error" stands for the many that have nothing to do with the
\* stack.  After "undefined" the C program may do anything.
Deaths == {"overflow", "underflow", "no local", "no caller", "error"}
Stopped == Deaths \cup {"quit", "undefined"}

Loaded == [stack |-> <<>>, bp |-> 0, globals |-> Start.globals, pc |-> Start.pc,
           zstatus |-> "running"]
\* What save.dat may be.
NoFileYet  == [kind |-> "none"]
BrokenFile == [kind |-> "broken"]
WholeFile(m) == [kind |-> "whole", game |-> m]

Machine == [stack |-> stack, bp |-> bp, globals |-> globals, pc |-> pc,
            zstatus |-> zstatus]

Becomes(m) == /\ stack' = m.stack
              /\ bp' = m.bp
              /\ globals' = m.globals
              /\ pc' = m.pc
              /\ zstatus' = m.zstatus

ZInit == /\ stack = Loaded.stack
         /\ bp = Loaded.bp
         /\ globals = Loaded.globals
         /\ pc = Loaded.pc
         /\ zstatus = Loaded.zstatus
         /\ disk = NoFileYet

-----------------------------------------------------------------------------
(***************************************************************************)
(* varAddress, with the access that follows it.  A machine that has died   *)
(* does nothing more: die does not return.                                 *)
(***************************************************************************)
Running(m) == m.zstatus = "running"
Halted(m, reason) == [m EXCEPT !.zstatus = reason]
Pushed(m, words) == [m EXCEPT !.stack = @ \o words]

\* stack[bp - 1]; with no routine running that is the int before the array in
\* ZMachineState, step_completed, which is zero.
NumLocals(m) == IF m.bp = 0 THEN 0 ELSE m.stack[m.bp]

\* Mutant: one word too many fits.
WriteVar_late(m, var, value) ==
    IF ~ Running(m) THEN m
    ELSE IF var = 0 THEN
        IF Len(m.stack) > StackSize THEN Halted(m, "overflow")
                                    ELSE Pushed(m, <<value>>)
    ELSE IF var \in LocalVars THEN
        IF NumLocals(m) < var THEN Halted(m, "no local")
                              ELSE [m EXCEPT !.stack[m.bp + var] = value]
    ELSE [m EXCEPT !.globals[var] = value]

WriteVar(m, var, value) ==
    IF ~ Running(m) THEN m
    ELSE IF var = 0 THEN
        IF Len(m.stack) >= StackSize THEN Halted(m, "overflow")
                                     ELSE Pushed(m, <<value>>)
    ELSE IF var \in LocalVars THEN
        IF NumLocals(m) < var THEN Halted(m, "no local")
                              ELSE [m EXCEPT !.stack[m.bp + var] = value]
    ELSE [m EXCEPT !.globals[var] = value]

\* Mutant: the number of locals is counted as one of them.
NothingPushed_early(m) == m.bp + NumLocals(m) + 1 >= Len(m.stack)

NothingPushed(m) == m.bp + NumLocals(m) >= Len(m.stack)

ReadVar(m, var) ==
    IF ~ Running(m) THEN [machine |-> m, value |-> 0]
    ELSE IF var = 0 THEN
        IF NothingPushed(m) THEN [machine |-> Halted(m, "underflow"), value |-> 0]
        ELSE [machine |-> [m EXCEPT !.stack = Front(@)], value |-> Last(m.stack)]
    ELSE IF var \in LocalVars THEN
        IF NumLocals(m) < var THEN [machine |-> Halted(m, "no local"), value |-> 0]
                              ELSE [machine |-> m, value |-> m.stack[m.bp + var]]
    ELSE [machine |-> m, value |-> m.globals[var]]

\* parseOperand and parseVarOperands.
ParseOperand(parsed, x) ==
    LET r == IF x.kind = "constant"
             THEN [machine |-> parsed.machine, value |-> x.word]
             ELSE ReadVar(parsed.machine, x.word)
    IN  [machine |-> r.machine, values |-> Append(parsed.values, r.value)]

Parsed(xs) ==
    LET parsed[n \in 0 .. Len(xs)] ==
            IF n = 0 THEN [machine |-> Machine, values |-> <<>>]
                     ELSE ParseOperand(parsed[n - 1], xs[n])
    IN  parsed[Len(xs)]

\* An instruction is at a place of the story, and so is the next one.
At(m, position) == [m EXCEPT !.pc = position]

-----------------------------------------------------------------------------
(***************************************************************************)
(* opcode_call, doReturn and doBranch.                                     *)
(***************************************************************************)
LocalsOf(header, arguments) ==
    [n \in DOMAIN header |-> IF n \in DOMAIN arguments THEN arguments[n] ELSE header[n]]

\* A call of routine 0 only stores 0.  A call does not look whether the stack has
\* room for its frame: it writes on, over the operands and what follows them.
CallRoutine(m, values, store, back, routine) ==
    IF ~ Running(m) THEN m
    ELSE IF Len(values) = 0 \/ values[1] = 0 THEN At(WriteVar(m, store, 0), back)
    ELSE IF Len(routine.header) > 15 THEN Halted(m, "error")
    ELSE IF Len(m.stack) + 5 + Len(routine.header) > StackSize THEN Halted(m, "undefined")
    ELSE LET frame == <<store, back % Radix, back \div Radix, m.bp, Len(routine.header)>>
         IN  At([Pushed(m, frame \o LocalsOf(routine.header, Tail(values)))
                    EXCEPT !.bp = Len(m.stack) + Len(frame)], routine.entry)

\* Where the routine with this base goes on when it returns.
ReturnPlace(words, base) == words[base - 3] + Radix * words[base - 2]

\* Mutant: the words of the address are taken in the wrong order.
DoReturn_swapped(m, value) ==
    IF ~ Running(m) THEN m
    ELSE IF m.bp = 0 THEN Halted(m, "no caller")
    ELSE WriteVar([m EXCEPT !.bp = m.stack[m.bp - 1],
                            !.pc = m.stack[m.bp - 2] + Radix * m.stack[m.bp - 3],
                            !.stack = SubSeq(@, 1, m.bp - 5)],
                  m.stack[m.bp - 4], value)

DoReturn(m, value) ==
    IF ~ Running(m) THEN m
    ELSE IF m.bp = 0 THEN Halted(m, "no caller")
    ELSE WriteVar([m EXCEPT !.bp = m.stack[m.bp - 1],
                            !.pc = ReturnPlace(m.stack, m.bp),
                            !.stack = SubSeq(@, 1, m.bp - 5)],
                  m.stack[m.bp - 4], value)

Branched(m, d) == IF d.kind = "jump" THEN At(m, d.to) ELSE DoReturn(m, d.to)

Branches(m) == {Branched(m, d) : d \in Destinations}

-----------------------------------------------------------------------------
(***************************************************************************)
(* The opcodes, by what they do to this state.                             *)
(***************************************************************************)
\* nop, new_line, the prints, show_status, jump, storew and storeb beyond the
\* globals, put_prop, the attributes, insert_obj, remove_obj, read, random's
\* seed: nothing here but the operands.
Proceed(xs, next) == Becomes(At(Parsed(xs).machine, next))

\* add, sub, mul, div, mod, or, and, not, loadw, loadb, random, get_prop,
\* get_prop_addr, get_prop_len, get_next_prop, get_parent: a value is stored.
Compute(xs, store, value, next) ==
    Becomes(At(WriteVar(Parsed(xs).machine, store, value), next))

\* get_sibling and get_child store a value and branch.
ComputeAndBranch(xs, store, value) ==
    \E m \in Branches(WriteVar(Parsed(xs).machine, store, value)) : Becomes(m)

\* store, inc and dec: the first operand is the number of a variable.  With 0, inc
\* and dec push what they find above the stack, changed by one.
Assign(xs, value, next) ==
    LET p == Parsed(xs)
    IN  /\ xs # <<>> /\ p.values[1] \in Variables
        /\ Becomes(At(WriteVar(p.machine, p.values[1], value), next))

\* inc_chk and dec_chk.
AssignAndBranch(xs, value) ==
    LET p == Parsed(xs)
    IN  /\ Len(xs) = 2 /\ p.values[1] \in Variables
        /\ \E m \in Branches(WriteVar(p.machine, p.values[1], value)) : Becomes(m)

\* storew and storeb, at the address of a global.
StoreGlobal(xs, var, value, next) ==
    Becomes(At(WriteVar(Parsed(xs).machine, var, value), next))

\* je, jz, jl, jg, test, test_attr, jin, verify: a branch.
Branch(xs) == \E m \in Branches(Parsed(xs).machine) : Becomes(m)

\* load: the value of the variable the operand names, a popped one if it is 0.
Load(xs, store, next) ==
    LET p == Parsed(xs)
        r == ReadVar(p.machine, p.values[1])
    IN  /\ Len(xs) = 1 /\ p.values[1] \in Variables
        /\ Becomes(At(WriteVar(r.machine, store, r.value), next))

Push(xs, next) == /\ Len(xs) = 1
                  /\ LET p == Parsed(xs)
                     IN  Becomes(At(WriteVar(p.machine, 0, p.values[1]), next))

Pop(next) == Becomes(At(ReadVar(Machine, 0).machine, next))

\* pull stores through a pointer it has never set.
Pull(xs) ==
    LET popped == ReadVar(Parsed(xs).machine, 0).machine
    IN  /\ Len(xs) = 1
        /\ Becomes(IF Running(popped) THEN Halted(popped, "undefined") ELSE popped)

Call(xs, store, back, routine) ==
    LET p == Parsed(xs)
    IN  Becomes(CallRoutine(p.machine, p.values, store, back, routine))

Ret(xs) == /\ Len(xs) = 1
           /\ LET p == Parsed(xs) IN Becomes(DoReturn(p.machine, p.values[1]))

\* rtrue, rfalse, print_ret
RetConstant(value) == Becomes(DoReturn(Machine, value))

RetPopped == LET r == ReadVar(Machine, 0) IN Becomes(DoReturn(r.machine, r.value))

Quit == Becomes(Halted(Machine, "quit"))

\* restart: initStory empties the stack and reads the story anew.
RestartStory == Becomes(Loaded)

\* Division by zero, objects and properties that do not exist, unknown opcodes,
\* no input, no memory, no file.
GiveUp(xs) == LET m == Parsed(xs).machine
           IN  Becomes(IF Running(m) THEN Halted(m, "error") ELSE m)

\* opcode_save: pc is at its branch.  A file that fclose does not bring to its end
\* is broken too, but the story is not told.
SaveGame(at) ==
    LET game == At(Machine, at)
    IN  \/ /\ disk' \in {WholeFile(game), BrokenFile}
           /\ Becomes(Branched(game, TrueBranch[at]))
        \/ /\ disk' = BrokenFile
           /\ \E m \in Branches(game) : Becomes(m)

\* Where opcode_restore leads: to the branch of the save, which is taken again.
ResumedMachine == Branched(disk.game, TrueBranch[disk.game.pc])

\* What there is of a broken file is read over the game, before the machine dies;
\* and where there is no file, fread is given none.
RestoreGame ==
    /\ \/ disk.kind = "whole"  /\ Becomes(ResumedMachine)
       \/ disk.kind = "broken" /\ Becomes(Halted(Machine, "error"))
       \/ disk.kind = "none"   /\ Becomes(Halted(Machine, "undefined"))
    /\ UNCHANGED disk

\* The file cannot be opened for writing: fwrite is given none.
SaveGameUnopened == Becomes(Halted(Machine, "undefined")) /\ UNCHANGED disk

\* The instructions that have nothing to do with save.dat.
StoryInstruction ==
    \/ \E xs \in Operands :
         \/ Branch(xs) \/ Ret(xs) \/ Pull(xs) \/ GiveUp(xs)
         \/ \E value \in Values : AssignAndBranch(xs, value)
         \/ \E store \in Variables, value \in Values : ComputeAndBranch(xs, store, value)
         \/ \E next \in Positions :
              \/ Proceed(xs, next) \/ Push(xs, next)
              \/ \E value \in Values :
                   \/ Assign(xs, value, next)
                   \/ \E store \in Variables : Compute(xs, store, value, next)
                   \/ \E var \in Globals : StoreGlobal(xs, var, value, next)
              \/ \E store \in Variables :
                   \/ Load(xs, store, next)
                   \/ \E routine \in Routines : Call(xs, store, next, routine)
    \/ \E next \in Positions : Pop(next)
    \/ \E value \in {0, 1} : RetConstant(value)
    \/ RetPopped \/ Quit \/ RestartStory

RunInstruction == \/ StoryInstruction /\ UNCHANGED disk
                  \/ \E at \in Positions : SaveGame(at)
                  \/ SaveGameUnopened \/ RestoreGame

ZNext == zstatus = "running" /\ RunInstruction

ZSpec == ZInit /\ [][ZNext]_zVars

-----------------------------------------------------------------------------
(***************************************************************************)
(* Properties.                                                             *)
(***************************************************************************)
ZTypeOK ==
    /\ stack \in Seq(0 .. Radix - 1) /\ Len(stack) <= StackSize
    /\ bp \in 0 .. Len(stack)
    /\ globals \in [Globals -> Values]
    /\ pc \in Positions
    /\ zstatus \in Stopped \cup {"running"}
    /\ disk \in {NoFileYet, BrokenFile} \/ disk = WholeFile(disk.game)

\* Where the locals of the running routines start, the outermost first: the bases
\* that are stored one in front of the other, down to the 0 of the story itself.
Bases(words) ==
    LET bases[base \in 0 .. StackSize] ==
            IF base \in 5 .. Len(words) /\ words[base - 1] < base
            THEN Append(bases[words[base - 1]], base)
            ELSE <<base>>
    IN  bases

\* The frame from base to top.
FrameFrom(words, base, top) ==
    IF base = 0
    THEN [locals |-> <<>>, temps |-> SubSeq(words, 1, top), store |-> 0, back |-> 0]
    ELSE [locals |-> SubSeq(words, base + 1, base + words[base]),
          temps  |-> SubSeq(words, base + words[base] + 1, top),
          store  |-> words[base - 4],
          back   |-> ReturnPlace(words, base)]

\* A frame ends where the next one, which starts with five words, begins.
FrameTop(words, bases, i) == IF i = Len(bases) THEN Len(words) ELSE bases[i + 1] - 5

FramesIn(words, bases) ==
    [i \in 1 .. Len(bases) |-> FrameFrom(words, bases[i], FrameTop(words, bases, i))]

CurrentFrames == FramesIn(stack, Bases(stack)[bp])

\* The game of a machine that runs.
NoGame == <<>>
GameOf(m) == IF Running(m)
             THEN [frames |-> FramesIn(m.stack, Bases(m.stack)[m.bp]),
                   globals |-> m.globals, pc |-> m.pc]
             ELSE NoGame

Frames == INSTANCE ZFrames
            WITH frames <- IF zstatus = "running" THEN CurrentFrames ELSE <<>>,
                 globals <- globals, pc <- pc,
                 saved <- IF disk.kind = "whole" THEN GameOf(ResumedMachine) ELSE NoGame

\* The words of the stack are the frames of the running routines, whatever the
\* story does: calls, returns as instructions or as branches, results that go to
\* the caller's locals or stack, arguments that pop, too many or too few of them;
\* and a restore, from any depth of calls, goes on with all the frames, and at the
\* place, with which the story went on after the save (mojozork.c:161-381, 1501-1550).
ImplementsFrames == Frames!FramesSpec

\* The machine gives up only when the frames leave it no choice: pushing onto a
\* full stack, popping when the routine itself has pushed nothing, a local the
\* routine does not have, a return with no caller (mojozork.c:161-190, 270).
DeathsExplained ==
    LET frame == Last(CurrentFrames)
    IN  /\ zstatus = "overflow"  => Len(stack) = StackSize
        /\ zstatus = "underflow" => frame.temps = <<>>
        /\ zstatus = "no local"  => \E var \in Variables \cap LocalVars :
                                     var > Len(frame.locals)
        /\ zstatus = "no caller" => Len(CurrentFrames) = 1
=============================================================================
