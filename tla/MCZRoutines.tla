---------------------------- MODULE MCZRoutines ----------------------------
(***************************************************************************)
(* A stack with room for two calls and one more word, words of two values, *)
(* two places whose halves differ, a routine without and one with locals.  *)
(***************************************************************************)
EXTENDS ZRoutines

Constant(word) == [kind |-> "constant", word |-> word]
Variable(var)  == [kind |-> "variable", word |-> var]

MCValues == {0, 1}
MCRadix == 256
MCPositions == {1, 256}
MCVariables == {0, 1, 16}
MCOperands == {<<>>, <<Constant(1)>>, <<Variable(0)>>,
               <<Variable(16), Variable(0)>>}
MCRoutines == {[entry |-> 1, header |-> <<>>], [entry |-> 256, header |-> <<1>>]}
MCStart == [pc |-> 1, globals |-> [var \in {16} |-> 0]]
MCStackSize == 11

MCTrueBranch == [at \in MCPositions |-> IF at = 1 THEN [kind |-> "jump", to |-> 256]
                                                ELSE [kind |-> "return", to |-> 1]]

\* Bounds the run: no routine has pushed more than a word, and once a game has been
\* saved only the story itself has.
FewPushed == Len(stack) <= bp + NumLocals(Machine)
                              + (IF disk = NoFileYet \/ bp = 0 THEN 1 ELSE 0)

\* Bounds the run: the game that is saved has pushed a word and called the routine
\* with a local, and its save stands before the branch that returns.
FewSaved == /\ disk.kind = "whole" => /\ disk.game.stack = <<1, 16, 1, 0, 0, 1, 1>>
                                      /\ disk.game.pc = 256
                                      /\ disk.game.globals[16] = 0
            /\ disk = BrokenFile => stack = <<>>
=============================================================================
