------------------------------- MODULE Doorbell -------------------------------
(***************************************************************************)
(* What a set of mailboxes promises to the program that has initialised    *)
(* them: each has a bell.  Ringing a bell that is not yet answered changes *)
(* nothing, and every bell that rings is answered.  Initialising the       *)
(* mailboxes again silences all of them.                                   *)
(***************************************************************************)
CONSTANT Boxes

VARIABLE rung

DoorbellInit == rung = [i \in Boxes |-> FALSE]

Ring(i) == rung' = [rung EXCEPT ![i] = TRUE]

AnswerBell(i) == rung[i] /\ rung' = [rung EXCEPT ![i] = FALSE]

Silence == rung' = [i \in Boxes |-> FALSE]

DoorbellNext == Silence \/ \E i \in Boxes : Ring(i) \/ AnswerBell(i)

DoorbellSpec == /\ DoorbellInit /\ [][DoorbellNext]_rung
                /\ \A i \in Boxes : WF_rung(AnswerBell(i))
=============================================================================
