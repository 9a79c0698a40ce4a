------------------------------ MODULE MCMailbox ------------------------------
(***************************************************************************)
(* Two mailboxes, which a program may initialise twice.                    *)
(***************************************************************************)
EXTENDS Mailbox

MCBytes == {0, 1}
=============================================================================
