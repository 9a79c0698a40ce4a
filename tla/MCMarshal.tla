------------------------------ MODULE MCMarshal ------------------------------
(***************************************************************************)
(* Two words whose four bytes differ, and two other bytes.                 *)
(***************************************************************************)
EXTENDS Marshal

MCWords == {258, 772}                  \* 0x0102, 0x0304
MCBytes == {5, 6}
=============================================================================
