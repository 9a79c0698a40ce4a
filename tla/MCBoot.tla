------------------------------- MODULE MCBoot -------------------------------
(***************************************************************************)
(* One to twelve arguments of none to 22 characters, so that the last of   *)
(* them starts on either side of 0x0A00, and a count that puts the program *)
(* where it should be, one byte on, or at address 0.                       *)
(***************************************************************************)
EXTENDS Boot

MCBytes == {0}
MCAddresses == {0, 1, 2, 3} \cup 256 .. 511 \cup 2304 .. 2599 \cup 4096 .. 4101
               \cup {169 * 256, 65532, 65533, 65534, 65535}
MCBuffers == {}
MCUnits == {}

MCFile == <<169, 7, 96>>
Arg(length) == [i \in 1 .. length |-> 64 + i]
Same(n, length) == [k \in 1 .. n |-> Arg(length)]
MCArgLists == {<<Arg(i), Arg(j)>> : i \in {0, 1, 19, 20, 21, 22}, j \in {0, 3, 21}}
              \cup {Same(n, 20) : n \in {9, 10, 11, 12}}
              \cup {<<Arg(4)>>, Same(10, 20) \o <<Arg(5), Arg(1)>>}
MCCounts == {0, 1, 65536 - 4096, 65533 - 4096, -1792}
MCStackPtrs == {3, 253}
MCMaxIdle == 5
=============================================================================
