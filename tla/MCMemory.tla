------------------------------ MODULE MCMemory ------------------------------
(***************************************************************************)
(* Memory with two banks and the last or the first byte of each window,    *)
(* where an index that is off by one leaves the window.                    *)
(***************************************************************************)
EXTENDS Memory

MCBytes == {0, 1}

\* 0x9FFF, 0xBFFF, 0xC000; 0xF0E1, another place of the second bank register;
\* the bank registers, the two bytes of the request pointer and a vector.
MCAddresses == {40959, 49151, 49152, 61665,
                PAGE1_REG, PAGE2_REG, ASSIST_LOW, ASSIST_HIGH, 65534}

\* Two bytes at 0xC000.
MCBuffers == {<<49152, 2>>}

\* The mmu takes the writes to 0xF0E1, the mailboxes the reads of 0xFFF8.
MCUnits == {"mmu", "mbox"}
=============================================================================
