----------------------------- MODULE BankedStore -----------------------------
(***************************************************************************)
(* What the memory promises to the programs of the 6502.                   *)
(*                                                                         *)
(* A program sees one byte, a SLOT, at each address.  The slots of the low *)
(* window and of the vectors are always the same; those of the two high    *)
(* windows depend on the bank that is selected, and each bank of each      *)
(* window has a byte of its own at every address.  Nothing but a store to  *)
(* a visible slot changes it: selecting a bank changes no slot, a store    *)
(* changes the slot at its address and no other, and the host, when it     *)
(* serves a request, fills the visible slots of the buffer it was given.   *)
(***************************************************************************)
EXTENDS MemoryMap

CONSTANTS Banks,      \* the bank numbers
          Values,     \* the bytes
          Addresses,  \* the addresses a program uses
          Buffers     \* the <<address, length>> a program hands to the host

VARIABLES store, bank1, bank2

bvars == <<store, bank1, bank2>>

Slots == SlotsOf(Addresses, Banks)

Visible(a) == Slot(a, bank1, bank2)

BankedInit == /\ store = [s \in Slots |-> 0]
              /\ bank1 = 0
              /\ bank2 = 0

Select == /\ \/ bank1' \in Banks /\ bank2' = bank2
             \/ bank2' \in Banks /\ bank1' = bank1
          /\ store' = store

Store(a, v) == /\ Storable(a)
               /\ store' = [store EXCEPT ![Visible(a)] = v]
               /\ UNCHANGED <<bank1, bank2>>

\* The host stores data into a buffer.  Its bytes at addresses a program never
\* uses are nobody's slots.
HostStore(buffer, data) ==
    /\ store' = [s \in Slots |->
                   IF \E i \in 0 .. buffer[2] - 1 : s = Visible(buffer[1] + i)
                   THEN data[s[3] - buffer[1]]
                   ELSE store[s]]
    /\ UNCHANGED <<bank1, bank2>>

BankedNext ==
    \/ Select
    \/ \E a \in Addresses, v \in Values : Store(a, v)
    \/ \E buffer \in Buffers : \E data \in [0 .. buffer[2] - 1 -> Values] :
          HostStore(buffer, data)

BankedSpec == BankedInit /\ [][BankedNext]_bvars
=============================================================================
