------------------------------ MODULE MemoryMap ------------------------------
(***************************************************************************)
(* The address arithmetic of mem.c: how a 16-bit address of the 6502 and   *)
(* the two bank numbers select a byte of the host array "mem".             *)
(*                                                                         *)
(* A byte of "mem" is a CELL, named by its offset from &mem[0].  The three *)
(* arrays lowmem, himem1 and himem2 are regions of that one array, so an   *)
(* index that leaves a region lands in its neighbour: CellsInRegion, in    *)
(* Memory_proofs, shows that a decoded address never does.                 *)
(***************************************************************************)
EXTENDS Integers

ADDRESS_SPACE == 65536
Addresses16 == 0 .. ADDRESS_SPACE - 1
BankNumbers == 0 .. 255

\* mem.h: the sizes and the starting points of the regions in "mem".
HIMEM1_START == 40960                  \* 0xA000
HIMEM2_START == 49152                  \* 0xC000
LOMEM_SIZE   == 40960                  \* 0xA000
HIMEM1_SIZE  == 2097152                \* 0x200000
HIMEM2_SIZE  == 12582912               \* 0xC00000
HIMEM1_START_IN_MEM == LOMEM_SIZE
HIMEM2_START_IN_MEM == LOMEM_SIZE + HIMEM1_SIZE
MEM_SIZE == LOMEM_SIZE + HIMEM1_SIZE + HIMEM2_SIZE

\* The offset tables mem_init fills: adding an address to an entry gives its
\* index in the region.
himem1_index(bank) == bank * 8192 - HIMEM1_START
himem2_index(bank) == bank * 16384 - HIMEM2_START

LowCell(a)          == a
Himem1Cell(bank, a) == HIMEM1_START_IN_MEM + himem1_index(bank) + a
Himem2Cell(bank, a) == HIMEM2_START_IN_MEM + himem2_index(bank) + a

(***************************************************************************)
(* The three dispatch tables are indexed by address >> 12.                 *)
(***************************************************************************)
Entry(a)    == a \div 4096
InLomem(a)  == Entry(a) \in 0 .. 9
InHimem1(a) == Entry(a) \in 10 .. 11
InHimem2(a) == Entry(a) \in 12 .. 14
InTop(a)    == Entry(a) = 15

\* mem_base: the host address the guest's pointer stands for.  Its table has
\* no special entry for the top page, which is banked like himem2 here.
MemBase(a, page1, page2) ==
    CASE InLomem(a)               -> LowCell(a)
      [] InHimem1(a)              -> Himem1Cell(page1, a)
      [] InHimem2(a) \/ InTop(a)  -> Himem2Cell(page2, a)

\* Whether the bytes from a to b are contiguous in the host's memory as they
\* are in the program's: the windows are not neighbours there.
InOneWindow(a, b) == \/ InLomem(a) /\ InLomem(b)
                     \/ InHimem1(a) /\ InHimem1(b)
                     \/ InHimem2(a) /\ InHimem2(b)

(***************************************************************************)
(* The top page.  The handler tables hold one entry per 16 bytes, and all  *)
(* of 0xF000-0xFFFF is decoded by the same nibble, so every device answers *)
(* at sixteen places.  The registers are compared as whole addresses.      *)
(***************************************************************************)
Nibble(a) == (a \div 16) % 16

ASSIST_LOW  == 65528                   \* 0xFFF8: pointer to the request, low
ASSIST_HIGH == 65529                   \* 0xFFF9: high byte, runs the request
PAGE1_REG   == 65504                   \* 0xFFE0
PAGE2_REG   == 65505                   \* 0xFFE1
Vectors     == {65530, 65531, 65534, 65535}   \* NMI and interrupt vectors

\* The addresses write_himem2_top handles before it looks at the handlers.
TopRegisters == Vectors \cup {ASSIST_LOW, ASSIST_HIGH, PAGE1_REG, PAGE2_REG}

\* The bytes of the top page in bank 0, which reads of the page return.
PinnedCell(a) == Himem2Cell(0, a)

(***************************************************************************)
(* The programs' names for the bytes they own: a SLOT is a window, a bank  *)
(* and an address.  The low window and the vectors have one bank.  The     *)
(* rest of the top page belongs to the devices and is no program's memory. *)
(***************************************************************************)
Storable(a) == InLomem(a) \/ InHimem1(a) \/ InHimem2(a) \/ a \in Vectors

\* The slot a program sees at address a when banks b1 and b2 are selected.
Slot(a, b1, b2) ==
    CASE InLomem(a)   -> <<"lomem", 0, a>>
      [] InHimem1(a)  -> <<"himem1", b1, a>>
      [] InHimem2(a)  -> <<"himem2", b2, a>>
      [] a \in Vectors -> <<"vector", 0, a>>

\* The cell that holds a slot.
SlotCell(slot) ==
    CASE slot[1] = "lomem"  -> LowCell(slot[3])
      [] slot[1] = "himem1" -> Himem1Cell(slot[2], slot[3])
      [] slot[1] = "himem2" -> Himem2Cell(slot[2], slot[3])
      [] slot[1] = "vector" -> PinnedCell(slot[3])

SlotsOf(addresses, banks) ==
    {Slot(a, b1, b2) : a \in {x \in addresses : Storable(x)},
                       b1 \in banks, b2 \in banks}
=============================================================================
