------------------------------- MODULE Memory -------------------------------
(***************************************************************************)
(* The memory of the 6502: mem.c with the memory management unit of mmu.c. *)
(*                                                                         *)
(* The one actor is the main thread, which serves a bus write of the 6502  *)
(* to its end before it clocks the next one, so each write is one step.  A *)
(* write to 0xFFF9 calls sync_libC_assist in the middle; what the call may *)
(* do to this module's state is left open here (nothing, fill a buffer the *)
(* program named, or initialise a device) and is filled in by Assist.      *)
(*                                                                         *)
(* Reads change no state of this module.  What they return is Read.        *)
(***************************************************************************)
EXTENDS MemoryMap

CONSTANTS Addresses,  \* the addresses the 6502 uses
          Bytes,      \* the values of a byte, a bank number being one
          Buffers,    \* the <<address, length>> it passes to the host
          Units       \* the devices it initialises

ASSUME AddressesAssumption == Addresses \subseteq Addresses16
ASSUME BytesAssumption     == Bytes \subseteq BankNumbers /\ 0 \in Bytes
ASSUME BuffersAssumption   == Buffers \subseteq Addresses16 \X (Nat \ {0})
ASSUME UnitsAssumption     == Units \subseteq {"fb", "time", "mmu", "mbox"}

VARIABLES ram,                   \* the bytes of "mem", by cell
          himem1_page,           \* the bank selected in 0xA000-0xBFFF
          himem2_page,           \* the bank selected in 0xC000-0xFFFF
          io_write_top_handler,  \* the device that takes a write, by nibble
          io_read_top_handler    \* the device that answers a read, by nibble

vars == <<ram, himem1_page, himem2_page,
          io_write_top_handler, io_read_top_handler>>

pages == <<himem1_page, himem2_page>>
handlers == <<io_write_top_handler, io_read_top_handler>>

Devices == {"fb_0", "fb_1", "time", "mmu", "mbox"}

-----------------------------------------------------------------------------
\* The cells the program and the host can reach.
BufferCells(buffer, p1, p2) ==
    {MemBase(buffer[1], p1, p2) + i : i \in 0 .. buffer[2] - 1}

ProgramCells == {MemBase(a, p1, p2) : a \in Addresses, p1 \in Bytes, p2 \in Bytes}
HostCells    == UNION {BufferCells(b, p1, p2) :
                          b \in Buffers, p1 \in Bytes, p2 \in Bytes}
PinnedCells  == {PinnedCell(a) : a \in TopRegisters}

Cells == ProgramCells \cup HostCells \cup PinnedCells

TypeOK ==
    /\ ram \in [Cells -> Bytes]
    /\ himem1_page \in Bytes
    /\ himem2_page \in Bytes
    /\ io_write_top_handler \in [0 .. 15 -> Devices \cup {"none"}]
    /\ io_read_top_handler \in [0 .. 15 -> Devices \cup {"none"}]

\* mem_init.  The pages malloc takes from the kernel for a block of this size
\* read as zero.
Init ==
    /\ ram = [c \in Cells |-> 0]
    /\ himem1_page = 0
    /\ himem2_page = 0
    /\ io_write_top_handler = [n \in 0 .. 15 |-> "none"]
    /\ io_read_top_handler = [n \in 0 .. 15 |-> "none"]

-----------------------------------------------------------------------------
\* Mutant: each high window is given the bank of the other.
Mapped_swapped(a) == MemBase(a, himem2_page, himem1_page)

\* The cell of address a in the banks selected now.
Mapped(a) == MemBase(a, himem1_page, himem2_page)

SetByte(cell, v) == ram' = [ram EXCEPT ![cell] = v]

\* write_lomem_*, write_himem1 and write_himem2.
WriteRam(a, v) ==
    /\ ~ InTop(a)
    /\ SetByte(Mapped(a), v)
    /\ UNCHANGED <<pages, handlers>>

\* Mutant: the pinned bytes follow the selected bank, like the rest of the page.
WritePinned_banked(a, v) ==
    /\ a \in Vectors \cup {ASSIST_LOW}
    /\ SetByte(Mapped(a), v)
    /\ UNCHANGED <<pages, handlers>>

\* write_himem2_top: the low byte of the request's address, and the vectors.
WritePinned(a, v) ==
    /\ a \in Vectors \cup {ASSIST_LOW}
    /\ SetByte(PinnedCell(a), v)
    /\ UNCHANGED <<pages, handlers>>

\* Mutant: the copy in bank 0 is not kept.
WritePageRegister_noCopy(a, v) ==
    /\ \/ a = PAGE1_REG /\ himem1_page' = v /\ UNCHANGED himem2_page
       \/ a = PAGE2_REG /\ himem2_page' = v /\ UNCHANGED himem1_page
    /\ UNCHANGED <<ram, handlers>>

\* write_himem2_top: the bank registers keep a copy in bank 0.
WritePageRegister(a, v) ==
    /\ \/ a = PAGE1_REG /\ himem1_page' = v /\ UNCHANGED himem2_page
       \/ a = PAGE2_REG /\ himem2_page' = v /\ UNCHANGED himem1_page
    /\ SetByte(PinnedCell(a), v)
    /\ UNCHANGED handlers

\* mmu_mem_io_write, which takes the writes to 0xFxEy but for the two above.
MmuWrite(a, v) ==
    \/ /\ a % 16 = 0
       /\ SetByte(PinnedCell(a), v)
       /\ himem1_page' = v
       /\ UNCHANGED <<himem2_page, handlers>>
    \/ /\ a % 16 = 1
       /\ SetByte(PinnedCell(a), v)
       /\ himem2_page' = v
       /\ UNCHANGED <<himem1_page, handlers>>
    \/ /\ a % 16 \notin {0, 1}
       /\ UNCHANGED vars

\* write_himem2_top: a device takes the write.  Those other than the mmu keep
\* what they are told in registers of their own.
WriteDevice(a, v) ==
    /\ InTop(a) /\ a \notin TopRegisters
    /\ io_write_top_handler[Nibble(a)] # "none"
    /\ IF io_write_top_handler[Nibble(a)] = "mmu"
       THEN MmuWrite(a, v)
       ELSE UNCHANGED vars

\* write_himem2_top, the last line: no device, so the byte goes to the bank
\* that is selected.
WriteTopRam(a, v) ==
    /\ InTop(a) /\ a \notin TopRegisters
    /\ io_write_top_handler[Nibble(a)] = "none"
    /\ SetByte(Mapped(a), v)
    /\ UNCHANGED <<pages, handlers>>

-----------------------------------------------------------------------------
(***************************************************************************)
(* The calls sync_libC_assist dispatches to, as far as this module's state *)
(* goes.  Deposit is memory with the request's high byte stored; the       *)
(* result and errno overwrite the two bytes of the request's address.      *)
(***************************************************************************)
\* Mutant: the call is run before the high byte is stored.
Deposit_late(v) == ram

Deposit(v) == [ram EXCEPT ![PinnedCell(ASSIST_HIGH)] = v]

\* Mutants: the result is stored as the int it is; the result goes to the
\* selected bank.
Answered_int(m, ret, err) ==
    [m EXCEPT ![PinnedCell(ASSIST_LOW)] = ret - 1, ![PinnedCell(ASSIST_HIGH)] = err]
Answered_banked(m, ret, err) ==
    [m EXCEPT ![Mapped(ASSIST_LOW)] = ret, ![Mapped(ASSIST_HIGH)] = err]

Answered(m, ret, err) ==
    [m EXCEPT ![PinnedCell(ASSIST_LOW)] = ret, ![PinnedCell(ASSIST_HIGH)] = err]

\* Mutant: the data starts one byte early.
Filled_early(m, base, data) ==
    [c \in DOMAIN m |-> IF c - base + 1 \in DOMAIN data
                        THEN data[c - base + 1] ELSE m[c]]

\* Memory m after the host has stored data from cell base on.  A host that stores
\* less than it could leaves the rest as it was.
Filled(m, base, data) ==
    [c \in DOMAIN m |-> IF c - base \in DOMAIN data THEN data[c - base] ELSE m[c]]

\* fb_init, time_init, mmu_init, mbox_init
Install(device) ==
    CASE device = "fb" ->
           /\ io_write_top_handler' =
                [io_write_top_handler EXCEPT ![0] = "fb_0", ![1] = "fb_1"]
           /\ io_read_top_handler' = [io_read_top_handler EXCEPT ![0] = "fb_0"]
      [] device = "time" ->
           /\ io_write_top_handler' = [io_write_top_handler EXCEPT ![2] = "time"]
           /\ io_read_top_handler' = [io_read_top_handler EXCEPT ![2] = "time"]
      [] device = "mmu" ->
           /\ io_write_top_handler' = [io_write_top_handler EXCEPT ![14] = "mmu"]
           /\ io_read_top_handler' = [io_read_top_handler EXCEPT ![14] = "mmu"]
      [] device = "mbox" ->
           /\ io_write_top_handler' = [io_write_top_handler EXCEPT ![15] = "mbox"]
           /\ io_read_top_handler' = [io_read_top_handler EXCEPT ![15] = "mbox"]

\* A call that leaves memory alone: unknown requests, failures, and the calls
\* that only take data out of memory (write, open, puts, ...).
AssistNothing(v) ==
    /\ \E ret, err \in Bytes : ram' = Answered(Deposit(v), ret, err)
    /\ UNCHANGED <<pages, handlers>>

\* read and getcwd fill the buffer the request names.
AssistFill(v) ==
    /\ \E buffer \in Buffers :
         \E data \in [0 .. buffer[2] - 1 -> Bytes] :
           \E ret, err \in Bytes :
             ram' = Answered(Filled(Deposit(v), Mapped(buffer[1]), data), ret, err)
    /\ UNCHANGED <<pages, handlers>>

AssistInstall(v) ==
    /\ \E device \in Units : Install(device)
    /\ \E ret, err \in Bytes : ram' = Answered(Deposit(v), ret, err)
    /\ UNCHANGED pages

\* mem_write
MemWrite(a, v) ==
    \/ WriteRam(a, v)
    \/ WritePinned(a, v)
    \/ WritePageRegister(a, v)
    \/ WriteDevice(a, v)
    \/ WriteTopRam(a, v)
    \/ a = ASSIST_HIGH /\ (AssistNothing(v) \/ AssistFill(v) \/ AssistInstall(v))

Next == \E a \in Addresses, v \in Bytes : MemWrite(a, v)

Spec == Init /\ [][Next]_vars

-----------------------------------------------------------------------------
\* Mutant: the two registers answer for each other.
MmuRead_swapped(a) == CASE a % 16 = 0 -> himem2_page
                        [] a % 16 = 1 -> himem1_page
                        [] OTHER      -> 255

\* mmu_mem_io_read
MmuRead(a) == CASE a % 16 = 0 -> himem1_page
                [] a % 16 = 1 -> himem2_page
                [] OTHER      -> 255

\* mem_read: the values a read of address a may return.  The other devices
\* answer from registers this module does not keep, except that the mailboxes
\* have none in the upper half of their sixteen addresses.
Read(a) ==
    IF ~ InTop(a) THEN {ram[Mapped(a)]}
    ELSE LET device == io_read_top_handler[Nibble(a)]
         IN  CASE device = "none" -> {ram[PinnedCell(a)]}
               [] device = "mmu"  -> {MmuRead(a)}
               [] device = "mbox" /\ a % 16 >= 8 -> {255}
               [] OTHER -> BankNumbers

-----------------------------------------------------------------------------
(***************************************************************************)
(* Properties.                                                             *)
(***************************************************************************)
\* What the theorems ask of the program: its buffers lie within a window.
BuffersInWindow ==
    \A buffer \in Buffers : InOneWindow(buffer[1], buffer[1] + buffer[2] - 1)

\* The bank registers always read back as the banks that are selected: with and
\* without the mmu, which answers for the copies in bank 0 once it is installed
\* and which can also be written at its other fifteen places, where the write
\* updates another byte and leaves the copies stale (mem.c:135-145, mmu.c:26-62).
PageRegistersCoherent ==
    /\ Read(PAGE1_REG) = {himem1_page}
    /\ Read(PAGE2_REG) = {himem2_page}

\* Why: until the mmu is initialised the copies in bank 0 are up to date, since
\* no alias of the registers reaches the mmu and no other write reaches a copy;
\* and whenever writes reach the mmu, reads of the registers do so too.
RegisterInvariant ==
    /\ \A n \in 0 .. 15 : io_write_top_handler[n] = "mmu" =>
                             io_read_top_handler[14] = "mmu"
    /\ io_read_top_handler[14] \in {"none", "mmu"}
    /\ io_read_top_handler[14] = "none" =>
          /\ ram[PinnedCell(PAGE1_REG)] = himem1_page
          /\ ram[PinnedCell(PAGE2_REG)] = himem2_page

\* What the slots of BankedStore hold.
ProgramSlots == SlotsOf(Addresses, Bytes)
Stored == [slot \in ProgramSlots |-> ram[SlotCell(slot)]]

Banked == INSTANCE BankedStore
            WITH Banks <- Bytes, Values <- Bytes,
                 store <- Stored,
                 bank1 <- himem1_page, bank2 <- himem2_page

\* The memory implements the banked store: whatever order of stores, bank
\* switches (by either register or an alias of it), device writes and calls, a
\* store reaches the slot at its address in the selected bank and no other, the
\* host fills the bank the program sees, and no device or call moves a vector
\* (all of mem.c).
ImplementsBankedStore == Banked!BankedSpec

\* What a program stores it reads back at once: the write tables, the read tables
\* and the paths of the top page, which pin some bytes and bank others, agree on
\* where each byte is (mem.c:61-175 against mem.c:208-268).  The vectors are
\* exempt while a device answers for them.  The refinement cannot show this: a
\* store that went nowhere would be a step that changes no slot.
WritesReadBack ==
    [][\A a \in Addresses, v \in Bytes :
         /\ Storable(a)
         /\ ~ InTop(a) \/ io_read_top_handler[Nibble(a)] = "none"
         /\ MemWrite(a, v)
         => Read(a)' = {v}]_vars
=============================================================================
