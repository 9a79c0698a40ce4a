----------------------------- MODULE Boot_proofs -----------------------------
(***************************************************************************)
(* Theorems about Boot, for every program, list of arguments, value of the *)
(* loader's count and stack pointer: type correctness, that the arguments  *)
(* are readable, and that the processor comes to a program that is whole.  *)
(***************************************************************************)
EXTENDS Boot, Memory_proofs

(***************************************************************************)
(* What a store does, and what a read returns.                             *)
(***************************************************************************)
MemoryOK ==
    /\ ram \in [Cells -> ByteValues]
    /\ io_write_top_handler \in [0 .. 15 -> Devices \cup {"none"}]
    /\ io_read_top_handler \in [0 .. 15 -> Devices \cup {"none"}]
    /\ io_read_top_handler[15] \in {"none", "mbox"}

\* A call's results are bytes.
LEMMA CallType ==
  ASSUME NEW m \in [Cells -> ByteValues], NEW ret \in Bytes, NEW err \in Bytes
  PROVE  Answered(m, ret, err) \in [Cells -> ByteValues]
BY BytesAssumption DEF Answered, BankNumbers, ByteValues

\* fb_init and its like install handlers for addresses that are not the vectors'.
LEMMA InstallKeepsType ==
  ASSUME MemoryOK, NEW device \in Units, Install(device)
  PROVE  /\ io_write_top_handler' \in [0 .. 15 -> Devices \cup {"none"}]
         /\ io_read_top_handler' \in [0 .. 15 -> Devices \cup {"none"}]
         /\ io_read_top_handler'[15] \in {"none", "mbox"}
<1> USE UnitsAssumption DEF MemoryOK, Install, Devices
<1>1. CASE device = "fb"
  BY <1>1
<1>2. CASE device = "time"
  BY <1>2
<1>3. CASE device = "mmu"
  BY <1>3
<1>4. CASE device = "mbox"
  BY <1>4
<1> QED BY <1>1, <1>2, <1>3, <1>4

\* Whatever is stored wherever, memory holds bytes, and of the devices only the
\* mailboxes answer for the sixteen addresses of the vectors.
LEMMA StoreKeepsType ==
  ASSUME MemoryOK, NEW a, NEW v \in ByteValues, MemWrite(a, v)
  PROVE  MemoryOK'
<1> USE DEF pages, handlers
<1>1. Deposit(v) \in [Cells -> ByteValues]
  BY DEF MemoryOK, Deposit
<1>2. CASE WriteRam(a, v)
  BY <1>2 DEF MemoryOK, WriteRam, SetByte
<1>3. CASE WritePinned(a, v)
  BY <1>3 DEF MemoryOK, WritePinned, SetByte
<1>4. CASE WritePageRegister(a, v)
  BY <1>4 DEF MemoryOK, WritePageRegister, SetByte
<1>5. CASE WriteDevice(a, v)
  BY <1>5 DEF MemoryOK, WriteDevice, MmuWrite, SetByte, vars
<1>6. CASE WriteTopRam(a, v)
  BY <1>6 DEF MemoryOK, WriteTopRam, SetByte
<1>7. CASE AssistNothing(v)
  <2>1. ram' \in [Cells -> ByteValues]
    BY <1>1, <1>7, CallType DEF AssistNothing
  <2> QED BY <1>7, <2>1 DEF MemoryOK, AssistNothing
<1>8. CASE AssistFill(v)
  <2>0. PICK buffer \in Buffers : \E data \in [0 .. buffer[2] - 1 -> Bytes] :
          \E ret, err \in Bytes :
            ram' = Answered(Filled(Deposit(v), Mapped(buffer[1]), data), ret, err)
    BY <1>8 DEF AssistFill
  <2>1. PICK data \in [0 .. buffer[2] - 1 -> Bytes], ret \in Bytes, err \in Bytes :
          ram' = Answered(Filled(Deposit(v), Mapped(buffer[1]), data), ret, err)
    BY <2>0
  <2>2. Filled(Deposit(v), Mapped(buffer[1]), data) \in [Cells -> ByteValues]
    BY <1>1, <2>1, BufferBounds, BytesAssumption DEF Filled, BankNumbers, ByteValues
  <2>3. ram' \in [Cells -> ByteValues]
    BY <2>1, <2>2, CallType
  <2> QED BY <1>8, <2>3 DEF MemoryOK, AssistFill
<1>9. CASE AssistInstall(v)
  <2>1. ram' \in [Cells -> ByteValues]
    BY <1>1, <1>9, CallType DEF AssistInstall
  <2>2. PICK device \in Units : Install(device)
    BY <1>9 DEF AssistInstall
  <2> QED BY <2>1, <2>2, InstallKeepsType DEF MemoryOK
<1> QED BY <1>2, <1>3, <1>4, <1>5, <1>6, <1>7, <1>8, <1>9 DEF MemWrite

\* Below the page of the devices a store changes a byte of memory and nothing else.
LEMMA StoreBelowTop ==
  ASSUME NEW a \in Int, 0 <= a, a < 61440, NEW v, MemWrite(a, v)
  PROVE  ram' = [ram EXCEPT ![Mapped(a)] = v] /\ UNCHANGED <<pages, handlers>>
<1>1. a \in Addresses16 /\ ~ InTop(a)
  BY AddressIntro, EntryRanges
<1>2. a \notin TopRegisters
  BY <1>1, TopRegistersInTop
<1> QED BY <1>1, <1>2 DEF MemWrite, WriteRam, SetByte, WritePinned, WritePageRegister,
          WriteDevice, WriteTopRam, TopRegisters

\* How far bank 0 of the upper window is above its addresses.
Above == 2088960

\* It is above all of them.
LEMMA AboveIsInt == Above \in Int /\ 100000 <= Above
BY SMT DEF Above

\* The cells of the low window, and of the others in bank 0.
LEMMA CellsInBankZero ==
  ASSUME NEW a \in Int, 0 <= a, a < 65536, NEW p, NEW q
  PROVE  /\ a < 40960 => MemBase(a, p, q) = a
         /\ a < 49152 => MemBase(a, 0, 0) = a
         /\ a >= 49152 => MemBase(a, 0, 0) = a + Above
<1>1. a \in Addresses16
  BY AddressIntro
<1>2. LowCell(a) = a /\ Himem1Cell(0, a) = a /\ Himem2Cell(0, a) = a + Above
  BY CellForms, SMT DEF Above
<1>3. a < 40960 => InLomem(a)
  BY EntryRanges
<1>4. 40960 <= a /\ a < 49152 => InHimem1(a)
  BY EntryRanges
<1>5. a >= 49152 => InHimem2(a) \/ InTop(a)
  BY EntryRanges
<1> QED BY <1>1, <1>2, <1>3, <1>4, <1>5, MemBaseCases

\* Below the banks the cell is the address.
LEMMA StoreLow ==
  ASSUME NEW a \in Int, 0 <= a, a < 40960, NEW v, MemWrite(a, v)
  PROVE  ram' = [ram EXCEPT ![a] = v] /\ UNCHANGED <<pages, handlers>>
<1>1. Mapped(a) = a
  BY CellsInBankZero DEF Mapped
<1> QED BY <1>1, StoreBelowTop

\* The bytes the assumptions put into memory are there.
LEMMA AddressHasCell ==
  ASSUME NEW a \in Addresses
  PROVE  MemBase(a, 0, 0) \in Cells
BY BytesAssumption DEF Cells, ProgramCells

\* A byte read from memory is the one in its cell.
LEMMA ByteOf ==
  ASSUME MemoryOK, NEW a, NEW c \in Cells, Read(a) = {ram[c]}
  PROVE  ByteAt(a) = ram[c]
<1>1. ram[c] \in ByteValues
  BY DEF MemoryOK
<1>2. \A b \in ByteValues : Read(a) = {b} <=> b = ram[c]
  BY <1>1
<1> QED BY <1>1, <1>2, Zenon DEF ByteAt

\* And below the banks its cell is its address.
LEMMA ByteLow ==
  ASSUME MemoryOK, NEW a \in Int, 0 <= a, a < 40960, a \in Addresses
  PROVE  a \in Cells /\ ByteAt(a) = ram[a]
<1>1. ~ InTop(a)
  BY EntryRanges
<1>2. MemBase(a, 0, 0) = a /\ Mapped(a) = a
  BY CellsInBankZero DEF Mapped
<1>3. a \in Cells
  BY <1>2, AddressHasCell
<1>4. Read(a) = {ram[a]}
  BY <1>1, <1>2 DEF Read
<1> QED BY <1>3, <1>4, ByteOf

\* The processor's vectors: a byte is read from them whatever was stored before.
LEMMA ByteOfVector ==
  ASSUME MemoryOK, NEW a \in {RESET_VECTOR, RESET_VECTOR + 1, IRQ_VECTOR, IRQ_VECTOR + 1}
  PROVE  /\ ByteAt(a) \in ByteValues
         /\ PinnedCell(a) \in Cells
         /\ io_read_top_handler[15] = "none" => ByteAt(a) = ram[PinnedCell(a)]
<1>1. a \in 65532 .. 65535
  BY DEF RESET_VECTOR, IRQ_VECTOR
<1>2. InTop(a) /\ Nibble(a) = 15 /\ a % 16 >= 8
  BY <1>1, EntryRanges DEF Nibble
<1>3. PinnedCell(a) \in Cells
  <2>1. a \in Addresses16 /\ a \in Addresses
    BY <1>1, AddressIntro, ReadAssumption
  <2>2. MemBase(a, 0, 0) = PinnedCell(a)
    BY <1>2, <2>1, MemBaseCases DEF PinnedCell
  <2> QED BY <2>1, <2>2, AddressHasCell
<1>4. CASE io_read_top_handler[15] = "none"
  <2>1. Read(a) = {ram[PinnedCell(a)]}
    BY <1>2, <1>4 DEF Read
  <2>2. ram[PinnedCell(a)] \in ByteValues
    BY <1>3 DEF MemoryOK
  <2> QED BY <1>3, <2>1, <2>2, ByteOf
<1>5. CASE io_read_top_handler[15] = "mbox"
  <2>1. Read(a) = {255}
    BY <1>2, <1>5 DEF Read
  <2>2. 255 \in ByteValues
    BY DEF ByteValues
  <2>3. \A b \in ByteValues : Read(a) = {b} <=> b = 255
    BY <2>1
  <2>4. ByteAt(a) = 255
    BY <2>2, <2>3, Zenon DEF ByteAt
  <2> QED BY <1>3, <1>5, <2>2, <2>4
<1> QED BY <1>4, <1>5 DEF MemoryOK

-----------------------------------------------------------------------------
(***************************************************************************)
(* The type invariant, with where main is in its loops.                    *)
(***************************************************************************)
\* Where main and the processor are.
LoopTypes ==
    /\ phase \in Phases
    /\ args \in ArgLists
    /\ count0 \in Int /\ count \in Int
    /\ arg \in Int /\ 1 <= arg /\ arg <= Len(args) + 1
    /\ copied \in Int /\ 0 <= copied /\ copied <= 20
    /\ strptr \in Int /\ ARGV <= strptr
    /\ strptr <= ARGV + 2 * Len(args) + 21 * (arg - 1) + copied

Loading == /\ phase = "load" => 0 <= count - count0 /\ count - count0 <= Len(File) /\ arg = 1
           /\ phase # "load" => count - count0 = Len(File)

Copying == /\ phase # "load" => strptr - copied >= ARGV + 2 * Len(args)
           /\ phase \in Storing => arg <= Len(args)
           /\ phase \notin Storing => arg = Len(args) + 1
           /\ phase = "string" => copied <= Copied(args[arg])
           /\ phase # "string" => copied = 0

CpuTypes ==
    /\ sp \in Int /\ 0 <= sp /\ sp <= 255
    /\ pc \in Int /\ 0 <= pc /\ pc < 65536
    /\ idle \in Int /\ 0 <= idle /\ idle <= MaxIdle
    /\ g \in Int /\ 0 <= g /\ g <= 80

\* Each push has a place on the stack.
StackRoom == /\ phase \notin {"push pcl", "push p", "irq vector", "irq vector high"} \cup Ended
                  => 3 <= sp
             /\ phase = "push pcl" => 2 <= sp
             /\ phase = "push p" => 1 <= sp

\* main watches 80 cycles at most, and the high byte of an address comes last.
CyclesLeft == phase \notin Ended => g < 80
HighByteLast == phase \in {"vector", "irq vector high"} => pc < 256

BootInv == /\ MemoryOK /\ LoopTypes /\ Loading /\ Copying
           /\ CpuTypes /\ StackRoom /\ CyclesLeft /\ HighByteLast

\* A byte is a number below 256.
LEMMA ByteBounds ==
  /\ \A v \in ByteValues : v \in Int /\ 0 <= v /\ v <= 255
  /\ \A v \in Int : 0 <= v /\ v <= 255 => v \in ByteValues
BY DEF ByteValues

\* What Seq means.
LEMMA Elements ==
  ASSUME NEW S, NEW s \in Seq(S)
  PROVE  Len(s) \in Nat /\ \A n \in 1 .. Len(s) : s[n] \in S
OBVIOUS

\* The arguments are strings, of which at most 20 characters are copied.
LEMMA ArgumentTypes ==
  ASSUME args \in ArgLists
  PROVE  /\ args \in Seq(Seq(ByteValues \ {0}))
         /\ Len(args) \in Int /\ 1 <= Len(args) /\ Len(args) <= 255
         /\ \A n \in 1 .. Len(args) :
               /\ args[n] \in Seq(ByteValues \ {0})
               /\ Copied(args[n]) \in Nat /\ Copied(args[n]) <= 20 /\ Copied(args[n]) <= Len(args[n])
               /\ \A k \in 1 .. Len(args[n]) : args[n][k] \in ByteValues \ {0}
<1>1. args \in Seq(Seq(ByteValues \ {0}))
  BY ArgListsAssumption
<1>0. Len(args) \in Int /\ 1 <= Len(args) /\ Len(args) <= 255
  <2>1. \A n \in 1 .. 255 : n \in Int /\ 1 <= n /\ n <= 255
    OBVIOUS
  <2> QED BY <2>1, ArgListsAssumption
<1>2. ASSUME NEW n \in 1 .. Len(args)
      PROVE  /\ args[n] \in Seq(ByteValues \ {0})
             /\ Copied(args[n]) \in Nat /\ Copied(args[n]) <= 20 /\ Copied(args[n]) <= Len(args[n])
             /\ \A k \in 1 .. Len(args[n]) : args[n][k] \in ByteValues \ {0}
  <2>1. args[n] \in Seq(ByteValues \ {0})
    BY <1>1
  <2>2. Len(args[n]) \in Nat /\ \A k \in 1 .. Len(args[n]) : args[n][k] \in ByteValues \ {0}
    BY <2>1, Elements
  <2>3. Copied(args[n]) \in Nat /\ Copied(args[n]) <= 20 /\ Copied(args[n]) <= Len(args[n])
    BY <2>2 DEF Copied
  <2> QED BY <2>1, <2>2, <2>3
<1> QED BY <1>0, <1>1, <1>2

\* The file is a list of bytes.
LEMMA FileBytes ==
  /\ Len(File) \in Nat
  /\ \A n \in 1 .. Len(File) : File[n] \in ByteValues
BY FileAssumption, Elements

\* The strings end below the banks.
LEMMA LoopsBound ==
  ASSUME LoopTypes
  PROVE  strptr < 40960 /\ strptr \in Addresses16
<1>1. Len(args) \in Int /\ 1 <= Len(args) /\ Len(args) <= 255
  BY ArgumentTypes DEF LoopTypes
<1>2. /\ strptr \in Int /\ 0 <= strptr
      /\ strptr <= 2305 + 2 * Len(args) + 21 * (arg - 1) + copied
      /\ arg \in Int /\ arg <= Len(args) + 1
      /\ copied \in Int /\ copied <= 20
  BY <1>1 DEF LoopTypes, ARGV
<1>3. strptr < 40960
  BY <1>1, <1>2
<1> QED BY <1>2, <1>3, AddressIntro

\* The invariant implies the types.
LEMMA BootInvType == BootInv => BootTypeOK
<1> SUFFICES ASSUME BootInv PROVE BootTypeOK
  OBVIOUS
<1>1. strptr \in Addresses16 /\ pc \in Addresses16
  <2>1. strptr \in Addresses16
    BY LoopsBound DEF BootInv
  <2>2. pc \in Int /\ 0 <= pc /\ pc < 65536
    BY DEF BootInv, CpuTypes
  <2> QED BY <2>1, <2>2, AddressIntro
<1>2. ram \in [Cells -> ByteValues]
  BY DEF BootInv, MemoryOK
<1>3. phase \in Phases /\ count \in Int /\ arg \in 1 .. Len(args) + 1 /\ copied \in 0 .. 20
  <2>1. Len(args) \in Int
    BY ArgumentTypes DEF BootInv, LoopTypes
  <2> QED BY <2>1 DEF BootInv, LoopTypes
<1>4. sp \in ByteValues
  BY ByteBounds DEF BootInv, CpuTypes
<1>5. idle \in 0 .. MaxIdle /\ g \in 0 .. 80
  BY MaxIdleAssumption DEF BootInv, CpuTypes
<1> QED BY <1>1, <1>2, <1>3, <1>4, <1>5 DEF BootTypeOK

\* Every byte stored is a byte, and where a store goes.
LEMMA StoresAreBytes ==
  ASSUME BootInv
  PROVE  /\ phase = "load" /\ count - count0 < Len(File) =>
               File[count - count0 + 1] \in ByteValues
         /\ Len(args) \in ByteValues /\ strptr % 256 \in ByteValues
         /\ phase = "string" /\ copied < Copied(args[arg]) =>
               /\ copied + 1 \in 1 .. Len(args[arg])
               /\ args[arg][copied + 1] \in ByteValues
         /\ Return \div 256 \in ByteValues /\ Return % 256 \in ByteValues
<1>1. phase = "load" /\ count - count0 < Len(File) => File[count - count0 + 1] \in ByteValues
  <2> SUFFICES ASSUME phase = "load", count - count0 < Len(File)
               PROVE  File[count - count0 + 1] \in ByteValues
    OBVIOUS
  <2>1. count - count0 + 1 \in 1 .. Len(File)
    BY FileBytes DEF BootInv, LoopTypes, Loading
  <2> QED BY <2>1, FileBytes
<1>2. /\ Len(args) \in Int /\ 1 <= Len(args) /\ Len(args) <= 255
      /\ strptr \in Int
      /\ args \in Seq(Seq(ByteValues \ {0}))
  BY ArgumentTypes DEF BootInv, LoopTypes
<1>3. Len(args) \in ByteValues /\ strptr % 256 \in ByteValues
  BY <1>2, ByteBounds
<1>4. phase = "string" /\ copied < Copied(args[arg]) =>
        /\ copied + 1 \in 1 .. Len(args[arg])
        /\ args[arg][copied + 1] \in ByteValues
  <2> SUFFICES ASSUME phase = "string", copied < Copied(args[arg])
               PROVE  /\ copied + 1 \in 1 .. Len(args[arg])
                      /\ args[arg][copied + 1] \in ByteValues
    OBVIOUS
  <2>1. arg \in 1 .. Len(args) /\ copied \in Int /\ 0 <= copied
    BY <1>2 DEF BootInv, LoopTypes, Copying, Storing
  <2>2. /\ args[arg] \in Seq(ByteValues \ {0})
        /\ Copied(args[arg]) \in Nat /\ Copied(args[arg]) <= Len(args[arg])
        /\ \A k \in 1 .. Len(args[arg]) : args[arg][k] \in ByteValues \ {0}
    BY <2>1, ArgumentTypes DEF BootInv, LoopTypes
  <2>3. copied + 1 \in 1 .. Len(args[arg])
    BY <2>1, <2>2
  <2> QED BY <2>2, <2>3
<1>5. Return \div 256 \in ByteValues /\ Return % 256 \in ByteValues
  <2>1. pc \in Int /\ Return = (pc + 2) % 65536
    BY DEF Return, ADDRESS_SPACE, BootInv, CpuTypes
  <2>2. Return \in Int /\ 0 <= Return /\ Return < 65536
    BY <2>1
  <2> QED BY <2>2, ByteBounds
<1> QED BY <1>1, <1>3, <1>4, <1>5

-----------------------------------------------------------------------------
(***************************************************************************)
(* The steps, as far as the types go: those of main, and those of the      *)
(* processor.                                                              *)
(***************************************************************************)
MainStep == LoadByte \/ StoreArgc \/ StorePointerLow \/ StorePointerHigh
            \/ StoreChar \/ StoreEnd

CpuStep == \/ Idle \/ FetchVectorLow \/ FetchVectorHigh \/ FetchOpcode \/ FetchOperand
           \/ PushPCH \/ PushPCL \/ PushP \/ FetchIrqLow \/ FetchIrqHigh

CpuPhases == Phases \ (Storing \cup {"stopped"})

\* A store of main is one of a byte at an address below 0xA000, behind its arguments'
\* pointers; only the loader's goes where the count says.
LEMMA MainStores ==
  ASSUME BootInv, MainStep
  PROVE  \E a \in Int, v \in ByteValues :
           /\ MemWrite(a, v)
           /\ \/ phase = "load" /\ count - count0 < Len(File)
              \/ ARGC <= a /\ a < 40960
<1>0. /\ Len(args) \in Int /\ 1 <= Len(args) /\ Len(args) <= 255
      /\ strptr \in Int /\ ARGV <= strptr /\ strptr < 40960
      /\ arg \in Int /\ 1 <= arg /\ arg <= 256
  BY ArgumentTypes, LoopsBound DEF BootInv, LoopTypes
<1>b. Len(args) \in ByteValues /\ strptr % 256 \in ByteValues
  BY StoresAreBytes
<1>v. 0 \in ByteValues /\ 9 \in ByteValues
  BY ByteBounds
<1>w. ASSUME NEW a \in Int, NEW v \in ByteValues, MemWrite(a, v), ARGC <= a, a < 40960
      PROVE  \E b \in Int, u \in ByteValues :
                /\ MemWrite(b, u)
                /\ \/ phase = "load" /\ count - count0 < Len(File)
                   \/ ARGC <= b /\ b < 40960
  BY <1>w
<1>1. CASE LoadByte
  <2>1. LoadAddress \in Int
    BY DEF LoadAddress, ENTRY, ADDRESS_SPACE, BootInv, LoopTypes
  <2>2. phase = "load" /\ count - count0 < Len(File)
        /\ MemWrite(LoadAddress, File[count - count0 + 1])
    BY <1>1 DEF LoadByte
  <2>3. File[count - count0 + 1] \in ByteValues
    BY <2>2, StoresAreBytes
  <2> QED BY <2>1, <2>2, <2>3
<1>2. CASE StoreArgc
  <2>1. ARGC \in Int /\ ARGC <= ARGC /\ ARGC < 40960
    BY DEF ARGC
  <2>2. MemWrite(ARGC, Len(args))
    BY <1>2 DEF StoreArgc
  <2> QED BY <1>b, <1>w, <2>1, <2>2
<1>3. CASE StorePointerLow
  <2>1. /\ ARGV + 2 * (arg - 1) \in Int
        /\ ARGC <= ARGV + 2 * (arg - 1) /\ ARGV + 2 * (arg - 1) < 40960
    BY <1>0 DEF ARGV, ARGC
  <2>2. MemWrite(ARGV + 2 * (arg - 1), strptr % 256)
    BY <1>3 DEF StorePointerLow
  <2> QED BY <1>b, <1>w, <2>1, <2>2
<1>6. CASE StorePointerHigh
  <2>1. /\ ARGV + 2 * (arg - 1) + 1 \in Int
        /\ ARGC <= ARGV + 2 * (arg - 1) + 1 /\ ARGV + 2 * (arg - 1) + 1 < 40960
    BY <1>0 DEF ARGV, ARGC
  <2>2. MemWrite(ARGV + 2 * (arg - 1) + 1, 9)
    BY <1>6 DEF StorePointerHigh
  <2> QED BY <1>v, <1>w, <2>1, <2>2
<1>4. CASE StoreChar
  <2>1. /\ phase = "string" /\ copied < Copied(args[arg])
        /\ MemWrite(strptr, args[arg][copied + 1])
    BY <1>4 DEF StoreChar
  <2>2. args[arg][copied + 1] \in ByteValues
    BY <2>1, StoresAreBytes
  <2>3. ARGC <= strptr
    BY <1>0 DEF ARGC, ARGV
  <2> QED BY <1>0, <1>w, <2>1, <2>2, <2>3
<1>5. CASE StoreEnd
  <2>2. MemWrite(strptr, 0)
    BY <1>5 DEF StoreEnd
  <2>3. ARGC <= strptr
    BY <1>0 DEF ARGC, ARGV
  <2> QED BY <1>0, <1>v, <1>w, <2>2, <2>3
<1> QED BY <1>1, <1>2, <1>3, <1>4, <1>5, <1>6 DEF MainStep

\* A cycle leaves main's variables alone, and comes to the next one or to an end.
LEMMA CycleStep ==
  ASSUME BootInv, Watched, NEW address, Cycle(address), NEW next \in CpuPhases, Then(next)
  PROVE  /\ phase \in CpuPhases /\ phase' \in CpuPhases
         /\ phase' = next \/ phase' \in Ended
         /\ phase' = "running" => next = "running" \/ address = IRQ_VECTOR + 1
         /\ UNCHANGED mainVars
         /\ g' \in Int /\ 0 <= g' /\ g' <= 80
         /\ CyclesLeft'
<1>1. phase \in CpuPhases /\ phase \notin Ended
  BY DEF Watched, CpuPhases, BootInv, LoopTypes
<1>2. g \in Int /\ 0 <= g /\ g < 80 /\ g' = g + 1
  BY <1>1 DEF BootInv, CpuTypes, CyclesLeft, Cycle
<1>3. \/ phase' = "running" /\ address = IRQ_VECTOR + 1
      \/ phase' = "failed"
      \/ phase' = next /\ g # 79
  BY DEF Then, Cycle
<1>4. {"running", "failed"} \subseteq CpuPhases /\ {"running", "failed"} \subseteq Ended
  BY DEF CpuPhases, Phases, Ended, Storing
<1>5. CyclesLeft'
  BY <1>2, <1>3, <1>4 DEF CyclesLeft
<1> QED BY <1>1, <1>2, <1>3, <1>4, <1>5 DEF Cycle

\* What a step of the processor does: it reads or writes at an address, and goes on.
LEMMA CpuSteps ==
  ASSUME BootInv, CpuStep
  PROVE  /\ phase \in CpuPhases /\ phase \notin Ended /\ phase' \in CpuPhases
         /\ UNCHANGED mainVars
         /\ g' \in Int /\ 0 <= g' /\ g' <= 80
         /\ CyclesLeft'
         /\ \/ UNCHANGED vars
            \/ \E v \in ByteValues : MemWrite(STACK + sp, v) /\ 1 <= sp
<1>1. ASSUME NEW address, NEW next \in CpuPhases,
             Watched, Cycle(address), Then(next)
      PROVE  /\ phase \in CpuPhases /\ phase \notin Ended /\ phase' \in CpuPhases
             /\ UNCHANGED mainVars
             /\ g' \in Int /\ 0 <= g' /\ g' <= 80
             /\ CyclesLeft'
  <2>1. phase \notin Ended
    BY <1>1 DEF Watched
  <2> QED BY <1>1, <2>1, CycleStep
<1>2. /\ {"reset", "vector", "opcode", "operand", "astray", "push pch", "push pcl", "push p"}
           \subseteq CpuPhases
      /\ {"irq vector", "irq vector high", "running"} \subseteq CpuPhases
  BY DEF CpuPhases, Phases, Storing, Ended
<1>3. ASSUME NEW address, NEW next \in CpuPhases, ReadCycle(address, next)
      PROVE  /\ phase \in CpuPhases /\ phase \notin Ended /\ phase' \in CpuPhases
             /\ UNCHANGED mainVars
             /\ g' \in Int /\ 0 <= g' /\ g' <= 80
             /\ CyclesLeft'
             /\ UNCHANGED vars
  BY <1>1, <1>3 DEF ReadCycle
<1>4. ASSUME NEW address, NEW next \in CpuPhases, NEW v, WriteCycle(address, v, next)
      PROVE  /\ phase \in CpuPhases /\ phase \notin Ended /\ phase' \in CpuPhases
             /\ UNCHANGED mainVars
             /\ g' \in Int /\ 0 <= g' /\ g' <= 80
             /\ CyclesLeft'
             /\ MemWrite(address, v)
  BY <1>1, <1>4 DEF WriteCycle
<1>5. CASE Idle
  BY <1>2, <1>3, <1>5 DEF Idle
<1>6. CASE FetchVectorLow
  BY <1>2, <1>3, <1>6 DEF FetchVectorLow
<1>7. CASE FetchVectorHigh
  BY <1>2, <1>3, <1>7 DEF FetchVectorHigh
<1>8. CASE FetchOpcode
  <2>1. (IF ByteAt(pc) = 0 THEN "operand" ELSE "astray") \in CpuPhases
    BY <1>2
  <2> QED BY <1>3, <1>8, <2>1 DEF FetchOpcode
<1>9. CASE FetchOperand
  BY <1>2, <1>3, <1>9 DEF FetchOperand
<1>10. CASE PushPCH
  <2>1. phase = "push pch" => 3 <= sp
    BY Zenon DEF BootInv, StackRoom, Ended
  <2>3. phase = "push pch"
    BY <1>10 DEF PushPCH, Push
  <2>4. sp \in Int
    BY DEF BootInv, CpuTypes
  <2>5. 3 <= sp
    BY <2>1, <2>3
  <2>2. 1 <= sp
    BY <2>4, <2>5
  <2>6. WriteCycle(STACK + sp, Return \div 256, "push pcl")
    BY <1>10 DEF PushPCH, Push
  <2>7. Return \div 256 \in ByteValues
    BY StoresAreBytes
  <2>8. "push pcl" \in CpuPhases
    BY <1>2
  <2> QED BY <1>4, <2>2, <2>6, <2>7, <2>8
<1>14. CASE PushPCL
  <2>1. phase = "push pcl" => 2 <= sp
    BY Zenon DEF BootInv, StackRoom
  <2>3. phase = "push pcl"
    BY <1>14 DEF PushPCL, Push
  <2>4. sp \in Int
    BY DEF BootInv, CpuTypes
  <2>5. 2 <= sp
    BY <2>1, <2>3
  <2>2. 1 <= sp
    BY <2>4, <2>5
  <2>6. WriteCycle(STACK + sp, Return % 256, "push p")
    BY <1>14 DEF PushPCL, Push
  <2>7. Return % 256 \in ByteValues
    BY StoresAreBytes
  <2>8. "push p" \in CpuPhases
    BY <1>2
  <2> QED BY <1>4, <2>2, <2>6, <2>7, <2>8
<1>11. CASE PushP
  <2>1. phase = "push p" => 1 <= sp
    BY Zenon DEF BootInv, StackRoom
  <2>2. phase = "push p"
    BY <1>11 DEF PushP, Push
  <2>3. 52 \in ByteValues
    BY ByteBounds
  <2>4. WriteCycle(STACK + sp, 52, "irq vector")
    BY <1>11 DEF PushP, Push
  <2>5. 1 <= sp
    BY <2>1, <2>2
  <2>6. "irq vector" \in CpuPhases
    BY <1>2
  <2> QED BY <1>4, <2>3, <2>4, <2>5, <2>6
<1>12. CASE FetchIrqLow
  BY <1>2, <1>3, <1>12 DEF FetchIrqLow
<1>13. CASE FetchIrqHigh
  BY <1>2, <1>3, <1>13 DEF FetchIrqHigh
<1> QED BY <1>5, <1>6, <1>7, <1>8, <1>9, <1>10, <1>11, <1>12, <1>13, <1>14 DEF CpuStep

\* The loops keep their variables in their ranges.
LEMMA LoopsStep ==
  ASSUME BootInv, MainStep
  PROVE  /\ LoopTypes' /\ Loading' /\ Copying'
         /\ phase \in Storing /\ phase' \in Storing \cup {"stopped"}
         /\ UNCHANGED cpuVars
<1> USE DEF argVars
<1>0. LoopTypes /\ Loading /\ Copying
  BY DEF BootInv
<1>t. /\ Len(args) \in Int /\ 1 <= Len(args) /\ Len(args) <= 255
      /\ count0 \in Int /\ count \in Int
      /\ arg \in Int /\ 1 <= arg /\ arg <= Len(args) + 1
      /\ copied \in Int /\ 0 <= copied /\ copied <= 20
      /\ strptr \in Int /\ 2305 <= strptr
      /\ strptr <= 2305 + 2 * Len(args) + 21 * (arg - 1) + copied
  BY <1>0, ArgumentTypes DEF LoopTypes, ARGV
<1>p. {"load", "pointer low", "pointer high", "string", "stopped"} \subseteq Phases
  BY DEF Phases, Storing
<1>l. Len(File) \in Nat
  BY FileBytes
<1>1. CASE LoadByte
  <2>1. /\ phase = "load" /\ phase' = "load" /\ count - count0 < Len(File)
        /\ count' = count + 1
        /\ UNCHANGED <<args, count0, arg, copied, strptr, cpuVars>>
    BY <1>1 DEF LoadByte
  <2>2. LoopTypes'
    BY <1>0, <1>t, <2>1 DEF LoopTypes
  <2>3. Loading'
    BY <1>0, <1>t, <1>l, <2>1 DEF Loading
  <2>4. Copying'
    BY <1>0, <2>1 DEF Copying, Storing
  <2> QED BY <2>1, <2>2, <2>3, <2>4 DEF Storing
<1>2. CASE StoreArgc
  <2>1. /\ phase = "load" /\ phase' = "pointer low" /\ count - count0 = Len(File)
        /\ strptr' = 2305 + 2 * Len(args)
        /\ UNCHANGED <<args, count0, count, arg, copied, cpuVars>>
    BY <1>2 DEF StoreArgc, ARGV
  <2>2. arg = 1 /\ copied = 0
    BY <1>0, <2>1 DEF Loading, Copying
  <2>a. /\ strptr' \in Int /\ ARGV <= strptr' /\ strptr' - copied' >= ARGV + 2 * Len(args')
        /\ strptr' <= ARGV + 2 * Len(args') + 21 * (arg' - 1) + copied'
    <3>1. /\ strptr' = 2305 + 2 * Len(args) /\ args' = args
          /\ arg' = 1 /\ copied' = 0
      BY <2>1, <2>2
    <3> QED BY <1>t, <3>1 DEF ARGV
  <2>b. /\ arg' \in Int /\ 1 <= arg' /\ arg' <= Len(args') + 1 /\ arg' <= Len(args')
        /\ copied' \in Int /\ 0 <= copied' /\ copied' <= 20
    <3>1. args' = args /\ arg' = 1 /\ copied' = 0
      BY <2>1, <2>2
    <3> QED BY <1>t, <3>1
  <2>c. phase' \in Phases /\ args' \in ArgLists /\ count0' \in Int /\ count' \in Int
    BY <1>0, <1>p, <2>1 DEF LoopTypes
  <2>3. LoopTypes'
    BY <2>a, <2>b, <2>c DEF LoopTypes
  <2>4. Loading'
    BY <2>1 DEF Loading
  <2>5. Copying'
    BY <2>1, <2>2, <2>a, <2>b DEF Copying, Storing
  <2> QED BY <2>1, <2>3, <2>4, <2>5 DEF Storing
<1>3. CASE StorePointerLow
  <2>1. /\ phase = "pointer low" /\ phase' = "pointer high"
        /\ UNCHANGED <<args, count0, count, arg, copied, strptr, cpuVars>>
    BY <1>3 DEF StorePointerLow, mainVars
  <2>2. LoopTypes' /\ Loading'
    BY <1>0, <1>p, <2>1 DEF LoopTypes, Loading
  <2>3. Copying'
    BY <1>0, <2>1 DEF Copying, Storing
  <2> QED BY <2>1, <2>2, <2>3 DEF Storing
<1>4. CASE StorePointerHigh
  <2>1. /\ phase = "pointer high" /\ phase' = "string"
        /\ UNCHANGED <<args, count0, count, arg, copied, strptr, cpuVars>>
    BY <1>4 DEF StorePointerHigh, mainVars
  <2>2. LoopTypes' /\ Loading'
    BY <1>0, <1>p, <2>1 DEF LoopTypes, Loading
  <2>3. copied = 0 /\ arg <= Len(args) /\ strptr - copied >= ARGV + 2 * Len(args)
    BY <1>0, <2>1 DEF Copying, Storing
  <2>4. 0 <= Copied(args[arg])
    BY <1>0, <1>t, <2>3, ArgumentTypes DEF LoopTypes
  <2>5. Copying'
    BY <2>1, <2>3, <2>4 DEF Copying, Storing
  <2> QED BY <2>1, <2>2, <2>5 DEF Storing
<1>5. CASE StoreChar
  <2>1. /\ phase = "string" /\ phase' = "string" /\ copied < Copied(args[arg])
        /\ copied' = copied + 1 /\ strptr' = strptr + 1
        /\ UNCHANGED <<args, count0, count, arg, cpuVars>>
    BY <1>5 DEF StoreChar
  <2>2. arg <= Len(args) /\ strptr - copied >= ARGV + 2 * Len(args)
    BY <1>0, <2>1 DEF Copying, Storing
  <2>3. Copied(args[arg]) \in Nat /\ Copied(args[arg]) <= 20
    BY <1>0, <1>t, <2>2, ArgumentTypes DEF LoopTypes
  <2>4. copied + 1 <= Copied(args[arg]) /\ copied + 1 <= 20
    BY <1>t, <2>1, <2>3
  <2>5. LoopTypes'
    BY <1>0, <1>t, <2>1, <2>4 DEF LoopTypes, ARGV
  <2>6. Loading'
    BY <1>0, <2>1 DEF Loading
  <2>7. Copying'
    BY <1>t, <2>1, <2>2, <2>4 DEF Copying, Storing, ARGV
  <2> QED BY <2>1, <2>5, <2>6, <2>7 DEF Storing
<1>6. CASE StoreEnd
  <2>1. /\ phase = "string" /\ copied = Copied(args[arg])
        /\ copied' = 0 /\ strptr' = strptr + 1 /\ arg' = arg + 1
        /\ phase' = IF arg = Len(args) THEN "stopped" ELSE "pointer low"
        /\ UNCHANGED <<args, count0, count, cpuVars>>
    BY <1>6 DEF StoreEnd
  <2>2. arg <= Len(args) /\ strptr - copied >= ARGV + 2 * Len(args)
    BY <1>0, <2>1 DEF Copying, Storing
  <2>3. phase' \in {"stopped", "pointer low"}
    BY <2>1
  <2>a. /\ strptr' \in Int /\ ARGV <= strptr' /\ strptr' - copied' >= ARGV + 2 * Len(args')
        /\ strptr' <= ARGV + 2 * Len(args') + 21 * (arg' - 1) + copied'
    <3>1. 2305 + 2 * Len(args) <= strptr - copied /\ copied <= 20
      BY <1>t, <2>2 DEF ARGV
    <3>2. strptr' = strptr + 1 /\ arg' = arg + 1 /\ copied' = 0 /\ args' = args
      BY <2>1
    <3> QED BY <1>t, <3>1, <3>2 DEF ARGV
  <2>b. /\ arg' \in Int /\ 1 <= arg' /\ arg' <= Len(args') + 1
        /\ arg # Len(args) => arg' <= Len(args')
        /\ arg = Len(args) => arg' = Len(args') + 1
        /\ copied' \in Int /\ 0 <= copied' /\ copied' <= 20
    <3>1. arg' = arg + 1 /\ copied' = 0 /\ args' = args
      BY <2>1
    <3> QED BY <1>t, <2>2, <3>1
  <2>4. LoopTypes'
    BY <1>0, <1>p, <2>1, <2>3, <2>a, <2>b DEF LoopTypes
  <2>5. Loading'
    BY <1>0, <2>1, <2>3 DEF Loading
  <2>6. CASE arg = Len(args)
    <3>1. phase' = "stopped" /\ arg' = Len(args') + 1 /\ copied' = 0
      BY <2>1, <2>6, <2>b
    <3>2. Copying'
      BY <2>a, <3>1 DEF Copying, Storing
    <3> QED BY <2>1, <2>4, <2>5, <3>1, <3>2 DEF Storing
  <2>7. CASE arg # Len(args)
    <3>1. phase' = "pointer low" /\ arg' <= Len(args') /\ copied' = 0
      BY <2>1, <2>7, <2>b
    <3>2. Copying'
      BY <2>a, <3>1 DEF Copying, Storing
    <3> QED BY <2>1, <2>4, <2>5, <3>1, <3>2 DEF Storing
  <2> QED BY <2>6, <2>7
<1> QED BY <1>1, <1>2, <1>3, <1>4, <1>5, <1>6 DEF MainStep

\* The processor keeps its registers in their ranges.
LEMMA RegistersStep ==
  ASSUME BootInv, CpuStep
  PROVE  CpuTypes' /\ StackRoom' /\ HighByteLast'
<1>t. /\ sp \in Int /\ 0 <= sp /\ sp <= 255
      /\ pc \in Int /\ 0 <= pc /\ pc < 65536
      /\ idle \in Int /\ 0 <= idle /\ idle <= MaxIdle
  BY DEF BootInv, CpuTypes
<1>g. g' \in Int /\ 0 <= g' /\ g' <= 80
  BY CpuSteps
<1>n. /\ {"reset", "vector", "opcode", "operand", "astray", "push pch", "push pcl", "push p"}
           \subseteq CpuPhases
      /\ {"irq vector", "irq vector high", "running"} \subseteq CpuPhases
  BY DEF CpuPhases, Phases, Storing, Ended
<1>p. ASSUME NEW next \in CpuPhases, NEW address,
             ReadCycle(address, next) \/ \E v : WriteCycle(address, v, next)
      PROVE  phase' = next \/ phase' \in Ended
  BY <1>p, CycleStep DEF ReadCycle, WriteCycle
<1>r. phase \in {"reset", "vector", "opcode", "operand", "push pch"} => 3 <= sp
  BY Zenon DEF BootInv, StackRoom, Ended
<1>s. ASSUME sp' = sp, 3 <= sp
      PROVE  StackRoom'
  <2>1. 3 <= sp' /\ 2 <= sp' /\ 1 <= sp'
    BY <1>t, <1>s
  <2> QED BY <2>1, Zenon DEF StackRoom
<1>e. phase' \in Ended \cup {"irq vector", "irq vector high"} => StackRoom'
  BY Zenon DEF StackRoom, Ended
<1>h. phase' \notin {"vector", "irq vector high"} => HighByteLast'
  BY DEF HighByteLast
<1>l. pc' < 256 => HighByteLast'
  BY DEF HighByteLast
<1>c. ASSUME sp' = sp, pc' \in Int, 0 <= pc', pc' < 65536, idle' = idle
      PROVE  CpuTypes'
  BY <1>t, <1>g, <1>c DEF CpuTypes
<1>b. ASSUME NEW a \in {RESET_VECTOR, RESET_VECTOR + 1, IRQ_VECTOR, IRQ_VECTOR + 1}
      PROVE  ByteAt(a) \in Int /\ 0 <= ByteAt(a) /\ ByteAt(a) <= 255
  BY ByteOfVector, ByteBounds DEF BootInv
<1>1. CASE Idle
  <2>1. /\ phase = "reset" /\ idle < MaxIdle /\ idle' = idle + 1 /\ sp' = sp /\ pc' = pc
        /\ phase' = "reset" \/ phase' \in Ended
    BY <1>1, <1>n, <1>p DEF Idle
  <2>2. CpuTypes'
    <3>1. idle' \in Int /\ 0 <= idle' /\ idle' <= MaxIdle /\ sp' = sp /\ pc' = pc
      BY <1>t, <2>1, MaxIdleAssumption
    <3> QED BY <1>t, <1>g, <3>1 DEF CpuTypes
  <2>3. HighByteLast'
    BY <1>h, <2>1 DEF Ended
  <2> QED BY <1>r, <1>s, <2>1, <2>2, <2>3
<1>2. CASE FetchVectorLow
  <2>1. phase = "reset" /\ sp' = sp /\ idle' = idle /\ pc' = ByteAt(RESET_VECTOR)
    BY <1>2 DEF FetchVectorLow
  <2>2. pc' \in Int /\ 0 <= pc' /\ pc' < 256
    BY <1>b, <2>1
  <2> QED BY <1>r, <1>s, <1>c, <1>l, <2>1, <2>2
<1>3. CASE FetchVectorHigh
  <2>1. /\ phase = "vector" /\ sp' = sp /\ idle' = idle
        /\ pc' = pc + 256 * ByteAt(RESET_VECTOR + 1)
        /\ phase' = "opcode" \/ phase' \in Ended
    BY <1>3, <1>n, <1>p DEF FetchVectorHigh
  <2>2. pc < 256
    BY <2>1 DEF BootInv, HighByteLast
  <2>3. pc' \in Int /\ 0 <= pc' /\ pc' < 65536
    BY <1>b, <1>t, <2>1, <2>2
  <2>4. HighByteLast'
    BY <1>h, <2>1 DEF Ended
  <2> QED BY <1>r, <1>s, <1>c, <2>1, <2>3, <2>4
<1>4. CASE FetchOpcode
  <2>1. /\ phase = "opcode" /\ sp' = sp /\ idle' = idle /\ pc' = pc
        /\ phase' = "operand" \/ phase' = "astray" \/ phase' \in Ended
    BY <1>4, <1>n, <1>p DEF FetchOpcode
  <2>2. HighByteLast'
    BY <1>h, <2>1 DEF Ended
  <2>3. CpuTypes'
    <3>1. sp' = sp /\ idle' = idle /\ pc' = pc
      BY <2>1
    <3> QED BY <1>t, <1>c, <3>1
  <2>4. StackRoom'
    BY <1>r, <1>s, <2>1
  <2> QED BY <2>2, <2>3, <2>4
<1>5. CASE FetchOperand
  <2>1. /\ phase = "operand" /\ sp' = sp /\ idle' = idle /\ pc' = pc
        /\ phase' = "push pch" \/ phase' \in Ended
    BY <1>5, <1>n, <1>p DEF FetchOperand
  <2>2. HighByteLast'
    BY <1>h, <2>1 DEF Ended
  <2>3. CpuTypes'
    <3>1. sp' = sp /\ idle' = idle /\ pc' = pc
      BY <2>1
    <3> QED BY <1>t, <1>c, <3>1
  <2>4. StackRoom'
    BY <1>r, <1>s, <2>1
  <2> QED BY <2>2, <2>3, <2>4
<1>6. ASSUME NEW at, NEW next \in {"push pcl", "push p", "irq vector"}, NEW v, Push(at, next, v)
      PROVE  /\ HighByteLast' /\ sp' = sp - 1 /\ idle' = idle /\ pc' = pc
             /\ phase' = next \/ phase' \in Ended
  <2>1. /\ sp' = sp - 1 /\ idle' = idle /\ pc' = pc
        /\ phase' = next \/ phase' \in Ended
    BY <1>6, <1>n, <1>p DEF Push
  <2>2. HighByteLast'
    BY <1>6, <1>h, <2>1 DEF Ended
  <2> QED BY <2>1, <2>2
<1>u. ASSUME 1 <= sp, sp' = sp - 1, idle' = idle, pc' = pc
      PROVE  CpuTypes'
  <2>1. sp' \in Int /\ 0 <= sp' /\ sp' <= 255
    BY <1>t, <1>u
  <2> QED BY <1>t, <1>g, <1>u, <2>1 DEF CpuTypes
<1>7. CASE PushPCH
  <2>1. phase = "push pch"
    BY <1>7 DEF PushPCH, Push
  <2>2. 3 <= sp
    BY <1>r, <2>1
  <2>3. 1 <= sp
    BY <1>t, <2>2
  <2>4. /\ HighByteLast' /\ sp' = sp - 1 /\ idle' = idle /\ pc' = pc
        /\ phase' = "push pcl" \/ phase' \in Ended
    BY <1>6, <1>7 DEF PushPCH
  <2>5. 2 <= sp'
    <3>1. sp' = sp - 1
      BY <2>4
    <3> QED BY <1>t, <2>2, <3>1
  <2>6. StackRoom'
    BY <2>4, <2>5, Zenon DEF StackRoom, Ended
  <2>7. CpuTypes'
    BY <1>u, <2>3, <2>4, Zenon
  <2> QED BY <2>4, <2>6, <2>7
<1>8. CASE PushPCL
  <2>1. phase = "push pcl" /\ StackRoom
    BY <1>8 DEF PushPCL, Push, BootInv
  <2>2. 2 <= sp
    BY <2>1, Zenon DEF StackRoom
  <2>3. 1 <= sp
    BY <1>t, <2>2
  <2>4. /\ HighByteLast' /\ sp' = sp - 1 /\ idle' = idle /\ pc' = pc
        /\ phase' = "push p" \/ phase' \in Ended
    BY <1>6, <1>8 DEF PushPCL
  <2>5. 1 <= sp'
    <3>1. sp' = sp - 1
      BY <2>4
    <3> QED BY <1>t, <2>2, <3>1
  <2>6. StackRoom'
    BY <2>4, <2>5, Zenon DEF StackRoom, Ended
  <2>7. CpuTypes'
    BY <1>u, <2>3, <2>4, Zenon
  <2> QED BY <2>4, <2>6, <2>7
<1>9. CASE PushP
  <2>1. phase = "push p" /\ StackRoom
    BY <1>9 DEF PushP, Push, BootInv
  <2>2. 1 <= sp
    BY <2>1, Zenon DEF StackRoom
  <2>3. /\ HighByteLast' /\ sp' = sp - 1 /\ idle' = idle /\ pc' = pc
        /\ phase' = "irq vector" \/ phase' \in Ended
    BY <1>6, <1>9 DEF PushP
  <2>4. CpuTypes'
    BY <1>u, <2>2, <2>3, Zenon
  <2> QED BY <1>e, <2>3, <2>4
<1>10. CASE FetchIrqLow
  <2>1. /\ sp' = sp /\ idle' = idle /\ pc' = ByteAt(IRQ_VECTOR)
        /\ phase' = "irq vector high" \/ phase' \in Ended
    BY <1>10, <1>n, <1>p DEF FetchIrqLow
  <2>2. pc' \in Int /\ 0 <= pc' /\ pc' < 256
    <3>1. pc' = ByteAt(IRQ_VECTOR)
      BY <2>1
    <3> QED BY <1>b, <3>1
  <2>3. CpuTypes'
    <3>1. pc' < 65536
      BY <2>2
    <3>2. sp' = sp /\ idle' = idle
      BY <2>1
    <3> QED BY <1>c, <2>2, <3>1, <3>2
  <2> QED BY <1>e, <1>l, <2>1, <2>2, <2>3
<1>11. CASE FetchIrqHigh
  <2>1. /\ phase = "irq vector high" /\ sp' = sp /\ idle' = idle
        /\ pc' = pc + 256 * ByteAt(IRQ_VECTOR + 1)
        /\ phase' = "running" \/ phase' \in Ended
    BY <1>11, <1>n, <1>p DEF FetchIrqHigh
  <2>2. pc < 256
    BY <2>1 DEF BootInv, HighByteLast
  <2>3. pc' \in Int /\ 0 <= pc' /\ pc' < 65536
    <3>1. pc' = pc + 256 * ByteAt(IRQ_VECTOR + 1)
      BY <2>1
    <3> QED BY <1>b, <1>t, <2>2, <3>1
  <2>4. HighByteLast' /\ phase' \in Ended
    BY <1>h, <2>1 DEF Ended
  <2>5. CpuTypes'
    <3>1. sp' = sp /\ idle' = idle
      BY <2>1
    <3> QED BY <1>c, <2>3, <3>1
  <2> QED BY <1>e, <2>4, <2>5
<1> QED BY <1>1, <1>2, <1>3, <1>4, <1>5, <1>7, <1>8, <1>9, <1>10, <1>11 DEF CpuStep

\* Every step keeps the invariant.
LEMMA BootInvStep ==
  ASSUME BootInv, [BootNext]_bootVars
  PROVE  BootInv'
<1>1. CASE MainStep
  <2>1. MemoryOK'
    BY <1>1, MainStores, StoreKeepsType DEF BootInv
  <2>2. /\ LoopTypes' /\ Loading' /\ Copying'
        /\ phase \in Storing /\ phase' \in Storing \cup {"stopped"}
        /\ UNCHANGED <<sp, pc, idle, g>>
    BY <1>1, LoopsStep DEF cpuVars
  <2>3. CpuTypes' /\ CyclesLeft'
    <3>1. CpuTypes /\ CyclesLeft /\ phase \notin Ended
      BY <2>2 DEF BootInv, Storing, Ended
    <3>2. g < 80
      BY <3>1 DEF CyclesLeft
    <3>3. CpuTypes'
      BY <2>2, <3>1 DEF CpuTypes
    <3> QED BY <2>2, <3>2, <3>3 DEF CyclesLeft
  <2>4. 3 <= sp /\ sp' = sp
    BY <2>2, Zenon DEF BootInv, StackRoom, Storing, Ended
  <2>5. StackRoom'
    <3>1. 3 <= sp' /\ phase' \in {"load", "pointer low", "pointer high", "string", "stopped"}
      BY <2>2, <2>4 DEF Storing
    <3> QED BY <3>1, Zenon DEF StackRoom
  <2>6. HighByteLast'
    BY <2>2 DEF HighByteLast, Storing
  <2> QED BY <2>1, <2>2, <2>3, <2>5, <2>6 DEF BootInv
<1>2. CASE reset65C02
  <2>1. phase = "stopped" /\ phase' = "reset" /\ UNCHANGED <<vars, mainVars, cpuVars>>
    BY <1>2 DEF reset65C02
  <2>2. MemoryOK'
    BY <2>1 DEF BootInv, MemoryOK, vars
  <2>3. LoopTypes' /\ Loading' /\ Copying'
    BY <2>1 DEF BootInv, LoopTypes, Loading, Copying, mainVars, argVars, Phases, Storing
  <2>4. CpuTypes' /\ CyclesLeft' /\ HighByteLast'
    BY <2>1 DEF BootInv, CpuTypes, CyclesLeft, HighByteLast, cpuVars, Ended
  <2>5. StackRoom'
    <3>1. 3 <= sp /\ sp' = sp
      BY <2>1, Zenon DEF BootInv, StackRoom, Ended, cpuVars
    <3> QED BY <2>1, <3>1, Zenon DEF StackRoom
  <2> QED BY <2>2, <2>3, <2>4, <2>5 DEF BootInv
<1>3. CASE CpuStep
  <2>1. /\ phase \in CpuPhases /\ phase' \in CpuPhases
        /\ UNCHANGED mainVars /\ CyclesLeft'
    BY <1>3, CpuSteps
  <2>2. MemoryOK'
    <3>1. CASE UNCHANGED vars
      BY <3>1 DEF BootInv, MemoryOK, vars
    <3>2. CASE \E v \in ByteValues : MemWrite(STACK + sp, v)
      BY <3>2, StoreKeepsType DEF BootInv
    <3> QED BY <1>3, <3>1, <3>2, CpuSteps
  <2>3. LoopTypes'
    BY <2>1 DEF BootInv, LoopTypes, mainVars, argVars, CpuPhases
  <2>4. Loading' /\ Copying'
    BY <2>1 DEF BootInv, Loading, Copying, mainVars, argVars, CpuPhases, Storing
  <2> QED BY <1>3, <2>1, <2>2, <2>3, <2>4, RegistersStep DEF BootInv
<1>4. CASE UNCHANGED bootVars
  <2>1. /\ UNCHANGED <<ram, himem1_page, himem2_page, io_write_top_handler, io_read_top_handler>>
        /\ UNCHANGED <<args, count0, count, arg, copied, strptr, phase, sp, pc, idle, g>>
    BY <1>4 DEF bootVars, mainVars, argVars, cpuVars, vars
  <2>2. MemoryOK'
    BY <2>1 DEF BootInv, MemoryOK
  <2>3. LoopTypes' /\ Loading' /\ Copying'
    BY <2>1, Zenon DEF BootInv, LoopTypes, Loading, Copying
  <2>4. CpuTypes'
    <3>1. CpuTypes /\ UNCHANGED <<sp, pc, idle, g>>
      BY <2>1 DEF BootInv
    <3> QED BY <3>1 DEF CpuTypes
  <2>6. phase' = phase /\ sp' = sp /\ pc' = pc /\ g' = g
    BY <2>1
  <2>5. StackRoom' /\ CyclesLeft' /\ HighByteLast'
    <3>1. StackRoom /\ CyclesLeft /\ HighByteLast
      BY DEF BootInv
    <3>2. StackRoom'
      BY <2>6, <3>1, Zenon DEF StackRoom
    <3>3. CyclesLeft' /\ HighByteLast'
      BY <2>6, <3>1, Zenon DEF CyclesLeft, HighByteLast
    <3> QED BY <3>2, <3>3
  <2> QED BY <2>2, <2>3, <2>4, <2>5 DEF BootInv
<1> QED BY <1>1, <1>2, <1>3, <1>4 DEF BootNext, MainStep, CpuStep

-----------------------------------------------------------------------------
(***************************************************************************)
(* The arguments.                                                          *)
(***************************************************************************)
\* Where the string being copied starts, or the last one when all are.
CurrentString == IF phase \in Storing THEN strptr - copied ELSE LastString

\* String n is where its pointer says, between the pointers and the current string.
StringStored(n) ==
    LET start == 2304 + ram[ARGV + 2 * n - 2]
    IN  /\ ram[ARGV + 2 * n - 2] \in ByteValues /\ ram[ARGV + 2 * n - 1] = 9
        /\ start >= ARGV + 2 * Len(args)
        /\ start + Copied(args[n]) < strptr - copied
        /\ \A k \in 1 .. Copied(args[n]) : ram[start + k - 1] = args[n][k]
        /\ ram[start + Copied(args[n])] = 0

\* Of the current string: the low byte of its pointer, the high one, its characters.
LowStored  == ram[ARGV + 2 * arg - 2] = CurrentString - 2304
HighStored == ram[ARGV + 2 * arg - 1] = 9
CharsStored == \A k \in 1 .. copied : ram[CurrentString + k - 1] = args[arg][k]

\* The strings before it.
AllStored == \A n \in 1 .. arg - 1 : StringStored(n)

InPageNine == CurrentString < 2560

\* What is stored of the arguments so far, as long as the strings start below 0x0A00.
ArgcStored == phase # "load" => ram[ARGC] = Len(args)
StringsStored == phase # "load" /\ InPageNine => AllStored
CurrentStored == InPageNine =>
                    /\ phase = "pointer high" \/ phase = "string" => LowStored
                    /\ phase = "string" => HighStored /\ CharsStored

ArgumentsStored == ArgcStored /\ StringsStored /\ CurrentStored

\* The bytes of argc, of the pointers and of the strings have cells.
LEMMA ArgumentCells ==
  ASSUME NEW x \in Int, 2304 <= x, x <= 2599
  PROVE  x \in Addresses /\ x \in Cells
<1>1. x \in ARGC .. ARGC + 295
  BY DEF ARGC
<1>2. x \in Addresses
  BY <1>1, ReadAssumption
<1>3. MemBase(x, 0, 0) = x
  BY CellsInBankZero
<1> QED BY <1>2, <1>3, AddressHasCell

\* What a store below 0xA000 does to the bytes of the arguments.
LEMMA StoreAmongArguments ==
  ASSUME MemoryOK, NEW a \in Int, 0 <= a, a < 40960, NEW v, MemWrite(a, v)
  PROVE  /\ \A x \in Int : 2304 <= x /\ x <= 2599 /\ x # a => ram'[x] = ram[x]
         /\ 2304 <= a /\ a <= 2599 => ram'[a] = v
<1>1. ram' = [ram EXCEPT ![a] = v]
  BY StoreLow
<1>2. \A x \in Int : 2304 <= x /\ x <= 2599 => x \in DOMAIN ram
  BY ArgumentCells DEF MemoryOK
<1> QED BY <1>1, <1>2

\* What is below the current string is below the next.
LEMMA StillBelow ==
  ASSUME NEW x \in Int, NEW y \in Int, NEW z \in Int, x < y, y <= z
  PROVE  x < z
OBVIOUS

\* A string stays stored as long as its pointer and the bytes up to the current
\* string are kept.
LEMMA StringStays ==
  ASSUME BootInv, NEW n \in Int, 1 <= n, n <= Len(args), StringStored(n),
         args' = args, strptr' \in Int, copied' \in Int,
         strptr - copied <= strptr' - copied',
         ram'[ARGV + 2 * n - 2] = ram[ARGV + 2 * n - 2],
         ram'[ARGV + 2 * n - 1] = ram[ARGV + 2 * n - 1],
         \A x \in Int : ARGV + 2 * Len(args) <= x /\ x < strptr - copied => ram'[x] = ram[x]
  PROVE  StringStored(n)'
<1>0. ram[ARGV + 2 * n - 2] \in ByteValues
  BY DEF StringStored
<1> DEFINE start == 2304 + ram[ARGV + 2 * n - 2]
           size == Copied(args[n])
<1>1. /\ ram[ARGV + 2 * n - 2] \in ByteValues /\ ram[ARGV + 2 * n - 1] = 9
      /\ start >= ARGV + 2 * Len(args)
      /\ start + size < strptr - copied
      /\ \A k \in 1 .. size : ram[start + k - 1] = args[n][k]
      /\ ram[start + size] = 0
  BY DEF StringStored
<1>2. start \in Int
  <2>1. ram[ARGV + 2 * n - 2] \in Int
    BY <1>0, ByteBounds
  <2> QED BY <2>1
<1>3. /\ size \in Nat /\ Len(args) \in Int
      /\ strptr \in Int /\ copied \in Int
  BY ArgumentTypes DEF BootInv, LoopTypes
<1>4. ARGV \in Int
  BY DEF ARGV
<1> HIDE DEF start, size
<1>5. ASSUME NEW k \in 1 .. size
      PROVE  ram'[start + k - 1] = args[n][k]
  <2>1. /\ start + k - 1 \in Int /\ ARGV + 2 * Len(args) <= start + k - 1
        /\ start + k - 1 < strptr - copied
    BY <1>1, <1>2, <1>3, <1>4
  <2> QED BY <1>1, <2>1
<1>6. ram'[start + size] = 0
  <2>1. /\ start + size \in Int /\ ARGV + 2 * Len(args) <= start + size
        /\ start + size < strptr - copied
    BY <1>1, <1>2, <1>3, <1>4
  <2> QED BY <1>1, <2>1
<1>7. start + size < strptr' - copied'
  <2>1. start + size \in Int /\ strptr - copied \in Int /\ strptr' - copied' \in Int
    BY <1>2, <1>3
  <2> QED BY <1>1, <2>1, StillBelow
<1>8. 2304 + ram'[ARGV + 2 * n - 2] = start
  BY DEF start
<1> QED BY <1>1, <1>5, <1>6, <1>7, <1>8, SMTT(30) DEF StringStored, size

ArgumentBytesKept == \A x \in Int : 2304 <= x /\ x <= 2599 => ram'[x] = ram[x]

\* Nothing is stored among the arguments: they stay.
LEMMA ArgumentsStay ==
  ASSUME BootInv, ArgumentsStored, phase \notin Storing, phase' \notin Storing,
         UNCHANGED mainVars, ArgumentBytesKept
  PROVE  ArgumentsStored'
<1>1. args' = args /\ arg' = arg /\ copied' = copied /\ strptr' = strptr
  BY DEF mainVars, argVars
<1>p. /\ phase # "load" /\ phase' # "load" /\ phase # "string"
      /\ phase' \notin {"pointer high", "string"} /\ phase' # "string"
  BY DEF Storing
<1>2. ArgcStored'
  <2>1. ARGC \in Int /\ 2304 <= ARGC /\ ARGC <= 2599
    BY DEF ARGC
  <2>2. ram'[ARGC] = ram[ARGC]
    BY <2>1 DEF ArgumentBytesKept
  <2>3. ram[ARGC] = Len(args)
    BY <1>p DEF ArgumentsStored, ArgcStored
  <2> QED BY <1>1, <2>2, <2>3 DEF ArgcStored
<1>3. CurrentString' = CurrentString
  BY <1>1 DEF CurrentString, LastString
<1>4. CurrentStored'
  BY <1>p DEF CurrentStored
<1>5. ASSUME InPageNine, NEW n \in 1 .. arg - 1
      PROVE  StringStored(n)'
  <2>1. StringStored(n)
    <3>1. AllStored
      BY <1>p, <1>5 DEF ArgumentsStored, StringsStored
    <3> QED BY <3>1 DEF AllStored
  <2>2. /\ arg = Len(args) + 1 /\ copied = 0 /\ strptr - copied >= ARGV + 2 * Len(args)
    BY <1>p, Zenon DEF BootInv, Copying
  <2>3. /\ Len(args) \in Int /\ 1 <= Len(args) /\ Len(args) <= 255 /\ strptr \in Int
        /\ Copied(args[Len(args)]) \in Nat /\ Copied(args[Len(args)]) <= 20
    BY ArgumentTypes DEF BootInv, LoopTypes
  <2>4. strptr < 2582
    <3>1. strptr - 1 - Copied(args[Len(args)]) < 2560
      BY <1>5 DEF InPageNine, CurrentString, LastString
    <3> QED BY <2>3, <3>1
  <2>5. n \in Int /\ 1 <= n /\ n <= Len(args)
    BY <2>2, <2>3
  <2>6. /\ ARGV + 2 * n - 2 \in 2304 .. 2599 /\ ARGV + 2 * n - 1 \in 2304 .. 2599
    BY <2>2, <2>3, <2>4, <2>5 DEF ARGV
  <2>7. \A x \in Int : ARGV + 2 * Len(args) <= x /\ x < strptr - copied => ram'[x] = ram[x]
    <3>1. \A x \in Int : ARGV + 2 * Len(args) <= x /\ x < strptr - copied
                           => 2304 <= x /\ x <= 2599
      BY <2>2, <2>3, <2>4 DEF ARGV
    <3> QED BY <3>1 DEF ArgumentBytesKept
  <2>8. /\ ram'[ARGV + 2 * n - 2] = ram[ARGV + 2 * n - 2]
        /\ ram'[ARGV + 2 * n - 1] = ram[ARGV + 2 * n - 1]
    BY <2>6 DEF ArgumentBytesKept
  <2>9. /\ args' = args /\ strptr' \in Int /\ copied' \in Int
        /\ strptr - copied <= strptr' - copied'
    <3>1. copied \in Int
      BY <2>2
    <3>2. strptr - copied <= strptr - copied
      BY <2>3, <3>1
    <3> QED BY <1>1, <2>3, <3>1, <3>2
  <2> QED BY <2>1, <2>5, <2>7, <2>8, <2>9, StringStays
<1>6. StringsStored'
  <2>1. ASSUME InPageNine' PROVE AllStored'
    <3>1. InPageNine
      BY <1>3, <2>1 DEF InPageNine
    <3> QED BY <1>1, <1>5, <3>1 DEF AllStored
  <2> QED BY <2>1 DEF StringsStored
<1> QED BY <1>2, <1>4, <1>6 DEF ArgumentsStored

\* Where main is while it stores the arguments.
LEMMA WhileStoring ==
  ASSUME BootInv, phase \in Storing, phase # "load"
  PROVE  /\ Len(args) \in Int /\ 1 <= Len(args) /\ Len(args) <= 255
         /\ arg \in Int /\ 1 <= arg /\ arg <= Len(args)
         /\ copied \in Int /\ 0 <= copied /\ copied <= 20
         /\ strptr \in Int /\ strptr - copied >= 2305 + 2 * Len(args)
         /\ CurrentString = strptr - copied
<1>1. /\ Len(args) \in Int /\ 1 <= Len(args) /\ Len(args) <= 255
      /\ arg \in Int /\ 1 <= arg
      /\ copied \in Int /\ 0 <= copied /\ copied <= 20
      /\ strptr \in Int
  BY ArgumentTypes DEF BootInv, LoopTypes
<1>2. arg <= Len(args) /\ strptr - copied >= ARGV + 2 * Len(args)
  BY Zenon DEF BootInv, Copying
<1>3. CurrentString = strptr - copied
  BY DEF CurrentString
<1> QED BY <1>1, <1>2, <1>3 DEF ARGV

\* A store to the pointer of the current argument, or behind the strings before
\* its own, leaves those as they are, and argc.
LEMMA EarlierStringsStay ==
  ASSUME BootInv, ArgumentsStored, phase \in Storing, phase # "load", InPageNine,
         args' = args, strptr' \in Int, copied' \in Int,
         strptr - copied <= strptr' - copied',
         NEW a \in Int, a < 40960, NEW v, MemWrite(a, v),
         \/ a = ARGV + 2 * arg - 2
         \/ a = ARGV + 2 * arg - 1
         \/ strptr - copied <= a
  PROVE  AllStored => \A n \in 1 .. arg - 1 : StringStored(n)'
<1>1. /\ Len(args) \in Int /\ 1 <= Len(args) /\ Len(args) <= 255
      /\ arg \in Int /\ 1 <= arg /\ arg <= Len(args)
      /\ copied \in Int /\ 0 <= copied /\ copied <= 20
      /\ strptr \in Int /\ strptr - copied >= 2305 + 2 * Len(args)
      /\ strptr - copied < 2560
  BY WhileStoring DEF InPageNine
<1>2. a >= 2305 + 2 * arg - 2
  BY <1>1 DEF ARGV
<1>3. \A x \in Int : 2304 <= x /\ x <= 2599 /\ x # a => ram'[x] = ram[x]
  BY <1>1, <1>2, StoreAmongArguments DEF BootInv
<1> SUFFICES ASSUME NEW n \in 1 .. arg - 1, AllStored
             PROVE  StringStored(n)'
  OBVIOUS
<1>4. n \in Int /\ 1 <= n /\ n <= arg - 1 /\ n <= Len(args)
  BY <1>1
<1>5. StringStored(n)
  BY DEF AllStored
<1>6. /\ ram'[ARGV + 2 * n - 2] = ram[ARGV + 2 * n - 2]
      /\ ram'[ARGV + 2 * n - 1] = ram[ARGV + 2 * n - 1]
  <2>1. /\ 2305 + 2 * n - 2 \in Int /\ 2304 <= 2305 + 2 * n - 2 /\ 2305 + 2 * n - 2 <= 2599
        /\ 2305 + 2 * n - 2 # a
    BY <1>1, <1>2, <1>4
  <2>2. /\ 2305 + 2 * n - 1 \in Int /\ 2304 <= 2305 + 2 * n - 1 /\ 2305 + 2 * n - 1 <= 2599
        /\ 2305 + 2 * n - 1 # a
    BY <1>1, <1>2, <1>4
  <2> QED BY <1>3, <2>1, <2>2 DEF ARGV
<1>7. \A x \in Int : ARGV + 2 * Len(args) <= x /\ x < strptr - copied => ram'[x] = ram[x]
  <2> SUFFICES ASSUME NEW x \in Int, 2305 + 2 * Len(args) <= x, x < strptr - copied
               PROVE  ram'[x] = ram[x]
    BY DEF ARGV
  <2>1. 2304 <= x /\ x <= 2599 /\ x # a
    BY <1>1 DEF ARGV
  <2> QED BY <1>3, <2>1
<1> QED BY <1>4, <1>5, <1>6, <1>7, StringStays

\* argc stays.
LEMMA ArgcStays ==
  ASSUME MemoryOK, NEW a \in Int, ARGV <= a, a < 40960, NEW v, MemWrite(a, v)
  PROVE  ram'[ARGC] = ram[ARGC]
<1>1. 0 <= a /\ ARGC \in Int /\ 2304 <= ARGC /\ ARGC <= 2599 /\ ARGC # a
  BY DEF ARGC, ARGV
<1> QED BY <1>1, StoreAmongArguments
\* The low byte of the pointer: the string will start where main is.
LEMMA PointerLowKeeps ==
  ASSUME BootInv, ArgumentsStored, StorePointerLow
  PROVE  ArgumentsStored'
<1>1. /\ args' = args /\ arg' = arg /\ copied' = copied /\ strptr' = strptr
      /\ MemWrite(ARGV + 2 * (arg - 1), strptr % 256)
  BY DEF StorePointerLow, mainVars, argVars
<1>p. /\ phase = "pointer low" /\ phase' = "pointer high"
      /\ phase \in Storing /\ phase' \in Storing /\ phase # "load" /\ phase # "string"
  BY DEF StorePointerLow, Storing
<1>2. /\ Len(args) \in Int /\ 1 <= Len(args) /\ Len(args) <= 255
      /\ arg \in Int /\ 1 <= arg /\ arg <= Len(args)
      /\ copied \in Int /\ 0 <= copied /\ copied <= 20
      /\ strptr \in Int /\ strptr - copied >= 2305 + 2 * Len(args)
      /\ CurrentString = strptr - copied
  BY <1>p, WhileStoring
<1>3. copied = 0
  BY <1>p, Zenon DEF BootInv, Copying
<1>4. CurrentString' = CurrentString
  <2>1. CurrentString' = strptr' - copied'
    BY <1>p DEF CurrentString
  <2> QED BY <1>1, <1>2, <2>1
<1> DEFINE a == ARGV + 2 * (arg - 1)
<1>5. a \in Int /\ ARGV <= a /\ a < 40960 /\ a = ARGV + 2 * arg - 2
  BY <1>2 DEF ARGV
<1> HIDE DEF a
<1>6. MemWrite(a, strptr % 256)
  BY <1>1 DEF a
<1>7. ArgcStored'
  <2>1. ram[ARGC] = Len(args)
    BY <1>p DEF ArgumentsStored, ArgcStored
  <2>2. ram'[ARGC] = ram[ARGC]
    BY <1>5, <1>6, ArgcStays DEF BootInv
  <2> QED BY <1>1, <2>1, <2>2 DEF ArgcStored
<1>8. ASSUME InPageNine
      PROVE  AllStored' /\ LowStored'
  <2>1. AllStored
    BY <1>p, <1>8 DEF ArgumentsStored, StringsStored
  <2>2. \A n \in 1 .. arg - 1 : StringStored(n)'
    <3>1. strptr - copied <= strptr' - copied' /\ strptr' \in Int /\ copied' \in Int
      BY <1>1, <1>2
    <3>2. \/ a = ARGV + 2 * arg - 2
          \/ a = ARGV + 2 * arg - 1
          \/ strptr - copied <= a
      BY <1>5
    <3>3. a \in Int /\ a < 40960
      BY <1>5
    <3>4. args' = args /\ phase \in Storing /\ phase # "load"
      BY <1>1, <1>p
    <3> QED BY <1>6, <1>8, <2>1, <3>1, <3>2, <3>3, <3>4, EarlierStringsStay
  <2>3. strptr < 2560 /\ strptr >= 2307 /\ CurrentString = strptr
    BY <1>2, <1>3, <1>8 DEF InPageNine
  <2>4. strptr % 256 = strptr - 2304
    BY <1>2, <2>3
  <2>5. 0 <= a /\ 2304 <= a /\ a <= 2599
    BY <1>2, <1>3, <1>5, <2>3 DEF ARGV
  <2>6. ram'[a] = strptr % 256
    BY <1>5, <1>6, <2>5, StoreAmongArguments DEF BootInv
  <2>7. LowStored'
    BY <1>1, <1>4, <1>5, <2>3, <2>4, <2>6 DEF LowStored
  <2> QED BY <1>1, <2>2, <2>7 DEF AllStored
<1>9. InPageNine' => InPageNine
  BY <1>4 DEF InPageNine
<1> QED BY <1>p, <1>7, <1>8, <1>9 DEF ArgumentsStored, StringsStored, CurrentStored

\* The high byte.
LEMMA PointerHighKeeps ==
  ASSUME BootInv, ArgumentsStored, StorePointerHigh
  PROVE  ArgumentsStored'
<1>1. /\ args' = args /\ arg' = arg /\ copied' = copied /\ strptr' = strptr
      /\ MemWrite(ARGV + 2 * (arg - 1) + 1, 9)
  BY DEF StorePointerHigh, mainVars, argVars
<1>p. /\ phase = "pointer high" /\ phase' = "string"
      /\ phase \in Storing /\ phase' \in Storing /\ phase # "load" /\ phase # "string"
      /\ phase' # "load"
  BY DEF StorePointerHigh, Storing
<1>2. /\ Len(args) \in Int /\ 1 <= Len(args) /\ Len(args) <= 255
      /\ arg \in Int /\ 1 <= arg /\ arg <= Len(args)
      /\ copied \in Int /\ 0 <= copied /\ copied <= 20
      /\ strptr \in Int /\ strptr - copied >= 2305 + 2 * Len(args)
      /\ CurrentString = strptr - copied
  BY <1>p, WhileStoring
<1>3. copied = 0
  BY <1>p, Zenon DEF BootInv, Copying
<1>4. CurrentString' = CurrentString
  <2>1. CurrentString' = strptr' - copied'
    BY <1>p DEF CurrentString
  <2> QED BY <1>1, <1>2, <2>1
<1> DEFINE a == ARGV + 2 * (arg - 1) + 1
<1>5. a \in Int /\ ARGV <= a /\ a < 40960 /\ a = ARGV + 2 * arg - 1
  BY <1>2 DEF ARGV
<1> HIDE DEF a
<1>6. MemWrite(a, 9)
  BY <1>1 DEF a
<1>7. ArgcStored'
  <2>1. ram[ARGC] = Len(args)
    BY <1>p DEF ArgumentsStored, ArgcStored
  <2>2. ram'[ARGC] = ram[ARGC]
    BY <1>5, <1>6, ArgcStays DEF BootInv
  <2> QED BY <1>1, <2>1, <2>2 DEF ArgcStored
<1>8. ASSUME InPageNine
      PROVE  AllStored' /\ LowStored' /\ HighStored' /\ CharsStored'
  <2>1. AllStored /\ LowStored
    BY <1>p, <1>8 DEF ArgumentsStored, StringsStored, CurrentStored
  <2>2. \A n \in 1 .. arg - 1 : StringStored(n)'
    <3>1. strptr - copied <= strptr' - copied' /\ strptr' \in Int /\ copied' \in Int
      BY <1>1, <1>2
    <3>2. \/ a = ARGV + 2 * arg - 2
          \/ a = ARGV + 2 * arg - 1
          \/ strptr - copied <= a
      BY <1>5
    <3>3. a \in Int /\ a < 40960
      BY <1>5
    <3>4. args' = args /\ phase \in Storing /\ phase # "load"
      BY <1>1, <1>p
    <3> QED BY <1>6, <1>8, <2>1, <3>1, <3>2, <3>3, <3>4, EarlierStringsStay
  <2>3. strptr < 2560
    BY <1>2, <1>3, <1>8 DEF InPageNine
  <2>5. 0 <= a /\ 2304 <= a /\ a <= 2599
    BY <1>2, <1>3, <1>5, <2>3 DEF ARGV
  <2>6. /\ ram'[a] = 9
        /\ \A x \in Int : 2304 <= x /\ x <= 2599 /\ x # a => ram'[x] = ram[x]
    BY <1>5, <1>6, <2>5, StoreAmongArguments DEF BootInv
  <2>7. HighStored'
    BY <1>1, <1>5, <2>6 DEF HighStored
  <2>8. LowStored'
    <3>1. /\ ARGV + 2 * arg - 2 \in Int /\ ARGV + 2 * arg - 2 # a
          /\ 2304 <= ARGV + 2 * arg - 2 /\ ARGV + 2 * arg - 2 <= 2599
      BY <1>2, <1>5, <2>5 DEF ARGV
    <3>2. ram'[ARGV + 2 * arg - 2] = ram[ARGV + 2 * arg - 2]
      BY <2>6, <3>1
    <3> QED BY <1>1, <1>4, <2>1, <3>2 DEF LowStored
  <2>9. CharsStored'
    BY <1>1, <1>3 DEF CharsStored
  <2> QED BY <1>1, <2>2, <2>7, <2>8, <2>9 DEF AllStored
<1>9. InPageNine' => InPageNine
  BY <1>4 DEF InPageNine
<1> QED BY <1>p, <1>7, <1>8, <1>9 DEF ArgumentsStored, StringsStored, CurrentStored

\* A character.
LEMMA CharKeeps ==
  ASSUME BootInv, ArgumentsStored, StoreChar
  PROVE  ArgumentsStored'
<1>1. /\ args' = args /\ arg' = arg /\ copied' = copied + 1 /\ strptr' = strptr + 1
      /\ MemWrite(strptr, args[arg][copied + 1])
  BY DEF StoreChar
<1>p. /\ phase = "string" /\ phase' = "string"
      /\ phase \in Storing /\ phase' \in Storing /\ phase # "load" /\ phase' # "load"
  BY DEF StoreChar, Storing
<1>2. /\ Len(args) \in Int /\ 1 <= Len(args) /\ Len(args) <= 255
      /\ arg \in Int /\ 1 <= arg /\ arg <= Len(args)
      /\ copied \in Int /\ 0 <= copied /\ copied <= 20
      /\ strptr \in Int /\ strptr - copied >= 2305 + 2 * Len(args)
      /\ CurrentString = strptr - copied
  BY <1>p, WhileStoring
<1>4. CurrentString' = CurrentString
  <2>1. CurrentString' = strptr' - copied'
    BY <1>p DEF CurrentString
  <2> QED BY <1>1, <1>2, <2>1
<1>5. ARGV <= strptr /\ strptr < 40960 /\ strptr - copied <= strptr
  BY <1>2, LoopsBound DEF ARGV, BootInv
<1>7. ArgcStored'
  <2>1. ram[ARGC] = Len(args)
    BY <1>p DEF ArgumentsStored, ArgcStored
  <2>2. ram'[ARGC] = ram[ARGC]
    BY <1>1, <1>2, <1>5, ArgcStays DEF BootInv
  <2> QED BY <1>1, <2>1, <2>2 DEF ArgcStored
<1>8. ASSUME InPageNine
      PROVE  AllStored' /\ LowStored' /\ HighStored' /\ CharsStored'
  <2>1. AllStored /\ LowStored /\ HighStored /\ CharsStored
    BY <1>p, <1>8 DEF ArgumentsStored, StringsStored, CurrentStored
  <2>2. \A n \in 1 .. arg - 1 : StringStored(n)'
    <3>1. strptr - copied <= strptr' - copied' /\ strptr' \in Int /\ copied' \in Int
      BY <1>1, <1>2
    <3> QED BY <1>1, <1>2, <1>p, <1>5, <1>8, <2>1, <3>1, EarlierStringsStay
  <2>3. /\ 0 <= strptr /\ 2304 <= strptr /\ strptr <= 2599
        /\ strptr - copied < 2560
    BY <1>2, <1>8 DEF InPageNine
  <2>6. /\ ram'[strptr] = args[arg][copied + 1]
        /\ \A x \in Int : 2304 <= x /\ x <= 2599 /\ x # strptr => ram'[x] = ram[x]
    BY <1>1, <1>2, <1>5, <2>3, StoreAmongArguments DEF BootInv
  <2>7. HighStored'
    <3>1. /\ ARGV + 2 * arg - 1 \in Int /\ ARGV + 2 * arg - 1 # strptr
          /\ 2304 <= ARGV + 2 * arg - 1 /\ ARGV + 2 * arg - 1 <= 2599
      BY <1>2, <2>3 DEF ARGV
    <3>2. ram'[ARGV + 2 * arg - 1] = ram[ARGV + 2 * arg - 1]
      BY <2>6, <3>1
    <3> QED BY <1>1, <2>1, <3>2 DEF HighStored
  <2>8. LowStored'
    <3>1. /\ ARGV + 2 * arg - 2 \in Int /\ ARGV + 2 * arg - 2 # strptr
          /\ 2304 <= ARGV + 2 * arg - 2 /\ ARGV + 2 * arg - 2 <= 2599
      BY <1>2, <2>3 DEF ARGV
    <3>2. ram'[ARGV + 2 * arg - 2] = ram[ARGV + 2 * arg - 2]
      BY <2>6, <3>1
    <3> QED BY <1>1, <1>4, <2>1, <3>2 DEF LowStored
  <2>9. ASSUME NEW k \in 1 .. copied + 1
        PROVE  ram'[CurrentString + k - 1] = args[arg][k]
    <3>1. CASE k = copied + 1
      <4>1. CurrentString + k - 1 = strptr
        BY <1>2, <3>1
      <4> QED BY <2>6, <3>1, <4>1
    <3>2. CASE k # copied + 1
      <4>1. k \in 1 .. copied
        BY <1>2, <3>2
      <4>2. /\ CurrentString + k - 1 \in Int /\ CurrentString + k - 1 # strptr
            /\ 2304 <= CurrentString + k - 1 /\ CurrentString + k - 1 <= 2599
        BY <1>2, <2>3, <4>1
      <4>3. ram[CurrentString + k - 1] = args[arg][k]
        BY <2>1, <4>1 DEF CharsStored
      <4> QED BY <2>6, <4>2, <4>3
    <3> QED BY <3>1, <3>2
  <2>10. CharsStored'
    BY <1>1, <1>4, <2>9 DEF CharsStored
  <2> QED BY <1>1, <2>2, <2>7, <2>8, <2>10 DEF AllStored
<1>9. InPageNine' => InPageNine
  BY <1>4 DEF InPageNine
<1> QED BY <1>p, <1>7, <1>8, <1>9 DEF ArgumentsStored, StringsStored, CurrentStored
\* The zero behind a string, which now is one of those that are stored.
LEMMA EndKeeps ==
  ASSUME BootInv, ArgumentsStored, StoreEnd
  PROVE  ArgumentsStored'
<1>1. args' = args /\ arg' = arg + 1 /\ copied' = 0 /\ strptr' = strptr + 1
  BY DEF StoreEnd
<1>w. MemWrite(strptr, 0) /\ copied = Copied(args[arg])
  BY DEF StoreEnd
<1>p. /\ phase = "string" /\ phase \in Storing /\ phase # "load"
      /\ phase' = IF arg = Len(args) THEN "stopped" ELSE "pointer low"
  BY DEF StoreEnd, Storing
<1>q. phase' # "load" /\ phase' # "pointer high" /\ phase' # "string"
  BY <1>p
<1>2. /\ Len(args) \in Int /\ 1 <= Len(args) /\ Len(args) <= 255
      /\ arg \in Int /\ 1 <= arg /\ arg <= Len(args)
      /\ copied \in Int /\ 0 <= copied /\ copied <= 20
      /\ strptr \in Int /\ strptr - copied >= 2305 + 2 * Len(args)
      /\ CurrentString = strptr - copied
  BY <1>p, WhileStoring
<1>3. CurrentString' \in Int /\ CurrentString <= CurrentString'
  <2>1. CASE arg = Len(args)
    <3>1. phase' \notin Storing
      BY <1>p, <2>1 DEF Storing
    <3> DEFINE size == Copied(args'[Len(args')])
    <3>2. CurrentString' = strptr' - 1 - size
      BY <3>1 DEF CurrentString, LastString
    <3>3. args'[Len(args')] = args[arg]
      BY <1>1, <2>1
    <3>a. size = copied
      BY <1>w, <3>3
    <3> HIDE DEF size
    <3>b. strptr' = strptr + 1
      BY <1>1
    <3>4. CurrentString' = strptr + 1 - 1 - copied
      BY <1>2, <3>2, <3>a, <3>b
    <3> QED BY <1>2, <3>4
  <2>2. CASE arg # Len(args)
    <3>1. phase' \in Storing
      BY <1>p, <2>2 DEF Storing
    <3>2. CurrentString' = strptr' - copied'
      BY <3>1 DEF CurrentString
    <3> QED BY <1>1, <1>2, <3>2
  <2> QED BY <2>1, <2>2
<1>5. ARGV <= strptr /\ strptr < 40960 /\ strptr - copied <= strptr
  BY <1>2, LoopsBound DEF ARGV, BootInv
<1>7. ArgcStored'
  <2>1. ram[ARGC] = Len(args)
    BY <1>p DEF ArgumentsStored, ArgcStored
  <2>2. ram'[ARGC] = ram[ARGC]
    BY <1>w, <1>2, <1>5, ArgcStays DEF BootInv
  <2> QED BY <1>1, <2>1, <2>2 DEF ArgcStored
<1>8. ASSUME InPageNine
      PROVE  AllStored'
  <2>1. AllStored /\ LowStored /\ HighStored /\ CharsStored
    BY <1>p, <1>8 DEF ArgumentsStored, StringsStored, CurrentStored
  <2>0. strptr - copied <= strptr' - copied' /\ strptr' \in Int /\ copied' \in Int
        /\ strptr < strptr' - copied'
    BY <1>1, <1>2
  <2>2. \A n \in 1 .. arg - 1 : StringStored(n)'
    <3>1. args' = args /\ MemWrite(strptr, 0) /\ strptr \in Int /\ strptr < 40960
      BY <1>1, <1>w, <1>2, <1>5
    <3>2. strptr - copied <= strptr
      BY <1>5
    <3>3. phase \in Storing /\ phase # "load"
      BY <1>p
    <3>4. strptr - copied <= strptr' - copied' /\ strptr' \in Int /\ copied' \in Int
      BY <2>0
    <3> QED BY <1>8, <2>1, <3>1, <3>2, <3>3, <3>4, EarlierStringsStay
  <2>3. /\ 0 <= strptr /\ 2304 <= strptr /\ strptr <= 2599
        /\ strptr - copied < 2560
    BY <1>2, <1>8 DEF InPageNine
  <2>6. /\ ram'[strptr] = 0
        /\ \A x \in Int : 2304 <= x /\ x <= 2599 /\ x # strptr => ram'[x] = ram[x]
    BY <1>w, <1>2, <1>5, <2>3, StoreAmongArguments DEF BootInv
  <2>7. ram'[ARGV + 2 * arg - 1] = 9
    <3>1. /\ ARGV + 2 * arg - 1 \in Int /\ ARGV + 2 * arg - 1 # strptr
          /\ 2304 <= ARGV + 2 * arg - 1 /\ ARGV + 2 * arg - 1 <= 2599
      BY <1>2, <2>3 DEF ARGV
    <3>2. ram'[ARGV + 2 * arg - 1] = ram[ARGV + 2 * arg - 1]
      BY <2>6, <3>1
    <3> QED BY <2>1, <3>2 DEF HighStored
  <2>8. ram'[ARGV + 2 * arg - 2] = CurrentString - 2304
    <3>1. /\ ARGV + 2 * arg - 2 \in Int /\ ARGV + 2 * arg - 2 # strptr
          /\ 2304 <= ARGV + 2 * arg - 2 /\ ARGV + 2 * arg - 2 <= 2599
      BY <1>2, <2>3 DEF ARGV
    <3>2. ram'[ARGV + 2 * arg - 2] = ram[ARGV + 2 * arg - 2]
      BY <2>6, <3>1
    <3> QED BY <2>1, <3>2 DEF LowStored
  <2>9. ASSUME NEW k \in 1 .. copied
        PROVE  ram'[CurrentString + k - 1] = args[arg][k]
    <3>2. /\ CurrentString + k - 1 \in Int /\ CurrentString + k - 1 # strptr
          /\ 2304 <= CurrentString + k - 1 /\ CurrentString + k - 1 <= 2599
      BY <1>2, <2>3
    <3>3. ram[CurrentString + k - 1] = args[arg][k]
      BY <2>1 DEF CharsStored
    <3> QED BY <2>6, <3>2, <3>3
  <2>10. ASSUME NEW n \in Int, n = arg
         PROVE  StringStored(n)'
    <3> DEFINE start == 2304 + ram'[ARGV + 2 * n - 2]
               size  == Copied(args[n])
    <3>1. start = CurrentString /\ size = copied
      BY <1>2, <1>w, <2>8, <2>10
    <3>2. ram'[ARGV + 2 * n - 2] \in ByteValues /\ ram'[ARGV + 2 * n - 1] = 9
      <4>1. CurrentString - 2304 \in Int /\ 0 <= CurrentString - 2304 /\ CurrentString - 2304 <= 255
        BY <1>2, <2>3
      <4> QED BY <2>7, <2>8, <2>10, <4>1, ByteBounds
    <3> HIDE DEF start, size
    <3>3. start + size = strptr
      BY <1>2, <3>1
    <3>4. start >= ARGV + 2 * Len(args)
      BY <1>2, <3>1 DEF ARGV
    <3>5. \A k \in 1 .. size : ram'[start + k - 1] = args[n][k]
      BY <2>9, <2>10, <3>1
    <3>6. ram'[start + size] = 0
      BY <2>6, <3>3
    <3>7. start + size < strptr' - copied'
      BY <2>0, <3>3
    <3>8. args' = args
      BY <1>1
    <3> QED BY <3>2, <3>4, <3>5, <3>6, <3>7, <3>8 DEF StringStored, start, size
  <2>11. ASSUME NEW n \in 1 .. arg
         PROVE  StringStored(n)'
    <3>1. n = arg \/ n \in 1 .. arg - 1
      BY <1>2
    <3> QED BY <1>2, <2>2, <2>10, <3>1
  <2>12. 1 .. arg' - 1 = 1 .. arg
    BY <1>1, <1>2
  <2> QED BY <2>11, <2>12 DEF AllStored
<1>9. InPageNine' => InPageNine
  BY <1>2, <1>3 DEF InPageNine
<1> QED BY <1>p, <1>q, <1>7, <1>8, <1>9 DEF ArgumentsStored, StringsStored, CurrentStored

\* argc, before which nothing of the arguments is stored.
LEMMA ArgcKeeps ==
  ASSUME BootInv, StoreArgc
  PROVE  ArgumentsStored'
<1>1. args' = args /\ arg' = arg /\ MemWrite(ARGC, Len(args))
  BY DEF StoreArgc
<1>p. phase = "load" /\ phase' = "pointer low"
  BY DEF StoreArgc
<1>2. arg = 1
  BY <1>p, Zenon DEF BootInv, Loading
<1>3. ram'[ARGC] = Len(args)
  <2>1. ARGC \in Int /\ 0 <= ARGC /\ ARGC < 40960 /\ 2304 <= ARGC /\ ARGC <= 2599
    BY DEF ARGC
  <2> QED BY <1>1, <2>1, StoreAmongArguments DEF BootInv
<1>4. AllStored'
  <2>1. arg' = 1
    BY <1>1, <1>2
  <2>2. 1 .. arg' - 1 = {}
    BY <2>1
  <2> QED BY <2>2 DEF AllStored
<1>5. ArgcStored'
  BY <1>1, <1>3 DEF ArgcStored
<1>6. phase' # "pointer high" /\ phase' # "string"
  BY <1>p
<1> QED BY <1>4, <1>5, <1>6 DEF ArgumentsStored, StringsStored, CurrentStored

\* Every step keeps what is stored of the arguments.
LEMMA ArgumentsStep ==
  ASSUME BootInv, ArgumentsStored, [BootNext]_bootVars
  PROVE  ArgumentsStored'
<1>1. CASE LoadByte
  <2>1. phase' = "load"
    BY <1>1 DEF LoadByte
  <2>2. phase' # "pointer high" /\ phase' # "string"
    BY <2>1
  <2> QED BY <2>1, <2>2 DEF ArgumentsStored, ArgcStored, StringsStored, CurrentStored
<1>2. CASE StoreArgc
  BY <1>2, ArgcKeeps
<1>3. CASE StorePointerLow
  BY <1>3, PointerLowKeeps
<1>4. CASE StorePointerHigh
  BY <1>4, PointerHighKeeps
<1>5. CASE StoreChar
  BY <1>5, CharKeeps
<1>6. CASE StoreEnd
  BY <1>6, EndKeeps
<1>7. CASE reset65C02
  <2>1. /\ phase \notin Storing /\ phase' \notin Storing /\ UNCHANGED mainVars /\ ram' = ram
    BY <1>7 DEF reset65C02, Storing, vars
  <2> QED BY <2>1, ArgumentsStay DEF ArgumentBytesKept
<1>8. CASE CpuStep
  <2>1. phase \in CpuPhases /\ phase' \in CpuPhases /\ UNCHANGED mainVars
    BY <1>8, CpuSteps
  <2>2. phase \notin Storing /\ phase' \notin Storing
    BY <2>1 DEF CpuPhases
  <2>3. ArgumentBytesKept
    <3>1. CASE UNCHANGED vars
      BY <3>1 DEF ArgumentBytesKept, vars
    <3>2. ASSUME NEW v \in ByteValues, MemWrite(STACK + sp, v)
          PROVE  ArgumentBytesKept
      <4>1. sp \in Int /\ 0 <= sp /\ sp <= 255
        BY DEF BootInv, CpuTypes
      <4>2. STACK + sp \in Int /\ 0 <= STACK + sp /\ STACK + sp < 2304 /\ STACK + sp < 40960
        BY <4>1 DEF STACK
      <4>3. \A x \in Int : 2304 <= x /\ x <= 2599 /\ x # STACK + sp => ram'[x] = ram[x]
        BY <3>2, <4>2, StoreAmongArguments DEF BootInv
      <4>4. \A x \in Int : 2304 <= x => x # STACK + sp
        BY <4>2
      <4> QED BY <4>3, <4>4 DEF ArgumentBytesKept
    <3> QED BY <1>8, <3>1, <3>2, CpuSteps
  <2> QED BY <2>1, <2>2, <2>3, ArgumentsStay
<1>9. CASE UNCHANGED bootVars
  <2>1. ram' = ram /\ args' = args /\ arg' = arg /\ copied' = copied /\ strptr' = strptr
        /\ phase' = phase
    BY <1>9 DEF bootVars, mainVars, argVars, vars
  <2>2. CurrentString' = CurrentString
    BY <2>1 DEF CurrentString, LastString
  <2>3. AllStored' <=> AllStored
    <3>1. ASSUME NEW n
          PROVE  StringStored(n)' <=> StringStored(n)
      BY <2>1 DEF StringStored
    <3> QED BY <2>1, <3>1 DEF AllStored
  <2>4. InPageNine' <=> InPageNine
    BY <2>2 DEF InPageNine
  <2>5. (LowStored' <=> LowStored) /\ (HighStored' <=> HighStored) /\ (CharsStored' <=> CharsStored)
    BY <2>1, <2>2 DEF LowStored, HighStored, CharsStored
  <2>6. ArgcStored'
    BY <2>1 DEF ArgumentsStored, ArgcStored
  <2>7. StringsStored'
    BY <2>1, <2>3, <2>4 DEF ArgumentsStored, StringsStored
  <2>8. CurrentStored'
    BY <2>1, <2>4, <2>5 DEF ArgumentsStored, CurrentStored
  <2> QED BY <2>6, <2>7, <2>8 DEF ArgumentsStored
<1> QED BY <1>1, <1>2, <1>3, <1>4, <1>5, <1>6, <1>7, <1>8, <1>9 DEF BootNext, CpuStep
\* A byte of the arguments is read back.
LEMMA ReadArgument ==
  ASSUME MemoryOK, NEW x \in Int, 2304 <= x, x <= 2599
  PROVE  ByteAt(x) = ram[x]
<1>1. 0 <= x /\ x < 40960
  OBVIOUS
<1> QED BY <1>1, ArgumentCells, ByteLow

\* Where main is when it has stored the last string.
LEMMA AfterStoring ==
  ASSUME Copying, phase \notin Storing, phase # "load", phase # "string"
  PROVE  arg = Len(args) + 1 /\ copied = 0 /\ strptr - copied >= ARGV + 2 * Len(args)
BY Zenon DEF Copying

\* What is stored is what the program reads, through the pointers.
LEMMA StoredReadable ==
  ASSUME BootInv, ArgumentsStored
  PROVE  ArgumentsReadable
<1> SUFFICES ASSUME phase = "running", LastString < 2560
             PROVE  /\ ByteAt(ARGC) = Len(args)
                    /\ \A n \in DOMAIN args : Readable(n)
  BY DEF ArgumentsReadable, Started
<1>p. phase \notin Storing /\ phase # "load" /\ phase # "string"
  BY DEF Storing
<1>0. /\ args \in Seq(Seq(ByteValues \ {0}))
      /\ Len(args) \in Int /\ 1 <= Len(args) /\ Len(args) <= 255
      /\ \A n \in 1 .. Len(args) : Copied(args[n]) \in Nat /\ Copied(args[n]) <= 20
      /\ strptr \in Int
  BY ArgumentTypes DEF BootInv, LoopTypes
<1>1. /\ arg = Len(args) + 1 /\ copied = 0 /\ strptr - copied >= ARGV + 2 * Len(args)
  BY <1>p, AfterStoring DEF BootInv
<1>2. strptr < 2581 /\ strptr >= 2305 + 2 * Len(args)
  <2>1. Copied(args[Len(args)]) \in Int /\ Copied(args[Len(args)]) <= 20
    BY <1>0
  <2>2. strptr - 1 - Copied(args[Len(args)]) < 2560
    BY DEF LastString
  <2>3. strptr < 2581
    BY <1>0, <2>1, <2>2
  <2> QED BY <1>0, <1>1, <2>3 DEF ARGV
<1>3. ByteAt(ARGC) = Len(args)
  <2>1. ram[ARGC] = Len(args)
    BY <1>p DEF ArgumentsStored, ArgcStored
  <2>2. ARGC \in Int /\ 2304 <= ARGC /\ ARGC <= 2599
    BY DEF ARGC
  <2> QED BY <2>1, <2>2, ReadArgument DEF BootInv
<1>4. AllStored
  <2>1. InPageNine
    BY <1>p DEF InPageNine, CurrentString
  <2> QED BY <1>p, <2>1 DEF ArgumentsStored, StringsStored
<1>5. ASSUME NEW n \in DOMAIN args
      PROVE  Readable(n)
  <2>1. n \in 1 .. Len(args) /\ n \in Int /\ 1 <= n /\ n <= Len(args)
    BY <1>0
  <2>2. StringStored(n)
    BY <1>0, <1>1, <1>4, <2>1 DEF AllStored
  <2> DEFINE start == 2304 + ram[ARGV + 2 * n - 2]
             size  == Copied(args[n])
             pointer == ByteAt(ARGV + 2 * n - 2) + 256 * ByteAt(ARGV + 2 * n - 1)
  <2>3. /\ ram[ARGV + 2 * n - 2] \in ByteValues /\ ram[ARGV + 2 * n - 1] = 9
        /\ start >= ARGV + 2 * Len(args)
        /\ start + size < strptr - copied
        /\ \A k \in 1 .. size : ram[start + k - 1] = args[n][k]
        /\ ram[start + size] = 0
    BY <2>2 DEF StringStored
  <2>4. start \in Int /\ size \in Int /\ 0 <= size
    <3>1. ram[ARGV + 2 * n - 2] \in Int
      BY <2>3, ByteBounds
    <3>2. size \in Int /\ 0 <= size
      BY <1>0, <2>1
    <3> QED BY <3>1, <3>2
  <2>n. 2 * n \in Int /\ 2 <= 2 * n /\ 2 * n < 276
    <3>1. Len(args) < 138
      BY <1>0, <1>2
    <3> QED BY <1>0, <2>1, <3>1
  <2>5. pointer = start
    <3>1. ByteAt(ARGV + 2 * n - 2) = ram[ARGV + 2 * n - 2]
      <4>1. /\ 2305 + 2 * n - 2 \in Int
            /\ 2304 <= 2305 + 2 * n - 2 /\ 2305 + 2 * n - 2 <= 2599
        BY <2>n
      <4> QED BY <4>1, ReadArgument DEF ARGV, BootInv
    <3>2. ByteAt(ARGV + 2 * n - 1) = ram[ARGV + 2 * n - 1]
      <4>1. /\ 2305 + 2 * n - 1 \in Int
            /\ 2304 <= 2305 + 2 * n - 1 /\ 2305 + 2 * n - 1 <= 2599
        BY <2>n
      <4> QED BY <4>1, ReadArgument DEF ARGV, BootInv
    <3>3. ram[ARGV + 2 * n - 2] \in Int
      BY <2>3, ByteBounds
    <3> QED BY <2>3, <3>1, <3>2, <3>3
  <2>6. size = IF Len(args[n]) < 20 THEN Len(args[n]) ELSE 20
    <3>1. Len(args[n]) \in Nat
      BY <1>0, <2>1
    <3> QED BY <3>1 DEF Copied
  <2> HIDE DEF start, size, pointer
  <2>7. start >= 2307 /\ start + size < 2581
    BY <1>0, <1>1, <1>2, <2>3, <2>4 DEF ARGV
  <2>8. ASSUME NEW k \in 1 .. size
        PROVE  ByteAt(pointer + k - 1) = args[n][k]
    <3>1. start + k - 1 \in Int /\ 2304 <= start + k - 1 /\ start + k - 1 <= 2599
      BY <2>4, <2>7
    <3>2. ByteAt(start + k - 1) = ram[start + k - 1]
      BY <3>1, ReadArgument DEF BootInv
    <3> QED BY <2>3, <2>5, <3>2
  <2>9. ByteAt(pointer + size) = 0
    <3>1. start + size \in Int /\ 2304 <= start + size /\ start + size <= 2599
      BY <2>4, <2>7
    <3>2. ByteAt(start + size) = ram[start + size]
      BY <3>1, ReadArgument DEF BootInv
    <3> QED BY <2>3, <2>5, <3>2
  <2> QED BY <2>6, <2>8, <2>9 DEF Readable, pointer, size
<1> QED BY <1>3, <1>5
-----------------------------------------------------------------------------
(***************************************************************************)
(* The program, when the loader's count was zero and there was room.       *)
(***************************************************************************)
FileFits == count0 = 0 /\ ENTRY + Len(File) <= 61440

BankZero == himem1_page = 0 /\ himem2_page = 0 /\ io_read_top_handler[15] = "none"

VectorsStored == /\ ram[PinnedCell(RESET_VECTOR)] = 0
                 /\ ram[PinnedCell(RESET_VECTOR + 1)] = 0
                 /\ ram[PinnedCell(IRQ_VECTOR)] = 0
                 /\ ram[PinnedCell(IRQ_VECTOR + 1)] = 16

FileCell(n) == MemBase(ENTRY + n - 1, 0, 0)

Loaded == \A n \in 1 .. count : ram[FileCell(n)] = File[n]

\* The program is whole as long as the strings have not come up to it.
FileStored == strptr <= ENTRY => Loaded

\* The processor stays at address 0 until it is at the program.
AtZero == pc = 0
AtEntry == pc = ENTRY
OnItsWay == /\ phase \notin Ended => AtZero
            /\ phase = "running" => AtEntry

ProgramStored == FileFits => BankZero /\ VectorsStored /\ FileStored /\ OnItsWay

\* The loader stops when it has stored the file.
LEMMA FullyLoaded ==
  ASSUME Loading, phase # "load"
  PROVE  count - count0 = Len(File)
BY Zenon DEF Loading

\* Each byte of the program has a cell of its own.
LEMMA FileCells ==
  ASSUME FileFits, NEW n \in 1 .. Len(File)
  PROVE  /\ FileCell(n) \in Int /\ 4096 <= FileCell(n) /\ FileCell(n) < Above + 61440
         /\ FileCell(n) \in Cells
         /\ ENTRY + n - 1 \in Int /\ 4096 <= ENTRY + n - 1 /\ ENTRY + n - 1 < 61440
         /\ \A m \in 1 .. Len(File) : FileCell(m) = FileCell(n) => m = n
<1>1. Len(File) \in Nat /\ 4096 + Len(File) <= 61440
  BY FileBytes DEF FileFits, ENTRY
<1>2. ASSUME NEW m \in 1 .. Len(File)
      PROVE  \/ ENTRY + m - 1 < 49152 /\ FileCell(m) = ENTRY + m - 1
             \/ ENTRY + m - 1 >= 49152 /\ FileCell(m) = ENTRY + m - 1 + Above
  <2>1. ENTRY + m - 1 \in Int /\ 0 <= ENTRY + m - 1 /\ ENTRY + m - 1 < 65536
    BY <1>1 DEF ENTRY
  <2> QED BY <2>1, CellsInBankZero DEF FileCell
<1>3. ENTRY + n - 1 \in Int /\ 4096 <= ENTRY + n - 1 /\ ENTRY + n - 1 < 61440
  BY <1>1 DEF ENTRY
<1>4. FileCell(n) \in Int /\ 4096 <= FileCell(n) /\ FileCell(n) < Above + 61440
  BY <1>2, <1>3, AboveIsInt
<1>5. FileCell(n) \in Cells
  <2>1. ENTRY + n - 1 \in ENTRY .. ENTRY + Len(File) - 1
    BY <1>1 DEF ENTRY
  <2>2. ENTRY + n - 1 \in Addresses
    BY <2>1, ReadAssumption
  <2> QED BY <2>2, AddressHasCell DEF FileCell
<1>6. ASSUME NEW m \in 1 .. Len(File), FileCell(m) = FileCell(n)
      PROVE  m = n
  BY <1>1, <1>2, <1>6, AboveIsInt DEF ENTRY
<1> QED BY <1>3, <1>4, <1>5, <1>6

\* The vectors are above every byte of the program.
LEMMA VectorCells ==
  /\ PinnedCell(RESET_VECTOR) = Above + 65532
  /\ PinnedCell(RESET_VECTOR + 1) = Above + 65533
  /\ PinnedCell(IRQ_VECTOR) = Above + 65534
  /\ PinnedCell(IRQ_VECTOR + 1) = Above + 65535
<1>1. ASSUME NEW a \in Int
      PROVE  PinnedCell(a) = Above + a
  BY CellForms, SMT DEF PinnedCell, Above
<1> QED BY <1>1 DEF RESET_VECTOR, IRQ_VECTOR


\* A store below the banks keeps the banks and the vectors.
LEMMA VectorsStay ==
  ASSUME BankZero, VectorsStored, NEW a \in Int, 0 <= a, a < 40960, NEW v, MemWrite(a, v)
  PROVE  BankZero' /\ VectorsStored'
<1>1. ram' = [ram EXCEPT ![a] = v] /\ UNCHANGED <<pages, handlers>>
  BY StoreLow
<1>2. BankZero'
  BY <1>1 DEF BankZero, pages, handlers
<1>3. VectorsStored'
  BY <1>1, VectorCells, AboveIsInt DEF VectorsStored
<1> QED BY <1>2, <1>3

\* One below the program keeps the program.
LEMMA LoadedStays ==
  ASSUME FileFits, Loaded, count' = count, count \in Int, count <= Len(File),
         NEW a \in Int, 0 <= a, a < 4096, NEW v, MemWrite(a, v)
  PROVE  Loaded'
<1>1. ram' = [ram EXCEPT ![a] = v]
  <2>1. a < 40960
    OBVIOUS
  <2> QED BY <2>1, StoreLow
<1>2. ASSUME NEW n \in 1 .. count
      PROVE  ram'[FileCell(n)] = File[n]
  <2>1. n \in 1 .. Len(File)
    BY FileBytes
  <2>2. FileCell(n) \in Int /\ FileCell(n) # a
    BY <2>1, FileCells
  <2>3. ram[FileCell(n)] = File[n]
    BY DEF Loaded
  <2> QED BY <1>1, <2>2, <2>3
<1> QED BY <1>2 DEF Loaded

\* The loader, which stores a byte where the next one of the program goes.
LEMMA LoaderStores ==
  ASSUME BootInv, FileFits, BankZero, VectorsStored, Loaded, LoadByte
  PROVE  BankZero' /\ VectorsStored' /\ Loaded'
<1>1. /\ count < Len(File) /\ count' = count + 1
      /\ MemWrite(LoadAddress, File[count + 1])
  <2>1. count - count0 < Len(File) /\ count' = count + 1
        /\ MemWrite(LoadAddress, File[count - count0 + 1])
    BY DEF LoadByte
  <2>2. count0 = 0 /\ count \in Int
    BY DEF FileFits, BootInv, LoopTypes
  <2>3. count - count0 = count
    BY <2>2
  <2> QED BY <2>1, <2>3
<1>2. count \in Int /\ 0 <= count /\ Len(File) \in Nat
  <2>1. phase = "load" => 0 <= count - count0
    BY Zenon DEF BootInv, Loading
  <2>2. phase = "load"
    BY DEF LoadByte
  <2>3. count0 = 0 /\ count \in Int
    BY DEF FileFits, BootInv, LoopTypes
  <2>4. 0 <= count - count0
    BY <2>1, <2>2
  <2> QED BY <2>3, <2>4, FileBytes
<1>3. count + 1 \in 1 .. Len(File)
  BY <1>1, <1>2
<1>4. /\ ENTRY + count \in Int /\ 4096 <= ENTRY + count /\ ENTRY + count < 61440
      /\ FileCell(count + 1) = MemBase(ENTRY + count, 0, 0)
      /\ FileCell(count + 1) < Above + 61440 /\ FileCell(count + 1) \in Int
  <2>1. ENTRY + (count + 1) - 1 = ENTRY + count
    BY <1>2 DEF ENTRY
  <2>2. /\ ENTRY + (count + 1) - 1 \in Int
        /\ 4096 <= ENTRY + (count + 1) - 1 /\ ENTRY + (count + 1) - 1 < 61440
        /\ FileCell(count + 1) < Above + 61440 /\ FileCell(count + 1) \in Int
    BY <1>3, FileCells
  <2> QED BY <2>1, <2>2 DEF FileCell
<1>5. LoadAddress = ENTRY + count
  BY <1>2, <1>4 DEF LoadAddress, ADDRESS_SPACE
<1>6. /\ ram' = [ram EXCEPT ![FileCell(count + 1)] = File[count + 1]]
      /\ UNCHANGED <<pages, handlers>>
  <2>1. Mapped(ENTRY + count) = FileCell(count + 1)
    BY <1>4 DEF Mapped, BankZero
  <2>2. MemWrite(ENTRY + count, File[count + 1]) /\ 0 <= ENTRY + count
    BY <1>1, <1>4, <1>5
  <2>3. /\ ram' = [ram EXCEPT ![Mapped(ENTRY + count)] = File[count + 1]]
        /\ UNCHANGED <<pages, handlers>>
    BY <1>4, <2>2, StoreBelowTop
  <2> QED BY <2>1, <2>3
<1>7. BankZero'
  BY <1>6 DEF BankZero, pages, handlers
<1>8. VectorsStored'
  BY <1>4, <1>6, VectorCells, AboveIsInt DEF VectorsStored
<1>9. ASSUME NEW n \in 1 .. count + 1
      PROVE  ram'[FileCell(n)] = File[n]
  <2>1. n \in 1 .. Len(File)
    BY <1>1, <1>2
  <2>2. CASE n = count + 1
    <3>1. FileCell(n) \in Cells
      BY <2>1, FileCells
    <3>2. FileCell(n) \in DOMAIN ram
      BY <3>1 DEF BootInv, MemoryOK
    <3> QED BY <1>6, <2>2, <3>2
  <2>3. CASE n # count + 1
    <3>1. FileCell(n) # FileCell(count + 1)
      BY <1>3, <2>1, <2>3, FileCells
    <3>2. ram[FileCell(n)] = File[n]
      BY <1>2, <2>3 DEF Loaded
    <3> QED BY <1>6, <3>1, <3>2
  <2> QED BY <2>2, <2>3
<1> QED BY <1>1, <1>7, <1>8, <1>9 DEF Loaded

\* Where a store of main's goes, as long as the strings end below the program.
BelowProgram(a) == strptr' <= ENTRY => strptr <= ENTRY /\ a < 4096

\* A store of argc, of a pointer or of a string.
LEMMA StoreBesides ==
  ASSUME BootInv, FileFits, BankZero, VectorsStored, FileStored,
         count - count0 = Len(File), count' = count,
         NEW a \in Int, 0 <= a, a < 40960, BelowProgram(a), NEW v, MemWrite(a, v)
  PROVE  BankZero' /\ VectorsStored' /\ FileStored'
<1>1. count \in Int /\ count <= Len(File)
  <2>1. count0 = 0 /\ count \in Int
    BY DEF FileFits, BootInv, LoopTypes
  <2> QED BY <2>1, FileBytes
<1>2. BankZero' /\ VectorsStored'
  BY VectorsStay
<1>3. ASSUME strptr' <= ENTRY PROVE Loaded'
  <2>1. strptr <= ENTRY /\ a < 4096
    BY <1>3 DEF BelowProgram
  <2>2. Loaded
    BY <2>1 DEF FileStored
  <2> QED BY <1>1, <2>1, <2>2, LoadedStays
<1> QED BY <1>2, <1>3 DEF FileStored

\* main's steps.
LEMMA ProgramMainStep ==
  ASSUME BootInv, FileFits, BankZero, VectorsStored, FileStored, MainStep
  PROVE  BankZero' /\ VectorsStored' /\ FileStored'
<1>1. CASE LoadByte
  <2>1. strptr' = strptr
    BY <1>1 DEF LoadByte, argVars
  <2>2. strptr <= ENTRY => Loaded
    BY DEF FileStored
  <2>3. strptr <= ENTRY
    <3>1. phase = "load"
      BY <1>1 DEF LoadByte
    <3>2. strptr <= ARGV + 2 * Len(args) + 21 * (arg - 1) + copied
      BY DEF BootInv, LoopTypes
    <3>3. arg = 1
      BY <3>1, Zenon DEF BootInv, Loading
    <3>4. copied = 0
      <4>1. phase # "string"
        BY <3>1
      <4> QED BY <4>1, Zenon DEF BootInv, Copying
    <3>5. Len(args) \in Int /\ Len(args) <= 255 /\ strptr \in Int
      BY ArgumentTypes DEF BootInv, LoopTypes
    <3> QED BY <3>2, <3>3, <3>4, <3>5 DEF ARGV, ENTRY
  <2>4. BankZero' /\ VectorsStored' /\ Loaded'
    BY <1>1, <2>2, <2>3, LoaderStores
  <2> QED BY <2>4 DEF FileStored
<1>2. CASE StoreArgc
  <2>1. count' = count /\ MemWrite(ARGC, Len(args)) /\ count - count0 = Len(File)
    BY <1>2 DEF StoreArgc
  <2>2. phase = "load"
    BY <1>2 DEF StoreArgc
  <2>3. strptr <= ENTRY
    <3>2. strptr <= ARGV + 2 * Len(args) + 21 * (arg - 1) + copied
      BY DEF BootInv, LoopTypes
    <3>3. arg = 1
      BY <2>2, Zenon DEF BootInv, Loading
    <3>4. copied = 0
      <4>1. phase # "string"
        BY <2>2
      <4> QED BY <4>1, Zenon DEF BootInv, Copying
    <3>5. Len(args) \in Int /\ Len(args) <= 255 /\ strptr \in Int
      BY ArgumentTypes DEF BootInv, LoopTypes
    <3> QED BY <3>2, <3>3, <3>4, <3>5 DEF ARGV, ENTRY
  <2>4. ARGC \in Int /\ 0 <= ARGC /\ ARGC < 4096 /\ ARGC < 40960
    BY DEF ARGC
  <2>5. BelowProgram(ARGC)
    BY <2>3, <2>4 DEF BelowProgram
  <2> QED BY <2>1, <2>4, <2>5, StoreBesides
<1> DEFINE Placed == /\ Len(args) \in Int /\ 1 <= Len(args) /\ Len(args) <= 255
                     /\ arg \in Int /\ 1 <= arg /\ arg <= Len(args)
                     /\ strptr \in Int /\ 2305 <= strptr /\ strptr < 40960
                     /\ count - count0 = Len(File)
<1>a. ASSUME phase \in Storing, phase # "load"
      PROVE  Placed
  <2>1. /\ Len(args) \in Int /\ 1 <= Len(args) /\ Len(args) <= 255
        /\ arg \in Int /\ 1 <= arg /\ arg <= Len(args)
        /\ copied \in Int /\ 0 <= copied
        /\ strptr \in Int /\ strptr - copied >= 2305 + 2 * Len(args)
    BY <1>a, WhileStoring
  <2>2. count - count0 = Len(File)
    BY <1>a, Zenon DEF BootInv, Loading
  <2>3. strptr < 40960
    BY LoopsBound DEF BootInv
  <2>4. 2305 <= strptr
    BY <2>1
  <2> QED BY <2>1, <2>2, <2>3, <2>4
<1> HIDE DEF Placed
<1>3. CASE StorePointerLow
  <2>1. /\ count' = count /\ strptr' = strptr
        /\ MemWrite(ARGV + 2 * (arg - 1), strptr % 256)
    BY <1>3 DEF StorePointerLow, mainVars, argVars
  <2>2. Placed
    BY <1>3, <1>a DEF StorePointerLow, Storing
  <2> DEFINE a == ARGV + 2 * (arg - 1)
  <2>3. a \in Int /\ 0 <= a /\ a < 4096 /\ a < 40960
    BY <2>2 DEF Placed, ARGV
  <2> HIDE DEF a
  <2>4. MemWrite(a, strptr % 256)
    BY <2>1 DEF a
  <2>5. BelowProgram(a)
    BY <2>1, <2>3 DEF BelowProgram
  <2>6. count - count0 = Len(File) /\ count' = count
    BY <2>1, <2>2 DEF Placed
  <2> QED BY <2>3, <2>4, <2>5, <2>6, StoreBesides
<1>4. CASE StorePointerHigh
  <2>1. /\ count' = count /\ strptr' = strptr
        /\ MemWrite(ARGV + 2 * (arg - 1) + 1, 9)
    BY <1>4 DEF StorePointerHigh, mainVars, argVars
  <2>2. Placed
    BY <1>4, <1>a DEF StorePointerHigh, Storing
  <2> DEFINE a == ARGV + 2 * (arg - 1) + 1
  <2>3. a \in Int /\ 0 <= a /\ a < 4096 /\ a < 40960
    BY <2>2 DEF Placed, ARGV
  <2> HIDE DEF a
  <2>4. MemWrite(a, 9)
    BY <2>1 DEF a
  <2>5. BelowProgram(a)
    BY <2>1, <2>3 DEF BelowProgram
  <2>6. count - count0 = Len(File) /\ count' = count
    BY <2>1, <2>2 DEF Placed
  <2> QED BY <2>3, <2>4, <2>5, <2>6, StoreBesides
<1>s. ASSUME Placed, strptr' = strptr + 1
      PROVE  BelowProgram(strptr) /\ 0 <= strptr /\ strptr < 40960 /\ strptr \in Int
  <2>1. strptr' <= 4096 => strptr <= 4096 /\ strptr < 4096
    BY <1>s DEF Placed
  <2> QED BY <1>s, <2>1 DEF BelowProgram, ENTRY, Placed
<1>5. CASE StoreChar
  <2>1. /\ count' = count /\ strptr' = strptr + 1
        /\ MemWrite(strptr, args[arg][copied + 1])
    BY <1>5 DEF StoreChar
  <2>2. Placed
    BY <1>5, <1>a DEF StoreChar, Storing
  <2>3. BelowProgram(strptr) /\ 0 <= strptr /\ strptr < 40960 /\ strptr \in Int
    BY <1>s, <2>1, <2>2
  <2>6. count - count0 = Len(File)
    BY <2>2 DEF Placed
  <2> QED BY <2>1, <2>3, <2>6, StoreBesides
<1>6. CASE StoreEnd
  <2>1. /\ count' = count /\ strptr' = strptr + 1 /\ MemWrite(strptr, 0)
    BY <1>6 DEF StoreEnd
  <2>2. Placed
    BY <1>6, <1>a DEF StoreEnd, Storing
  <2>3. BelowProgram(strptr) /\ 0 <= strptr /\ strptr < 40960 /\ strptr \in Int
    BY <1>s, <2>1, <2>2
  <2>6. count - count0 = Len(File)
    BY <2>2 DEF Placed
  <2> QED BY <2>1, <2>3, <2>6, StoreBesides
<1> QED BY <1>1, <1>2, <1>3, <1>4, <1>5, <1>6 DEF MainStep
\* The vectors as the processor reads them.
LEMMA VectorBytes ==
  ASSUME MemoryOK, BankZero, VectorsStored
  PROVE  /\ ByteAt(RESET_VECTOR) = 0 /\ ByteAt(RESET_VECTOR + 1) = 0
         /\ ByteAt(IRQ_VECTOR) = 0 /\ ByteAt(IRQ_VECTOR + 1) = 16
<1>1. ASSUME NEW a \in {RESET_VECTOR, RESET_VECTOR + 1, IRQ_VECTOR, IRQ_VECTOR + 1}
      PROVE  ByteAt(a) = ram[PinnedCell(a)]
  BY ByteOfVector DEF BankZero
<1> QED BY <1>1 DEF VectorsStored

\* The processor stays at address 0, until its last fetch brings it to the program.
LEMMA ProcessorGoes ==
  ASSUME BootInv, BankZero, VectorsStored, AtZero, CpuStep
  PROVE  /\ phase' \notin Ended => AtZero'
         /\ phase' = "running" => AtEntry'
<1>n. /\ {"reset", "vector", "opcode", "operand", "astray", "push pch", "push pcl", "push p"}
           \subseteq CpuPhases
      /\ {"irq vector", "irq vector high", "running"} \subseteq CpuPhases
  BY DEF CpuPhases, Phases, Storing, Ended
<1>v. /\ ByteAt(RESET_VECTOR) = 0 /\ ByteAt(RESET_VECTOR + 1) = 0
      /\ ByteAt(IRQ_VECTOR) = 0 /\ ByteAt(IRQ_VECTOR + 1) = 16
  BY VectorBytes DEF BootInv
<1>s. STACK + sp # IRQ_VECTOR + 1
  <2>1. sp \in Int /\ sp <= 255
    BY DEF BootInv, CpuTypes
  <2> QED BY <2>1 DEF STACK, IRQ_VECTOR
<1>z. pc = 0
  BY DEF AtZero
<1>p. ASSUME NEW next \in CpuPhases, next # "running", NEW address, address # IRQ_VECTOR + 1,
             ReadCycle(address, next) \/ \E v : WriteCycle(address, v, next)
      PROVE  phase' # "running"
  <2>1. Watched /\ Cycle(address) /\ Then(next)
    BY <1>p DEF ReadCycle, WriteCycle
  <2> QED BY <1>p, <2>1, CycleStep
<1>c. ASSUME phase' # "running", pc' = 0
      PROVE  /\ phase' \notin Ended => AtZero'
             /\ phase' = "running" => AtEntry'
  BY <1>c DEF AtZero
<1>1. CASE Idle
  <2>1. PICK address \in {0, STACK + sp} : ReadCycle(address, "reset")
    BY <1>1 DEF Idle
  <2>2. address # IRQ_VECTOR + 1
    <3>1. 0 # IRQ_VECTOR + 1
      BY DEF IRQ_VECTOR
    <3> QED BY <1>s, <2>1, <3>1
  <2>3. phase' # "running"
    BY <1>n, <1>p, <2>1, <2>2
  <2>4. pc' = 0
    BY <1>1, <1>z DEF Idle
  <2> QED BY <1>c, <2>3, <2>4
<1>2. CASE FetchVectorLow
  <2>1. ReadCycle(RESET_VECTOR, "vector") /\ pc' = 0
    BY <1>2, <1>v DEF FetchVectorLow
  <2>2. RESET_VECTOR # IRQ_VECTOR + 1
    BY DEF RESET_VECTOR, IRQ_VECTOR
  <2>3. phase' # "running"
    BY <1>n, <1>p, <2>1, <2>2
  <2> QED BY <1>c, <2>1, <2>3
<1>3. CASE FetchVectorHigh
  <2>1. ReadCycle(RESET_VECTOR + 1, "opcode") /\ pc' = pc + 256 * ByteAt(RESET_VECTOR + 1)
    BY <1>3 DEF FetchVectorHigh
  <2>2. RESET_VECTOR + 1 # IRQ_VECTOR + 1
    BY DEF RESET_VECTOR, IRQ_VECTOR
  <2>3. phase' # "running"
    BY <1>n, <1>p, <2>1, <2>2
  <2>4. pc' = 0
    <3>1. pc' = pc + 256 * ByteAt(RESET_VECTOR + 1)
      BY <2>1
    <3> QED BY <1>v, <1>z, <3>1
  <2> QED BY <1>c, <2>3, <2>4
<1>4. CASE FetchOpcode
  <2>1. ReadCycle(pc, IF ByteAt(pc) = 0 THEN "operand" ELSE "astray") /\ pc' = pc
    BY <1>4 DEF FetchOpcode
  <2>2. pc # IRQ_VECTOR + 1
    BY <1>z DEF IRQ_VECTOR
  <2> DEFINE next == IF ByteAt(pc) = 0 THEN "operand" ELSE "astray"
  <2>3. next \in CpuPhases /\ next # "running"
    BY <1>n
  <2>4. ReadCycle(pc, next)
    BY <2>1
  <2> HIDE DEF next
  <2>5. phase' # "running"
    BY <1>p, <2>2, <2>3, <2>4
  <2> QED BY <1>c, <1>z, <2>1, <2>5
<1>5. CASE FetchOperand
  <2>1. ReadCycle((pc + 1) % ADDRESS_SPACE, "push pch") /\ pc' = pc
    BY <1>5 DEF FetchOperand
  <2> DEFINE address == (pc + 1) % ADDRESS_SPACE
  <2>2. address # IRQ_VECTOR + 1
    BY <1>z DEF ADDRESS_SPACE, IRQ_VECTOR
  <2> HIDE DEF address
  <2>4. ReadCycle(address, "push pch")
    BY <2>1 DEF address
  <2>5. phase' # "running"
    BY <1>n, <1>p, <2>2, <2>4
  <2> QED BY <1>c, <1>z, <2>1, <2>5
<1>6. ASSUME NEW at, NEW next \in {"push pcl", "push p", "irq vector"}, NEW v, Push(at, next, v)
      PROVE  phase' # "running" /\ pc' = 0
  <2>1. WriteCycle(STACK + sp, v, next) /\ pc' = pc
    BY <1>6 DEF Push
  <2>2. next \in CpuPhases /\ next # "running"
    BY <1>n
  <2> QED BY <1>p, <1>s, <1>z, <2>1, <2>2
<1>7. CASE PushPCH
  BY <1>c, <1>6, <1>7 DEF PushPCH
<1>8. CASE PushPCL
  BY <1>c, <1>6, <1>8 DEF PushPCL
<1>9. CASE PushP
  BY <1>c, <1>6, <1>9 DEF PushP
<1>10. CASE FetchIrqLow
  <2>1. ReadCycle(IRQ_VECTOR, "irq vector high") /\ pc' = 0
    BY <1>10, <1>v DEF FetchIrqLow
  <2>2. IRQ_VECTOR # IRQ_VECTOR + 1
    BY DEF IRQ_VECTOR
  <2>3. phase' # "running"
    BY <1>n, <1>p, <2>1, <2>2
  <2> QED BY <1>c, <2>1, <2>3
<1>11. CASE FetchIrqHigh
  <2>1. ReadCycle(IRQ_VECTOR + 1, "running") /\ pc' = pc + 256 * ByteAt(IRQ_VECTOR + 1)
    BY <1>11 DEF FetchIrqHigh
  <2>2. Watched /\ Cycle(IRQ_VECTOR + 1) /\ Then("running")
    BY <2>1 DEF ReadCycle
  <2>3. phase' \in Ended
    <3>1. phase' = "running" \/ phase' \in Ended
      BY <1>n, <2>2, CycleStep
    <3> QED BY <3>1 DEF Ended
  <2>4. pc' = 4096
    <3>1. pc' = pc + 256 * ByteAt(IRQ_VECTOR + 1)
      BY <2>1
    <3> QED BY <1>v, <1>z, <3>1
  <2> QED BY <2>3, <2>4 DEF AtEntry, ENTRY
<1> QED BY <1>1, <1>2, <1>3, <1>4, <1>5, <1>7, <1>8, <1>9, <1>10, <1>11 DEF CpuStep

\* Every step keeps the program.
LEMMA ProgramStep ==
  ASSUME BootInv, ProgramStored, [BootNext]_bootVars
  PROVE  ProgramStored'
<1> SUFFICES ASSUME FileFits'
             PROVE  BankZero' /\ VectorsStored' /\ FileStored' /\ OnItsWay'
  BY DEF ProgramStored
<1>m. CASE MainStep
  <2>1. FileFits
    <3>1. count0' = count0
      BY <1>m DEF MainStep, LoadByte, StoreArgc, StorePointerLow, StorePointerHigh, StoreChar,
                  StoreEnd, mainVars
    <3> QED BY <3>1 DEF FileFits
  <2>2. BankZero /\ VectorsStored /\ FileStored /\ OnItsWay
    BY <2>1 DEF ProgramStored
  <2>3. BankZero' /\ VectorsStored' /\ FileStored'
    BY <1>m, <2>1, <2>2, ProgramMainStep
  <2>4. /\ phase \in Storing /\ phase' \in Storing \cup {"stopped"} /\ pc' = pc
    BY <1>m, LoopsStep DEF cpuVars
  <2>5. AtZero
    BY <2>2, <2>4 DEF OnItsWay, Storing, Ended
  <2>6. AtZero' /\ phase' # "running"
    BY <2>4, <2>5 DEF AtZero, Storing
  <2> QED BY <2>3, <2>6 DEF OnItsWay
<1>r. CASE reset65C02
  <2>1. /\ UNCHANGED <<pages, handlers>> /\ ram' = ram /\ strptr' = strptr /\ pc' = pc
        /\ count' = count /\ count0' = count0
        /\ phase = "stopped" /\ phase' = "reset"
    BY <1>r DEF reset65C02, vars, mainVars, argVars, cpuVars, pages, handlers
  <2>2. BankZero /\ VectorsStored /\ FileStored /\ OnItsWay
    BY <2>1 DEF ProgramStored, FileFits
  <2>3. BankZero' /\ VectorsStored'
    BY <2>1, <2>2 DEF BankZero, VectorsStored, pages, handlers
  <2>4. FileStored'
    BY <2>1, <2>2 DEF FileStored, Loaded
  <2>5. AtZero
    BY <2>1, <2>2 DEF OnItsWay, Ended
  <2>6. AtZero' /\ phase' # "running"
    BY <2>1, <2>5 DEF AtZero
  <2> QED BY <2>3, <2>4, <2>6 DEF OnItsWay
<1>c. CASE CpuStep
  <2>1. /\ phase \in CpuPhases /\ phase \notin Ended /\ UNCHANGED mainVars
        /\ \/ UNCHANGED vars
           \/ \E v \in ByteValues : MemWrite(STACK + sp, v) /\ 1 <= sp
    BY <1>c, CpuSteps
  <2>2. count0' = count0 /\ count' = count /\ strptr' = strptr
    BY <2>1 DEF mainVars, argVars
  <2>3. FileFits
    BY <2>2 DEF FileFits
  <2>4. BankZero /\ VectorsStored /\ FileStored /\ OnItsWay
    BY <2>3 DEF ProgramStored
  <2>5. BankZero' /\ VectorsStored' /\ FileStored'
    <3>1. CASE UNCHANGED vars
      <4>1. UNCHANGED <<pages, handlers>> /\ ram' = ram
        BY <3>1 DEF vars, pages, handlers
      <4>2. BankZero' /\ VectorsStored'
        BY <2>4, <4>1 DEF BankZero, VectorsStored, pages, handlers
      <4> QED BY <2>2, <2>4, <4>1, <4>2 DEF FileStored, Loaded
    <3>2. ASSUME NEW v \in ByteValues, MemWrite(STACK + sp, v)
          PROVE  BankZero' /\ VectorsStored' /\ FileStored'
      <4>1. STACK + sp \in Int /\ 0 <= STACK + sp /\ STACK + sp < 4096 /\ STACK + sp < 40960
        <5>1. sp \in Int /\ 0 <= sp /\ sp <= 255
          BY DEF BootInv, CpuTypes
        <5> QED BY <5>1 DEF STACK
      <4>2. count - count0 = Len(File)
        <5>1. phase # "load"
          BY <2>1 DEF CpuPhases, Storing
        <5> QED BY <5>1, Zenon DEF BootInv, Loading
      <4>3. BelowProgram(STACK + sp)
        BY <2>2, <4>1 DEF BelowProgram
      <4> QED BY <2>2, <2>3, <2>4, <3>2, <4>1, <4>2, <4>3, StoreBesides
    <3> QED BY <2>1, <3>1, <3>2
  <2>6. AtZero
    BY <2>1, <2>4 DEF OnItsWay
  <2>7. OnItsWay'
    BY <1>c, <2>4, <2>6, ProcessorGoes DEF OnItsWay
  <2> QED BY <2>5, <2>7
<1>u. CASE UNCHANGED bootVars
  <2>1. /\ UNCHANGED <<pages, handlers>> /\ ram' = ram /\ strptr' = strptr /\ pc' = pc
        /\ count' = count /\ count0' = count0 /\ phase' = phase
    BY <1>u DEF bootVars, vars, mainVars, argVars, cpuVars, pages, handlers
  <2>2. BankZero /\ VectorsStored /\ FileStored /\ OnItsWay
    BY <2>1 DEF ProgramStored, FileFits
  <2>3. BankZero' /\ VectorsStored'
    BY <2>1, <2>2 DEF BankZero, VectorsStored, pages, handlers
  <2>4. FileStored'
    BY <2>1, <2>2 DEF FileStored, Loaded
  <2>5. OnItsWay'
    BY <2>1, <2>2 DEF OnItsWay, AtZero, AtEntry
  <2> QED BY <2>3, <2>4, <2>5
<1> QED BY <1>m, <1>r, <1>c, <1>u DEF BootNext, MainStep, CpuStep

\* A program that is stored is what the processor finds.
LEMMA StoredIntact ==
  ASSUME BootInv, ProgramStored
  PROVE  ProgramIntact
<1> SUFFICES ASSUME phase = "running", count0 = 0, ENTRY + Len(File) <= 61440, strptr <= ENTRY
             PROVE  /\ pc = ENTRY
                    /\ \A n \in DOMAIN File : ByteAt(ENTRY + n - 1) = File[n]
  BY DEF ProgramIntact, Started, ProgramFits
<1>1. FileFits
  BY DEF FileFits
<1>2. BankZero /\ Loaded /\ AtEntry
  BY <1>1 DEF ProgramStored, FileStored, OnItsWay
<1>3. count = Len(File)
  <2>1. phase # "load"
    OBVIOUS
  <2>2. count - count0 = Len(File)
    BY <2>1, FullyLoaded DEF BootInv
  <2>3. count \in Int /\ Len(File) \in Nat
    BY FileBytes DEF BootInv, LoopTypes
  <2> QED BY <2>2, <2>3
<1>4. ASSUME NEW n \in DOMAIN File
      PROVE  ByteAt(ENTRY + n - 1) = File[n]
  <2>1. n \in 1 .. Len(File)
    BY FileAssumption
  <2>2. /\ FileCell(n) \in Cells /\ ENTRY + n - 1 \in Int
        /\ 4096 <= ENTRY + n - 1 /\ ENTRY + n - 1 < 61440
    BY <1>1, <2>1, FileCells
  <2>3. ~ InTop(ENTRY + n - 1)
    BY <2>2, EntryRanges
  <2>4. Mapped(ENTRY + n - 1) = FileCell(n)
    BY <1>2 DEF Mapped, BankZero, FileCell
  <2>5. Read(ENTRY + n - 1) = {ram[FileCell(n)]}
    BY <2>3, <2>4 DEF Read
  <2>6. ByteAt(ENTRY + n - 1) = ram[FileCell(n)]
    BY <2>2, <2>5, ByteOf DEF BootInv
  <2> QED BY <1>2, <1>3, <2>1, <2>6 DEF Loaded
<1>5. pc = ENTRY
  BY <1>2 DEF AtEntry
<1> QED BY <1>4, <1>5
-----------------------------------------------------------------------------
(***************************************************************************)
(* The state main finds.                                                   *)
(***************************************************************************)
LEMMA BootStart ==
  ASSUME BootInit
  PROVE  BootInv /\ ArgumentsStored
<1>1. MemoryOK
  <2>1. ram = [[c \in Cells |-> 0] EXCEPT ![PinnedCell(IRQ_VECTOR + 1)] = 16]
    BY DEF BootInit, ENTRY
  <2>2. 0 \in ByteValues /\ 16 \in ByteValues
    BY ByteBounds
  <2>3. ram \in [Cells -> ByteValues]
    BY <2>1, <2>2
  <2>4. /\ io_write_top_handler = [n \in 0 .. 15 |-> "none"]
        /\ io_read_top_handler = [n \in 0 .. 15 |-> "none"]
    BY DEF BootInit
  <2> QED BY <2>3, <2>4 DEF MemoryOK
<1>2. /\ phase = "load" /\ arg = 1 /\ copied = 0 /\ strptr = ARGV
      /\ args \in ArgLists /\ count = count0
  BY DEF BootInit
<1>3. count0 \in Int
  BY CountsAssumption DEF BootInit
<1>4. /\ Len(args) \in Int /\ 1 <= Len(args) /\ Len(args) <= 255
  BY <1>2, ArgumentTypes
<1>5. phase \in Phases /\ phase \in Storing /\ phase # "string"
  BY <1>2 DEF Phases, Storing
<1>6. LoopTypes
  <2>1. /\ arg \in Int /\ 1 <= arg /\ arg <= Len(args) + 1
        /\ copied \in Int /\ 0 <= copied /\ copied <= 20
        /\ strptr \in Int /\ ARGV <= strptr
        /\ strptr <= ARGV + 2 * Len(args) + 21 * (arg - 1) + copied
    <3>1. arg = 1 /\ copied = 0 /\ strptr = 2305
      BY <1>2 DEF ARGV
    <3> QED BY <1>4, <3>1 DEF ARGV
  <2> QED BY <1>2, <1>3, <1>5, <2>1 DEF LoopTypes
<1>7. Loading
  <2>1. 0 <= count - count0 /\ count - count0 <= Len(File)
    <3>1. count = count0
      BY <1>2
    <3> QED BY <1>3, <3>1, FileBytes
  <2> QED BY <1>2, <2>1 DEF Loading
<1>8. Copying
  <2>1. arg <= Len(args)
    <3>1. arg = 1
      BY <1>2
    <3> QED BY <1>4, <3>1
  <2> QED BY <1>2, <1>5, <2>1 DEF Copying
<1>9. sp \in Int /\ 3 <= sp /\ sp <= 255
  <2>1. sp \in 3 .. 255
    BY StackPtrsAssumption DEF BootInit
  <2> QED BY <2>1
<1>10. CpuTypes
  <2>1. pc = 0 /\ idle = 0 /\ g = 0
    BY DEF BootInit
  <2> QED BY <1>9, <2>1, MaxIdleAssumption DEF CpuTypes
<1>11. StackRoom
  BY <1>2, <1>9 DEF StackRoom
<1>12. CyclesLeft /\ HighByteLast
  <2>1. g = 0 /\ pc = 0
    BY DEF BootInit
  <2>2. g < 80 /\ pc < 256
    BY <2>1
  <2> QED BY <2>2 DEF CyclesLeft, HighByteLast
<1>13. ArgumentsStored
  <2>1. phase # "pointer high"
    BY <1>2
  <2> QED BY <1>2, <1>5, <2>1 DEF ArgumentsStored, ArgcStored, StringsStored, CurrentStored
<1> QED BY <1>1, <1>6, <1>7, <1>8, <1>10, <1>11, <1>12, <1>13 DEF BootInv

\* The invariant of main and the processor, and what is stored of the arguments.
LEMMA BootInvariants == BootSpec => [](BootInv /\ ArgumentsStored)
<1>1. BootInit => BootInv /\ ArgumentsStored
  BY BootStart
<1>2. (BootInv /\ ArgumentsStored) /\ [BootNext]_bootVars => (BootInv /\ ArgumentsStored)'
  BY BootInvStep, ArgumentsStep
<1> QED BY <1>1, <1>2, PTL DEF BootSpec

(***************************************************************************)
(* Memory holds bytes, main's counters stay within the loops and the       *)
(* processor's registers within their widths, whatever the loader's count, *)
(* the arguments and the stack pointer (main.c:60-141).                    *)
(***************************************************************************)
THEOREM BootTypeCorrect == BootSpec => []BootTypeOK
<1>1. BootInv => BootTypeOK
  BY BootInvType
<1> QED BY <1>1, BootInvariants, PTL

(***************************************************************************)
(* The program finds argc and its arguments, each cut to 20 characters,    *)
(* through the pointers behind argc, wherever it was loaded, as long as    *)
(* the last string starts below 0x0A00 (main.c:97-114).                    *)
(***************************************************************************)
THEOREM ArgumentsAreReadable == BootSpec => []ArgumentsReadable
<1>1. BootInv /\ ArgumentsStored => ArgumentsReadable
  BY StoredReadable
<1> QED BY <1>1, BootInvariants, PTL
\* Before the first byte is loaded.
LEMMA ProgramStart ==
  ASSUME BootInit
  PROVE  ProgramStored
<1> SUFFICES ASSUME FileFits
             PROVE  BankZero /\ VectorsStored /\ FileStored /\ OnItsWay
  BY DEF ProgramStored
<1>1. BankZero
  <2>1. io_read_top_handler = [n \in 0 .. 15 |-> "none"]
    BY DEF BootInit
  <2> QED BY <2>1 DEF BankZero, BootInit
<1>2. VectorsStored
  <2>1. ram = [[c \in Cells |-> 0] EXCEPT ![PinnedCell(IRQ_VECTOR + 1)] = 16]
    BY DEF BootInit, ENTRY
  <2>2. ASSUME NEW a \in {RESET_VECTOR, RESET_VECTOR + 1, IRQ_VECTOR, IRQ_VECTOR + 1}
        PROVE  PinnedCell(a) \in Cells
    <3>1. MemoryOK
      BY BootStart DEF BootInv
    <3> QED BY <3>1, ByteOfVector
  <2>3. /\ PinnedCell(RESET_VECTOR) # PinnedCell(IRQ_VECTOR + 1)
        /\ PinnedCell(RESET_VECTOR + 1) # PinnedCell(IRQ_VECTOR + 1)
        /\ PinnedCell(IRQ_VECTOR) # PinnedCell(IRQ_VECTOR + 1)
    BY VectorCells, AboveIsInt
  <2> QED BY <2>1, <2>2, <2>3 DEF VectorsStored
<1>3. FileStored
  <2>1. count = 0
    BY DEF BootInit, FileFits
  <2>2. 1 .. count = {}
    BY <2>1
  <2> QED BY <2>2 DEF FileStored, Loaded
<1>4. OnItsWay
  <2>1. AtZero /\ phase = "load"
    BY DEF BootInit, AtZero
  <2> QED BY <2>1 DEF OnItsWay
<1> QED BY <1>1, <1>2, <1>3, <1>4

\* With the invariant of main and the processor, the program is stored in every state.
LEMMA ProgramInvariants == BootSpec => [](BootInv /\ ProgramStored)
<1>1. BootInit => BootInv /\ ProgramStored
  BY BootStart, ProgramStart
<1>2. (BootInv /\ ProgramStored) /\ [BootNext]_bootVars => (BootInv /\ ProgramStored)'
  BY BootInvStep, ProgramStep
<1> QED BY <1>1, <1>2, PTL DEF BootSpec

(***************************************************************************)
(* When the processor comes to the program it is at its first instruction, *)
(* and the program is the one in the file, with the loader's count zero    *)
(* and room for it between the arguments and the devices (main.c:73-94,    *)
(* 116-144).                                                               *)
(***************************************************************************)
THEOREM ProgramStaysIntact == BootSpec => []ProgramIntact
<1>1. BootInv /\ ProgramStored => ProgramIntact
  BY StoredIntact
<1> QED BY <1>1, ProgramInvariants, PTL
=============================================================================
