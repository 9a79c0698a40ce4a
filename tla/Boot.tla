-------------------------------- MODULE Boot --------------------------------
(***************************************************************************)
(* Starting a program of the 6502: main of main.c, which loads it, lays out*)
(* its arguments, resets the processor and watches it until it has fetched *)
(* its first address; and the bus cycles of cpu.c.                         *)
(*                                                                         *)
(* The processor is external: after a reset it makes some reads that mean  *)
(* nothing, fetches the vector at 0xFFFC, which is zero, and there finds a *)
(* zero, the BRK instruction.  So it pushes three bytes and takes the      *)
(* interrupt vector, the one main has set.  From any other instruction it  *)
(* goes astray.                                                            *)
(***************************************************************************)
EXTENDS Memory, Sequences

CONSTANTS File,         \* the bytes of the program, behind the headers
          ArgLists,     \* the arguments it may be given: its name and others
          Counts,       \* what the loader's count may happen to be at the start
          StackPtrs,    \* what the processor's stack pointer may be
          MaxIdle       \* the reads a processor makes before it fetches a vector

RESET_VECTOR == 65532                  \* 0xFFFC
IRQ_VECTOR   == 65534                  \* 0xFFFE
ENTRY        == 4096                   \* 0x1000
ARGC         == 2304                   \* 0x0900
ARGV         == 2305                   \* 0x0901
STACK        == 256                    \* 0x0100

ByteValues   == 0 .. 255

ASSUME FileAssumption == File \in Seq(ByteValues)
ASSUME ArgListsAssumption ==
    \A list \in ArgLists : list \in Seq(Seq(ByteValues \ {0})) /\ Len(list) \in 1 .. 255
ASSUME CountsAssumption == Counts \subseteq Int
ASSUME StackPtrsAssumption == StackPtrs \subseteq 3 .. 255
ASSUME MaxIdleAssumption == MaxIdle \in Nat

\* The memory has the bytes the processor and the properties read.
ASSUME ReadAssumption ==
    {0, RESET_VECTOR, RESET_VECTOR + 1, IRQ_VECTOR, IRQ_VECTOR + 1}
    \cup ARGC .. ARGC + 295 \cup ENTRY .. ENTRY + Len(File) - 1 \subseteq Addresses

VARIABLES args,         \* the arguments
          count0,       \* the value of count nobody has set
          count,        \* of the loader: it has stored count - count0 bytes
          arg,          \* the argument main copies, from 1 on
          copied,       \* how many of its characters it has copied
          strptr,       \* where the next one goes
          phase,        \* what main, or the processor, does next, see Phases
          sp,           \* the processor's stack pointer
          pc,           \* its program counter
          idle,         \* the meaningless reads it has made
          g,            \* the cycles main has watched
          bus_addr      \* the address of the last one

argVars  == <<arg, copied, strptr>>
mainVars == <<args, count0, count, argVars>>
cpuVars  == <<sp, pc, idle, g, bus_addr>>
bootVars == <<vars, mainVars, phase, cpuVars>>

Storing == {"load", "pointer low", "pointer high", "string"}
Ended   == {"running", "astray", "failed"}
Phases  == Storing \cup {"stopped", "reset", "vector", "opcode", "operand", "push pch",
                         "push pcl", "push p", "irq vector", "irq vector high"} \cup Ended

-----------------------------------------------------------------------------
\* mem_init, whose malloc of megabytes is of fresh pages of zeros, and the vector.
BootInit ==
    /\ ram = [[c \in Cells |-> 0] EXCEPT ![PinnedCell(IRQ_VECTOR + 1)] = ENTRY \div 256]
    /\ himem1_page = 0
    /\ himem2_page = 0
    /\ io_write_top_handler = [n \in 0 .. 15 |-> "none"]
    /\ io_read_top_handler = [n \in 0 .. 15 |-> "none"]
    /\ args \in ArgLists
    /\ count0 \in Counts
    /\ count = count0
    /\ arg = 1
    /\ copied = 0
    /\ strptr = ARGV
    /\ phase = "load"
    /\ sp \in StackPtrs
    /\ pc = 0
    /\ idle = 0
    /\ g = 0
    /\ bus_addr = 0

-----------------------------------------------------------------------------
(***************************************************************************)
(* What main stores: the program, argc, and for each argument a pointer and*)
(* the string.                                                             *)
(***************************************************************************)
\* Mutant: count is stepped before the byte is stored.
LoadAddress_next == (ENTRY + count + 1) % ADDRESS_SPACE

\* count is used without a value, and mem_write takes 16 bits.
LoadAddress == (ENTRY + count) % ADDRESS_SPACE

\* The loader's loop.
LoadByte ==
    /\ phase = "load" /\ count - count0 < Len(File)
    /\ MemWrite(LoadAddress, File[count - count0 + 1])
    /\ count' = count + 1
    /\ UNCHANGED <<args, count0, argVars, phase, cpuVars>>

StoreArgc ==
    /\ phase = "load" /\ count - count0 = Len(File)
    /\ MemWrite(ARGC, Len(args))
    /\ strptr' = ARGV + 2 * Len(args)
    /\ phase' = "pointer low"
    /\ UNCHANGED <<args, count0, count, arg, copied, cpuVars>>

\* The high byte of a pointer is always 0x09.
StorePointerLow ==
    /\ phase = "pointer low"
    /\ MemWrite(ARGV + 2 * (arg - 1), strptr % 256)
    /\ phase' = "pointer high"
    /\ UNCHANGED <<mainVars, cpuVars>>

StorePointerHigh ==
    /\ phase = "pointer high"
    /\ MemWrite(ARGV + 2 * (arg - 1) + 1, 9)
    /\ phase' = "string"
    /\ UNCHANGED <<mainVars, cpuVars>>

\* Mutant: 21 characters are copied.
Copied_21(string) == IF Len(string) > 21 THEN 21 ELSE Len(string)

\* How many characters of an argument are copied: at most 20.
Copied(string) == IF Len(string) > 20 THEN 20 ELSE Len(string)

StoreChar ==
    /\ phase = "string" /\ copied < Copied(args[arg])
    /\ MemWrite(strptr, args[arg][copied + 1])
    /\ copied' = copied + 1
    /\ strptr' = strptr + 1
    /\ UNCHANGED <<args, count0, count, arg, phase, cpuVars>>

StoreEnd ==
    /\ phase = "string" /\ copied = Copied(args[arg])
    /\ MemWrite(strptr, 0)
    /\ copied' = 0
    /\ strptr' = strptr + 1
    /\ arg' = arg + 1
    /\ phase' = IF arg = Len(args) THEN "stopped" ELSE "pointer low"
    /\ UNCHANGED <<args, count0, count, cpuVars>>

reset65C02 == /\ phase = "stopped"
              /\ phase' = "reset"
              /\ UNCHANGED <<vars, mainVars, cpuVars>>

-----------------------------------------------------------------------------
(***************************************************************************)
(* step65C02, once per cycle: the address and the direction are read from  *)
(* the bus, and the byte is put there or taken from there.                 *)
(***************************************************************************)
Watched == phase \notin Storing \cup Ended \cup {"stopped"}

Cycle(address) == /\ bus_addr' = address
                  /\ g' = g + 1
                  /\ UNCHANGED mainVars

\* Mutant: it gives up after 8.
Then_8(next) == phase' = IF bus_addr' = IRQ_VECTOR + 1 THEN "running"
                         ELSE IF g = 7 THEN "failed" ELSE next

\* main goes over to its endless loop when a cycle was at 0xFFFF, for whatever
\* reason, and gives up if none of 80 was.
Then(next) == phase' = IF bus_addr' = IRQ_VECTOR + 1 THEN "running"
                       ELSE IF g = 79 THEN "failed" ELSE next

ReadCycle(address, next) == /\ Watched
                            /\ Cycle(address)
                            /\ Then(next)
                            /\ UNCHANGED vars

WriteCycle(address, byte, next) == /\ Watched
                                   /\ Cycle(address)
                                   /\ Then(next)
                                   /\ MemWrite(address, byte)

ByteAt(a) == CHOOSE byte \in ByteValues : Read(a) = {byte}

\* The reads before the vector: of what was at the program counter, and the stack.
Idle == /\ phase = "reset" /\ idle < MaxIdle
        /\ \E address \in {0, STACK + sp} : ReadCycle(address, "reset")
        /\ idle' = idle + 1
        /\ UNCHANGED <<sp, pc>>

FetchVectorLow == /\ phase = "reset"
                  /\ ReadCycle(RESET_VECTOR, "vector")
                  /\ pc' = ByteAt(RESET_VECTOR)
                  /\ UNCHANGED <<sp, idle>>

FetchVectorHigh == /\ phase = "vector"
                   /\ ReadCycle(RESET_VECTOR + 1, "opcode")
                   /\ pc' = pc + 256 * ByteAt(RESET_VECTOR + 1)
                   /\ UNCHANGED <<sp, idle>>

FetchOpcode == /\ phase = "opcode"
               /\ ReadCycle(pc, IF ByteAt(pc) = 0 THEN "operand" ELSE "astray")
               /\ UNCHANGED <<sp, pc, idle>>

FetchOperand == /\ phase = "operand"
                /\ ReadCycle((pc + 1) % ADDRESS_SPACE, "push pch")
                /\ UNCHANGED <<sp, pc, idle>>

\* BRK pushes the address two bytes on, and the flags.
Return == (pc + 2) % ADDRESS_SPACE

Push(at, next, byte) == /\ phase = at
                        /\ WriteCycle(STACK + sp, byte, next)
                        /\ sp' = sp - 1
                        /\ UNCHANGED <<pc, idle>>

PushPCH == Push("push pch", "push pcl", Return \div 256)

PushPCL == Push("push pcl", "push p", Return % 256)

PushP == Push("push p", "irq vector", 52)

FetchIrqLow == /\ phase = "irq vector"
               /\ ReadCycle(IRQ_VECTOR, "irq vector high")
               /\ pc' = ByteAt(IRQ_VECTOR)
               /\ UNCHANGED <<sp, idle>>

\* The cycle at 0xFFFF, with which main goes over to its endless loop.
FetchIrqHigh == /\ phase = "irq vector high"
                /\ ReadCycle(IRQ_VECTOR + 1, "running")
                /\ pc' = pc + 256 * ByteAt(IRQ_VECTOR + 1)
                /\ UNCHANGED <<sp, idle>>

BootNext == \/ LoadByte \/ StoreArgc
            \/ StorePointerLow \/ StorePointerHigh \/ StoreChar \/ StoreEnd
            \/ reset65C02 \/ Idle
            \/ FetchVectorLow \/ FetchVectorHigh \/ FetchOpcode \/ FetchOperand
            \/ PushPCH \/ PushPCL \/ PushP \/ FetchIrqLow \/ FetchIrqHigh

BootSpec == BootInit /\ [][BootNext]_bootVars /\ WF_bootVars(BootNext)

-----------------------------------------------------------------------------
(***************************************************************************)
(* Properties.                                                             *)
(***************************************************************************)
BootTypeOK ==
    /\ ram \in [Cells -> ByteValues]
    /\ phase \in Phases
    /\ count \in Int
    /\ arg \in 1 .. Len(args) + 1 /\ copied \in 0 .. 20
    /\ strptr \in Addresses16
    /\ sp \in ByteValues
    /\ pc \in Addresses16
    /\ idle \in 0 .. MaxIdle /\ g \in 0 .. 80

Started == phase = "running"

\* Where the last string starts: behind it is its characters and a zero.
LastString == strptr - 1 - Copied(args[Len(args)])

\* String list[n] is at the place its pointer says, cut to 20 characters.
Readable(n) ==
    LET pointer == ByteAt(ARGV + 2 * n - 2) + 256 * ByteAt(ARGV + 2 * n - 1)
        length  == IF Len(args[n]) < 20 THEN Len(args[n]) ELSE 20
    IN  /\ \A k \in 1 .. length : ByteAt(pointer + k - 1) = args[n][k]
        /\ ByteAt(pointer + length) = 0

\* The program finds its arguments, each cut to 20 characters, through the pointers
\* behind argc, wherever the program was loaded, as long as the last of the strings
\* starts below 0x0A00: beyond, a pointer's high byte should be more than the
\* constant 0x09 (main.c:98-114).
ArgumentsReadable ==
    Started /\ LastString < 2560 =>
        /\ ByteAt(ARGC) = Len(args)
        /\ \A n \in DOMAIN args : Readable(n)

\* The file ends below the page of the devices, and the arguments below the file.
ProgramFits == ENTRY + Len(File) <= 61440 /\ strptr <= ENTRY

\* The processor comes to the first instruction of the program, and the program,
\* its arguments' stores and the processor's pushes notwithstanding, is the one in
\* the file; if the loader's count happened to be zero, and there was room for the
\* program (main.c:73-94, 116-144).
ProgramIntact ==
    Started /\ count0 = 0 /\ ProgramFits =>
        /\ pc = ENTRY
        /\ \A n \in DOMAIN File : ByteAt(ENTRY + n - 1) = File[n]

\* With the loader's count zero, the processor gets there: memory is zero at the
\* reset vector and at address 0, nothing main stores changes that, and a reset
\* and a BRK take fewer than 80 cycles (main.c:116-144).
ProgramStarts == count0 = 0 ~> Started
=============================================================================
