------------------------------ MODULE MCAssist ------------------------------
(***************************************************************************)
(* A program with its request in low memory, a parameter block for a buffer*)
(* in each high window, and two banks.                                     *)
(***************************************************************************)
EXTENDS Assist

MCRequest == 4096                       \* 0x1000

\* Blocks at 0x1004, for read, and at 0x100A, for getcwd; the buffers are two
\* bytes at 0xC000 and one at 0xA000.
MCImage == << <<4103, 192>>, <<4104, 2>>, <<4107, 160>>, <<4108, 1>> >>
High2Buffer == <<49152, 2>>
High1Buffer == <<40960, 1>>
MCBuffers == {High2Buffer, High1Buffer}

MCAddresses == {0, 1} \cup 4096 .. 4109 \cup {40960, 49152, 49153}
               \cup {PAGE1_REG, PAGE2_REG, ASSIST_LOW, ASSIST_HIGH}

Simple(number) == [number |-> number, block |-> 4100, buffer |-> High2Buffer]
MCCalls == {Simple(PI_LIBC_READ), Simple(PI_LIBC_FSYNC), Simple(PI_LIBC_SYSEXIT),
            Simple(PI_MBOX_INIT), Simple(PI_FB_MALLOC_SBUF),
            [number |-> PI_LIBC_GETCWD, block |-> 4106, buffer |-> High1Buffer]}

MCHostResults == {-1, 0, 2}
MCErrnos == {0, 9}
MCSelectable == {0, 1}
MCFileByte == 7

\* Every byte these calls store, return or fill in.
MCBytes == {0, 1, 2, 3, 4, 5, 7, 9, 10, 11, 12, 16, 160, 192, 255}
MCUnits == {"fb", "time", "mmu", "mbox"}

ASSUME ProgramAssumption == BuffersInWindow /\ ProgramFits
=============================================================================
