---------------------------- MODULE Memory_proofs ----------------------------
(***************************************************************************)
(* Theorems about the address arithmetic of MemoryMap, and about Memory for*)
(* every choice of addresses, bytes and buffers its assumptions allow: type*)
(* correctness, the coherence of the bank registers, the implementation of *)
(* BankedStore, and that what is stored reads back.                        *)
(***************************************************************************)
EXTENDS Memory, TLAPS

(***************************************************************************)
(* The arithmetic: a decoded address is a byte of "mem", and two addresses *)
(* share a byte only when they are the same address in the same bank of    *)
(* the same window.                                                        *)
(***************************************************************************)
LEMMA AddressBounds ==
  ASSUME NEW a \in Addresses16
  PROVE  a \in Int /\ 0 <= a /\ a < 65536
<1>1. ADDRESS_SPACE \in Int
  BY SMT DEF ADDRESS_SPACE
<1>2. a \in Int /\ 0 <= a /\ a <= ADDRESS_SPACE - 1
  BY SMT, <1>1 DEF Addresses16
<1> QED BY SMT, <1>2 DEF ADDRESS_SPACE

LEMMA AddressIntro ==
  ASSUME NEW a \in Int, 0 <= a, a < 65536
  PROVE  a \in Addresses16
<1>1. ADDRESS_SPACE \in Int /\ a <= ADDRESS_SPACE - 1
  BY SMT DEF ADDRESS_SPACE
<1> QED BY SMT, <1>1 DEF Addresses16

LEMMA BankBounds ==
  ASSUME NEW p \in BankNumbers
  PROVE  p \in Int /\ 0 <= p /\ p < 256
BY SMT DEF BankNumbers

\* The four ranges the dispatch tables cut the address space into.
LEMMA EntryRanges ==
  ASSUME NEW a \in Int
  PROVE  /\ InLomem(a)  <=> (0 <= a /\ a < 40960)
         /\ InHimem1(a) <=> (40960 <= a /\ a < 49152)
         /\ InHimem2(a) <=> (49152 <= a /\ a < 61440)
         /\ InTop(a)    <=> (61440 <= a /\ a < 65536)
BY SMT DEF Entry, InLomem, InHimem1, InHimem2, InTop

\* Every address is one of the handlers' sixteen.
LEMMA NibbleRange ==
  ASSUME NEW a \in Addresses16
  PROVE  Nibble(a) \in 0 .. 15
<1>1. a \in Int
  BY AddressBounds
<1> QED BY SMT, <1>1 DEF Nibble

LEMMA RegisterDecoding ==
  /\ Nibble(PAGE1_REG) = 14 /\ PAGE1_REG % 16 = 0
  /\ Nibble(PAGE2_REG) = 14 /\ PAGE2_REG % 16 = 1
BY SMT DEF Nibble, PAGE1_REG, PAGE2_REG

\* A cell as a linear form in the address and the bank.
LEMMA CellForms ==
  ASSUME NEW a \in Int, NEW p \in Int
  PROVE  /\ LowCell(a) = a
         /\ Himem1Cell(p, a) = 8192 * p + a
         /\ Himem2Cell(p, a) = 16384 * p + a + 2088960
BY SMT DEF LowCell, Himem1Cell, Himem2Cell, himem1_index, himem2_index,
       HIMEM1_START, HIMEM2_START, HIMEM1_START_IN_MEM, HIMEM2_START_IN_MEM,
       LOMEM_SIZE, HIMEM1_SIZE

\* Every access of mem_read, mem_write and mem_base stays inside the region it
\* indexes, whatever the bank (mem.c:96-107, mem.c:240-251, mem.c:300-317).
THEOREM CellsInRegion ==
  ASSUME NEW a \in Addresses16, NEW p \in BankNumbers
  PROVE  /\ InLomem(a)  => 0 <= LowCell(a) /\ LowCell(a) < LOMEM_SIZE
         /\ InHimem1(a) =>
              /\ 0 <= Himem1Cell(p, a) - HIMEM1_START_IN_MEM
              /\ Himem1Cell(p, a) - HIMEM1_START_IN_MEM < HIMEM1_SIZE
         /\ InHimem2(a) \/ InTop(a) =>
              /\ 0 <= Himem2Cell(p, a) - HIMEM2_START_IN_MEM
              /\ Himem2Cell(p, a) - HIMEM2_START_IN_MEM < HIMEM2_SIZE
<1>1. a \in Int /\ 0 <= a /\ a < 65536
  BY AddressBounds
<1>2. p \in Int /\ 0 <= p /\ p < 256
  BY BankBounds
<1>3. InLomem(a) => 0 <= LowCell(a) /\ LowCell(a) < LOMEM_SIZE
  <2>1. InLomem(a) => a < 40960
    BY SMT, <1>1, EntryRanges
  <2> QED BY SMT, <1>1, <2>1 DEF LowCell, LOMEM_SIZE
<1>4. InHimem1(a) =>
        /\ 0 <= Himem1Cell(p, a) - HIMEM1_START_IN_MEM
        /\ Himem1Cell(p, a) - HIMEM1_START_IN_MEM < HIMEM1_SIZE
  <2>1. InHimem1(a) => 40960 <= a /\ a < 49152
    BY SMT, <1>1, EntryRanges
  <2> QED BY SMT, <1>1, <1>2, <2>1 DEF Himem1Cell, himem1_index, HIMEM1_START,
             HIMEM1_START_IN_MEM, LOMEM_SIZE, HIMEM1_SIZE
<1>5. InHimem2(a) \/ InTop(a) =>
        /\ 0 <= Himem2Cell(p, a) - HIMEM2_START_IN_MEM
        /\ Himem2Cell(p, a) - HIMEM2_START_IN_MEM < HIMEM2_SIZE
  <2>1. InHimem2(a) \/ InTop(a) => 49152 <= a
    BY SMT, <1>1, EntryRanges
  <2> QED BY SMT, <1>1, <1>2, <2>1 DEF Himem2Cell, himem2_index, HIMEM2_START,
             HIMEM2_START_IN_MEM, LOMEM_SIZE, HIMEM1_SIZE, HIMEM2_SIZE
<1> QED BY <1>3, <1>4, <1>5

\* Which cells a window covers, and that within a window the cell tells the
\* bank and the address.
LEMMA LomemCells ==
  ASSUME NEW a \in Addresses16, InLomem(a)
  PROVE  LowCell(a) \in Int /\ LowCell(a) = a /\ LowCell(a) < 40960
<1>1. a \in Int /\ a < 40960
  BY AddressBounds, EntryRanges
<1> QED BY SMT, <1>1, CellForms DEF LowCell

LEMMA Himem1Cells ==
  ASSUME NEW a \in Addresses16, InHimem1(a), NEW p \in BankNumbers
  PROVE  /\ Himem1Cell(p, a) \in Int
         /\ 40960 <= Himem1Cell(p, a) /\ Himem1Cell(p, a) < 2138112
<1>1. a \in Int /\ 40960 <= a /\ a < 49152
  BY AddressBounds, EntryRanges
<1>2. p \in Int /\ 0 <= p /\ p < 256
  BY BankBounds
<1>3. Himem1Cell(p, a) = 8192 * p + a
  BY SMT, <1>1, <1>2, CellForms
<1> QED BY SMT, <1>1, <1>2, <1>3

LEMMA Himem2Cells ==
  ASSUME NEW a \in Addresses16, InHimem2(a) \/ InTop(a), NEW p \in BankNumbers
  PROVE  Himem2Cell(p, a) \in Int /\ 2138112 <= Himem2Cell(p, a)
<1>1. a \in Int /\ 49152 <= a /\ a < 65536
  BY AddressBounds, EntryRanges
<1>2. p \in Int /\ 0 <= p /\ p < 256
  BY BankBounds
<1>3. Himem2Cell(p, a) = 16384 * p + a + 2088960
  BY SMT, <1>1, <1>2, CellForms
<1> QED BY SMT, <1>1, <1>2, <1>3

LEMMA Himem1Injective ==
  ASSUME NEW a \in Addresses16, NEW b \in Addresses16,
         NEW p \in BankNumbers, NEW q \in BankNumbers,
         InHimem1(a), InHimem1(b), Himem1Cell(p, a) = Himem1Cell(q, b)
  PROVE  a = b /\ p = q
<1>1. /\ a \in Int /\ 40960 <= a /\ a < 49152
      /\ b \in Int /\ 40960 <= b /\ b < 49152
  BY AddressBounds, EntryRanges
<1>2. p \in Int /\ q \in Int
  BY BankBounds
<1>3. 8192 * p + a = 8192 * q + b
  BY SMT, <1>1, <1>2 DEF Himem1Cell, himem1_index, HIMEM1_START,
     HIMEM1_START_IN_MEM, LOMEM_SIZE
<1> QED BY SMT, <1>1, <1>2, <1>3

LEMMA Himem2Injective ==
  ASSUME NEW a \in Addresses16, NEW b \in Addresses16,
         NEW p \in BankNumbers, NEW q \in BankNumbers,
         InHimem2(a) \/ InTop(a), InHimem2(b) \/ InTop(b),
         Himem2Cell(p, a) = Himem2Cell(q, b)
  PROVE  a = b /\ p = q
<1>1. /\ a \in Int /\ 49152 <= a /\ a < 65536
      /\ b \in Int /\ 49152 <= b /\ b < 65536
  BY AddressBounds, EntryRanges
<1>2. p \in Int /\ q \in Int
  BY BankBounds
<1>3. 16384 * p + a = 16384 * q + b
  BY SMT, <1>1, <1>2 DEF Himem2Cell, himem2_index, HIMEM2_START,
     HIMEM2_START_IN_MEM, LOMEM_SIZE, HIMEM1_SIZE
<1> QED BY SMT, <1>1, <1>2, <1>3

\* What mem_base returns, window by window, and that it is injective: two
\* addresses share a byte only if they are the same address.
LEMMA MemBaseCases ==
  ASSUME NEW a \in Addresses16, NEW p, NEW q
  PROVE  /\ InLomem(a) => MemBase(a, p, q) = LowCell(a)
         /\ InHimem1(a) => MemBase(a, p, q) = Himem1Cell(p, a)
         /\ InHimem2(a) \/ InTop(a) => MemBase(a, p, q) = Himem2Cell(q, a)
         /\ InLomem(a) \/ InHimem1(a) \/ InHimem2(a) \/ InTop(a)
         /\ ~(InLomem(a) /\ InHimem1(a)) /\ ~(InLomem(a) /\ InHimem2(a))
         /\ ~(InLomem(a) /\ InTop(a)) /\ ~(InHimem1(a) /\ InHimem2(a))
         /\ ~(InHimem1(a) /\ InTop(a)) /\ ~(InHimem2(a) /\ InTop(a))
<1>1. a \in Int /\ 0 <= a /\ a < 65536
  BY AddressBounds
<1>2. /\ InLomem(a) \/ InHimem1(a) \/ InHimem2(a) \/ InTop(a)
      /\ ~(InLomem(a) /\ InHimem1(a)) /\ ~(InLomem(a) /\ InHimem2(a))
      /\ ~(InLomem(a) /\ InTop(a)) /\ ~(InHimem1(a) /\ InHimem2(a))
      /\ ~(InHimem1(a) /\ InTop(a)) /\ ~(InHimem2(a) /\ InTop(a))
  BY SMT, <1>1, EntryRanges
<1> QED BY <1>2 DEF MemBase

LEMMA MemBaseInt ==
  ASSUME NEW a \in Addresses16, NEW p \in BankNumbers, NEW q \in BankNumbers
  PROVE  MemBase(a, p, q) \in Int
BY MemBaseCases, LomemCells, Himem1Cells, Himem2Cells

\* A byte of the top page in bank 0 is reached by its own address only.
LEMMA PinnedCellsOwn ==
  ASSUME NEW a \in Addresses16, NEW r \in Addresses16, InTop(r), a # r,
         NEW p \in BankNumbers, NEW q \in BankNumbers
  PROVE  MemBase(a, p, q) # PinnedCell(r)
<1> DEFINE pinned == Himem2Cell(0, r)
<1>1. 0 \in BankNumbers
  BY DEF BankNumbers
<1>2. pinned \in Int /\ 2138112 <= pinned
  BY <1>1, Himem2Cells
<1>3. CASE InLomem(a)
  <2>1. LowCell(a) \in Int /\ LowCell(a) < 40960
    BY <1>3, LomemCells
  <2>2. LowCell(a) # pinned
    BY SMT, <1>2, <2>1
  <2> QED BY <1>3, <2>2, MemBaseCases DEF PinnedCell
<1>4. CASE InHimem1(a)
  <2>1. Himem1Cell(p, a) \in Int /\ Himem1Cell(p, a) < 2138112
    BY <1>4, Himem1Cells
  <2>2. Himem1Cell(p, a) # pinned
    BY SMT, <1>2, <2>1
  <2> QED BY <1>4, <2>2, MemBaseCases DEF PinnedCell
<1>5. CASE InHimem2(a) \/ InTop(a)
  <2>1. Himem2Cell(q, a) # pinned
    BY <1>1, <1>5, Himem2Injective
  <2> QED BY <1>5, <2>1, MemBaseCases DEF PinnedCell
<1> QED BY <1>3, <1>4, <1>5, MemBaseCases

\* The registers of the top page.
LEMMA TopRegistersInTop ==
  ASSUME NEW r \in TopRegisters
  PROVE  r \in Addresses16 /\ InTop(r)
<1>1. r \in Int /\ 65504 <= r /\ r <= 65535
  BY SMT DEF TopRegisters, Vectors, ASSIST_LOW, ASSIST_HIGH, PAGE1_REG, PAGE2_REG
<1>2. r \in Addresses16
  BY SMT, <1>1, AddressIntro
<1>3. InTop(r)
  BY SMT, <1>1, <1>2, EntryRanges
<1> QED BY <1>2, <1>3

\* The bytes of a buffer in one window are the bytes at its addresses.
LEMMA BufferCell ==
  ASSUME NEW a \in Addresses16, NEW n \in Nat, InOneWindow(a, a + n - 1),
         NEW i \in 0 .. n - 1, NEW p \in BankNumbers, NEW q \in BankNumbers
  PROVE  /\ a + i \in Addresses16 /\ ~ InTop(a + i)
         /\ MemBase(a, p, q) + i = MemBase(a + i, p, q)
<1> DEFINE b == a + n - 1
           c == a + i
<1>1. /\ a \in Int /\ 0 <= a /\ b \in Int /\ c \in Int
      /\ a <= c /\ c <= b
      /\ p \in Int /\ q \in Int
  BY SMT, AddressBounds, BankBounds
<1>2. CASE InLomem(a) /\ InLomem(b)
  <2>1. InLomem(c) /\ c < 40960
    BY SMT, <1>1, <1>2, EntryRanges
  <2>2. c \in Addresses16
    BY SMT, <1>1, <2>1, AddressIntro
  <2>3. LowCell(a) + i = LowCell(c)
    BY SMT DEF LowCell
  <2> QED BY <1>2, <2>1, <2>2, <2>3, MemBaseCases
<1>3. CASE InHimem1(a) /\ InHimem1(b)
  <2>1. InHimem1(c) /\ c < 49152
    BY SMT, <1>1, <1>3, EntryRanges
  <2>2. c \in Addresses16
    BY SMT, <1>1, <2>1, AddressIntro
  <2>3. Himem1Cell(p, a) + i = Himem1Cell(p, c)
    BY SMT, <1>1 DEF Himem1Cell, himem1_index, HIMEM1_START, HIMEM1_START_IN_MEM,
       LOMEM_SIZE
  <2> QED BY <1>3, <2>1, <2>2, <2>3, MemBaseCases
<1>4. CASE InHimem2(a) /\ InHimem2(b)
  <2>1. InHimem2(c) /\ c < 61440
    BY SMT, <1>1, <1>4, EntryRanges
  <2>2. c \in Addresses16
    BY SMT, <1>1, <2>1, AddressIntro
  <2>3. Himem2Cell(q, a) + i = Himem2Cell(q, c)
    BY SMT, <1>1 DEF Himem2Cell, himem2_index, HIMEM2_START, HIMEM2_START_IN_MEM,
       LOMEM_SIZE, HIMEM1_SIZE
  <2> QED BY <1>4, <2>1, <2>2, <2>3, MemBaseCases
<1> QED BY <1>2, <1>3, <1>4 DEF InOneWindow

-----------------------------------------------------------------------------
(***************************************************************************)
(* The type invariant.                                                     *)
(***************************************************************************)
\* ram, whose domain no step changes, and the two results of a call.
LEMMA AnsweredType ==
  ASSUME NEW m \in [Cells -> Bytes], NEW ret \in Bytes, NEW err \in Bytes
  PROVE  Answered(m, ret, err) \in [Cells -> Bytes]
BY DEF Answered

LEMMA DepositType ==
  ASSUME TypeOK, NEW v \in Bytes
  PROVE  Deposit(v) \in [Cells -> Bytes]
BY DEF TypeOK, Deposit

LEMMA FilledType ==
  ASSUME NEW m \in [Cells -> Bytes], NEW n \in Int, NEW base,
         NEW data \in [0 .. n -> Bytes]
  PROVE  Filled(m, base, data) \in [Cells -> Bytes]
BY DEF Filled

LEMMA InstallType ==
  ASSUME TypeOK, NEW device \in Units, Install(device)
  PROVE  /\ io_write_top_handler' \in [0 .. 15 -> Devices \cup {"none"}]
         /\ io_read_top_handler' \in [0 .. 15 -> Devices \cup {"none"}]
<1> USE UnitsAssumption DEF TypeOK, Install, Devices
<1>1. CASE device = "fb"
  BY <1>1
<1>2. CASE device = "time"
  BY <1>2
<1>3. CASE device = "mmu"
  BY <1>3
<1>4. CASE device = "mbox"
  BY <1>4
<1> QED BY <1>1, <1>2, <1>3, <1>4

LEMMA BufferBounds ==
  ASSUME NEW buffer \in Buffers
  PROVE  /\ buffer[1] \in Addresses16
         /\ buffer[2] \in Int /\ buffer[2] - 1 \in Int /\ 1 <= buffer[2]
BY BuffersAssumption

\* The type invariant: no address, bank or call takes a byte, a bank number or
\* a handler out of its type (mem.c and mmu.c as a whole).
LEMMA TypeStep ==
  ASSUME TypeOK, [Next]_vars
  PROVE  TypeOK'
<1> USE BytesAssumption DEF pages, handlers
<1>1. CASE UNCHANGED vars
  BY <1>1 DEF TypeOK, vars
<1>2. ASSUME NEW a \in Addresses, NEW v \in Bytes, MemWrite(a, v)
      PROVE  TypeOK'
  <2>1. CASE WriteRam(a, v)
    BY <2>1 DEF TypeOK, WriteRam, SetByte
  <2>2. CASE WritePinned(a, v)
    BY <2>2 DEF TypeOK, WritePinned, SetByte
  <2>3. CASE WritePageRegister(a, v)
    BY <2>3 DEF TypeOK, WritePageRegister, SetByte
  <2>4. CASE WriteDevice(a, v)
    BY <2>4 DEF TypeOK, WriteDevice, MmuWrite, SetByte, vars
  <2>5. CASE WriteTopRam(a, v)
    BY <2>5 DEF TypeOK, WriteTopRam, SetByte
  <2>6. CASE AssistNothing(v)
    <3>1. PICK ret \in Bytes, err \in Bytes : ram' = Answered(Deposit(v), ret, err)
      BY <2>6 DEF AssistNothing
    <3>2. Deposit(v) \in [Cells -> Bytes]
      BY DepositType
    <3>3. ram' \in [Cells -> Bytes]
      BY <3>1, <3>2, AnsweredType
    <3> QED BY <2>6, <3>3 DEF TypeOK, AssistNothing
  <2>7. CASE AssistFill(v)
    <3>1. PICK buffer \in Buffers : \E data \in [0 .. buffer[2] - 1 -> Bytes] :
            \E ret, err \in Bytes :
              ram' = Answered(Filled(Deposit(v), Mapped(buffer[1]), data), ret, err)
      BY <2>7 DEF AssistFill
    <3>2. PICK data \in [0 .. buffer[2] - 1 -> Bytes], ret \in Bytes, err \in Bytes :
            ram' = Answered(Filled(Deposit(v), Mapped(buffer[1]), data), ret, err)
      BY <3>1
    <3>3. buffer[2] - 1 \in Int
      BY BufferBounds
    <3>4. Deposit(v) \in [Cells -> Bytes]
      BY DepositType
    <3>5. Filled(Deposit(v), Mapped(buffer[1]), data) \in [Cells -> Bytes]
      BY <3>3, <3>4, FilledType
    <3>6. ram' \in [Cells -> Bytes]
      BY <3>2, <3>5, AnsweredType
    <3> QED BY <2>7, <3>6 DEF TypeOK, AssistFill
  <2>8. CASE AssistInstall(v)
    <3>1. PICK device \in Units : Install(device)
      BY <2>8 DEF AssistInstall
    <3>2. PICK ret \in Bytes, err \in Bytes : ram' = Answered(Deposit(v), ret, err)
      BY <2>8 DEF AssistInstall
    <3>3. Deposit(v) \in [Cells -> Bytes]
      BY DepositType
    <3>4. ram' \in [Cells -> Bytes]
      BY <3>2, <3>3, AnsweredType
    <3>5. /\ io_write_top_handler' \in [0 .. 15 -> Devices \cup {"none"}]
          /\ io_read_top_handler' \in [0 .. 15 -> Devices \cup {"none"}]
      BY <3>1, InstallType
    <3> QED BY <2>8, <3>4, <3>5 DEF TypeOK, AssistInstall
  <2> QED BY <1>2, <2>1, <2>2, <2>3, <2>4, <2>5, <2>6, <2>7, <2>8 DEF MemWrite
<1> QED BY <1>1, <1>2 DEF Next

THEOREM TypeCorrect == Spec => []TypeOK
<1>1. Init => TypeOK
  BY BytesAssumption DEF Init, TypeOK
<1>2. TypeOK /\ [Next]_vars => TypeOK'
  BY TypeStep
<1> QED BY <1>1, <1>2, PTL DEF Spec

-----------------------------------------------------------------------------
(***************************************************************************)
(* The bank registers.                                                     *)
(***************************************************************************)
Registers == {PAGE1_REG, PAGE2_REG}

LEMMA RegistersTop ==
  ASSUME NEW r \in Registers
  PROVE  r \in Addresses16 /\ InTop(r) /\ r \in TopRegisters
BY TopRegistersInTop DEF Registers, TopRegisters

LEMMA RegisterNumbers ==
  /\ PAGE1_REG # PAGE2_REG
  /\ ASSIST_LOW \notin Registers /\ ASSIST_HIGH \notin Registers
  /\ \A a \in Vectors : a \notin Registers
BY SMT DEF Registers, PAGE1_REG, PAGE2_REG, ASSIST_LOW, ASSIST_HIGH, Vectors

LEMMA ZeroBank == 0 \in BankNumbers /\ 0 \in Bytes /\ Bytes \subseteq BankNumbers
BY BytesAssumption

\* A pinned byte is in "mem", and belongs to one address.
LEMMA PinnedInMemory ==
  ASSUME NEW r \in TopRegisters
  PROVE  PinnedCell(r) \in Cells
<1>1. PinnedCell(r) \in PinnedCells
  BY DEF PinnedCells
<1> QED BY <1>1 DEF Cells

LEMMA PinnedCellsDiffer ==
  ASSUME NEW a \in TopRegisters, NEW r \in TopRegisters, a # r
  PROVE  PinnedCell(a) # PinnedCell(r)
<1>1. /\ a \in Addresses16 /\ InTop(a)
      /\ r \in Addresses16 /\ InTop(r)
  BY TopRegistersInTop
<1>2. Himem2Cell(0, a) # Himem2Cell(0, r)
  BY <1>1, ZeroBank, Himem2Injective
<1> QED BY <1>2 DEF PinnedCell

\* Storing at an address leaves the copy of another register alone.
LEMMA MappedNotRegister ==
  ASSUME TypeOK, NEW a \in Addresses, NEW r \in Registers, a # r
  PROVE  Mapped(a) # PinnedCell(r)
<1>1. a \in Addresses16
  BY AddressesAssumption
<1>2. himem1_page \in BankNumbers /\ himem2_page \in BankNumbers
  BY BytesAssumption DEF TypeOK
<1>3. r \in Addresses16 /\ InTop(r)
  BY RegistersTop
<1> QED BY <1>1, <1>2, <1>3, PinnedCellsOwn DEF Mapped

\* Neither does a call: its answer goes to the two bytes of the request's
\* address, and its data to a buffer outside the top page.
LEMMA CallKeepsRegister ==
  ASSUME TypeOK, NEW r \in Registers, NEW v \in Bytes,
         NEW ret \in Bytes, NEW err \in Bytes,
         NEW m \in [Cells -> Bytes],
         m[PinnedCell(r)] = ram[PinnedCell(r)]
  PROVE  Answered(m, ret, err)[PinnedCell(r)] = ram[PinnedCell(r)]
<1>1. PinnedCell(r) # PinnedCell(ASSIST_LOW) /\ PinnedCell(r) # PinnedCell(ASSIST_HIGH)
  BY RegistersTop, RegisterNumbers, PinnedCellsDiffer DEF TopRegisters
<1>2. PinnedCell(r) \in Cells
  BY RegistersTop, PinnedInMemory
<1> QED BY <1>1, <1>2 DEF Answered

LEMMA DepositKeepsRegister ==
  ASSUME TypeOK, NEW r \in Registers, NEW v \in Bytes
  PROVE  Deposit(v)[PinnedCell(r)] = ram[PinnedCell(r)]
<1>1. PinnedCell(r) # PinnedCell(ASSIST_HIGH)
  BY RegistersTop, RegisterNumbers, PinnedCellsDiffer DEF TopRegisters
<1>2. PinnedCell(r) \in Cells
  BY RegistersTop, PinnedInMemory
<1> QED BY <1>1, <1>2 DEF Deposit, TypeOK

LEMMA FillKeepsRegister ==
  ASSUME TypeOK, BuffersInWindow, NEW r \in Registers, NEW buffer \in Buffers,
         NEW data \in [0 .. buffer[2] - 1 -> Bytes], NEW m \in [Cells -> Bytes]
  PROVE  Filled(m, Mapped(buffer[1]), data)[PinnedCell(r)] = m[PinnedCell(r)]
<1> DEFINE base == Mapped(buffer[1])
           pinned == PinnedCell(r)
<1>1. ASSUME pinned - base \in 0 .. buffer[2] - 1
      PROVE  FALSE
  <2> DEFINE i == pinned - base
  <2>1. /\ buffer[1] \in Addresses16 /\ buffer[2] \in Nat
        /\ InOneWindow(buffer[1], buffer[1] + buffer[2] - 1)
    BY BuffersAssumption DEF BuffersInWindow
  <2>2. himem1_page \in BankNumbers /\ himem2_page \in BankNumbers
    BY BytesAssumption DEF TypeOK
  <2>3. /\ buffer[1] + i \in Addresses16 /\ ~ InTop(buffer[1] + i)
        /\ base + i = MemBase(buffer[1] + i, himem1_page, himem2_page)
    BY <1>1, <2>1, <2>2, BufferCell DEF Mapped
  <2>4. MemBase(buffer[1] + i, himem1_page, himem2_page) # pinned
    BY <2>2, <2>3, RegistersTop, PinnedCellsOwn
  <2>5. base \in Int /\ pinned \in Int
    <3>1. pinned \in Int
      BY RegistersTop, ZeroBank, Himem2Cells DEF PinnedCell
    <3>2. base \in Int
      BY <2>1, <2>2, MemBaseInt DEF Mapped
    <3> QED BY <3>1, <3>2
  <2>6. base + i = pinned
    BY SMT, <2>5
  <2> QED BY <2>3, <2>4, <2>6
<1>2. pinned \in Cells
  BY RegistersTop, PinnedInMemory
<1> QED BY <1>1, <1>2 DEF Filled

LEMMA RegisterStep ==
  ASSUME TypeOK, RegisterInvariant, BuffersInWindow, [Next]_vars
  PROVE  RegisterInvariant'
<1> USE DEF pages, handlers
<1>1. CASE UNCHANGED vars
  BY <1>1 DEF RegisterInvariant, vars
<1>2. ASSUME NEW a \in Addresses, NEW v \in Bytes, MemWrite(a, v)
      PROVE  RegisterInvariant'
  <2> DEFINE Same == \A r \in Registers : ram'[PinnedCell(r)] = ram[PinnedCell(r)]
  <2>a. PinnedCell(PAGE1_REG) \in Cells /\ PinnedCell(PAGE2_REG) \in Cells
    BY PinnedInMemory DEF TopRegisters
  <2>b. ASSUME Same, UNCHANGED <<himem1_page, himem2_page, io_write_top_handler,
                                 io_read_top_handler>>
        PROVE  RegisterInvariant'
    BY <2>b DEF RegisterInvariant, Registers
  <2>1. CASE WriteRam(a, v)
    <3>1. a \notin Registers
      BY <2>1, RegistersTop DEF WriteRam
    <3>2. Same
      BY <2>1, <2>a, <3>1, MappedNotRegister DEF WriteRam, SetByte, TypeOK, Registers
    <3> QED BY <2>1, <2>b, <3>2 DEF WriteRam
  <2>2. CASE WritePinned(a, v)
    <3>1. a \in TopRegisters /\ a \notin Registers
      BY <2>2, RegisterNumbers DEF WritePinned, TopRegisters
    <3>2. \A r \in Registers : PinnedCell(a) # PinnedCell(r)
      BY <3>1, RegistersTop, PinnedCellsDiffer
    <3>3. Same
      BY <2>2, <2>a, <3>2 DEF WritePinned, SetByte, TypeOK, Registers
    <3> QED BY <2>2, <2>b, <3>3 DEF WritePinned
  <2>3. CASE WritePageRegister(a, v)
    <3>1. PinnedCell(PAGE1_REG) # PinnedCell(PAGE2_REG)
      BY RegisterNumbers, PinnedCellsDiffer DEF TopRegisters
    <3> QED BY <2>3, <2>a, <3>1
            DEF WritePageRegister, SetByte, TypeOK, RegisterInvariant
  <2>4. CASE WriteDevice(a, v)
    <3>1. CASE io_write_top_handler[Nibble(a)] = "mmu"
      <4>1. Nibble(a) \in 0 .. 15
        BY AddressesAssumption, NibbleRange
      <4>2. io_read_top_handler[14] = "mmu"
        BY <3>1, <4>1 DEF RegisterInvariant
      <4>3. UNCHANGED <<io_write_top_handler, io_read_top_handler>>
        BY <2>4, <3>1 DEF WriteDevice, MmuWrite, vars
      <4> QED BY <4>2, <4>3 DEF RegisterInvariant
    <3>2. CASE io_write_top_handler[Nibble(a)] # "mmu"
      BY <2>4, <3>2 DEF WriteDevice, RegisterInvariant, vars
    <3> QED BY <3>1, <3>2
  <2>5. CASE WriteTopRam(a, v)
    <3>1. a \notin Registers
      BY <2>5, RegistersTop DEF WriteTopRam
    <3>2. Same
      BY <2>5, <2>a, <3>1, MappedNotRegister DEF WriteTopRam, SetByte, TypeOK, Registers
    <3> QED BY <2>5, <2>b, <3>2 DEF WriteTopRam
  <2>6. CASE AssistNothing(v)
    <3>1. PICK ret \in Bytes, err \in Bytes : ram' = Answered(Deposit(v), ret, err)
      BY <2>6 DEF AssistNothing
    <3>2. Same
      BY <3>1, DepositType, DepositKeepsRegister, CallKeepsRegister
    <3> QED BY <2>6, <2>b, <3>2 DEF AssistNothing
  <2>7. CASE AssistFill(v)
    <3>1. PICK buffer \in Buffers : \E data \in [0 .. buffer[2] - 1 -> Bytes] :
            \E ret, err \in Bytes :
              ram' = Answered(Filled(Deposit(v), Mapped(buffer[1]), data), ret, err)
      BY <2>7 DEF AssistFill
    <3>2. PICK data \in [0 .. buffer[2] - 1 -> Bytes], ret \in Bytes, err \in Bytes :
            ram' = Answered(Filled(Deposit(v), Mapped(buffer[1]), data), ret, err)
      BY <3>1
    <3> DEFINE m == Filled(Deposit(v), Mapped(buffer[1]), data)
    <3>3. m \in [Cells -> Bytes]
      BY BufferBounds, DepositType, FilledType
    <3>4. \A r \in Registers : m[PinnedCell(r)] = ram[PinnedCell(r)]
      BY DepositType, DepositKeepsRegister, FillKeepsRegister
    <3>5. Same
      BY <3>2, <3>3, <3>4, CallKeepsRegister
    <3> QED BY <2>7, <2>b, <3>5 DEF AssistFill
  <2>8. CASE AssistInstall(v)
    <3>1. PICK ret \in Bytes, err \in Bytes : ram' = Answered(Deposit(v), ret, err)
      BY <2>8 DEF AssistInstall
    <3>2. Same
      BY <3>1, DepositType, DepositKeepsRegister, CallKeepsRegister
    <3>3. UNCHANGED <<himem1_page, himem2_page>>
      BY <2>8 DEF AssistInstall
    <3>4. PICK device \in Units : Install(device)
      BY <2>8 DEF AssistInstall
    <3>5. CASE device = "mmu"
      <4>1. io_read_top_handler'[14] = "mmu"
        BY <3>4, <3>5 DEF Install, TypeOK
      <4> QED BY <4>1 DEF RegisterInvariant
    <3>6. CASE device # "mmu"
      <4>a. device \in {"fb", "time", "mbox"}
        BY <3>6, UnitsAssumption
      <4>1. io_read_top_handler'[14] = io_read_top_handler[14]
        <5>1. CASE device = "fb"
          BY <3>4, <5>1 DEF Install, TypeOK
        <5>2. CASE device = "time"
          BY <3>4, <5>2 DEF Install, TypeOK
        <5>3. CASE device = "mbox"
          BY <3>4, <5>3 DEF Install, TypeOK
        <5> QED BY <4>a, <5>1, <5>2, <5>3
      <4>2. \A n \in 0 .. 15 : io_write_top_handler'[n] = "mmu" =>
                               io_write_top_handler[n] = "mmu"
        BY <3>4, <4>a DEF Install, TypeOK
      <4> QED BY <3>2, <3>3, <4>1, <4>2 DEF RegisterInvariant, Registers
    <3> QED BY <3>5, <3>6
  <2> QED BY <1>2, <2>1, <2>2, <2>3, <2>4, <2>5, <2>6, <2>7, <2>8 DEF MemWrite
<1> QED BY <1>1, <1>2 DEF Next

LEMMA RegistersRead ==
  ASSUME TypeOK, RegisterInvariant
  PROVE  PageRegistersCoherent
<1>1. InTop(PAGE1_REG) /\ InTop(PAGE2_REG)
  BY RegistersTop DEF Registers
<1>2. CASE io_read_top_handler[14] = "none"
  BY <1>1, <1>2, RegisterDecoding DEF PageRegistersCoherent, Read, RegisterInvariant
<1>3. CASE io_read_top_handler[14] = "mmu"
  BY <1>1, <1>3, RegisterDecoding DEF PageRegistersCoherent, Read, MmuRead
<1> QED BY <1>2, <1>3 DEF RegisterInvariant

\* The bank registers read back as the selected banks, always: the statement of
\* PageRegistersCoherent, for programs whose buffers lie within a window
\* (mem.c:135-145, mem.c:256-268, mmu.c:26-72).
THEOREM RegistersCoherent ==
  ASSUME BuffersInWindow
  PROVE  Spec => [](RegisterInvariant /\ PageRegistersCoherent)
<1>1. Init => TypeOK /\ RegisterInvariant
  <2>1. PinnedCell(PAGE1_REG) \in Cells /\ PinnedCell(PAGE2_REG) \in Cells
    BY PinnedInMemory DEF TopRegisters
  <2> QED BY <2>1, BytesAssumption DEF Init, TypeOK, RegisterInvariant
<1>2. TypeOK /\ RegisterInvariant /\ [Next]_vars => (TypeOK /\ RegisterInvariant)'
  BY TypeStep, RegisterStep
<1>3. TypeOK /\ RegisterInvariant => PageRegistersCoherent
  BY RegistersRead
<1> QED BY <1>1, <1>2, <1>3, PTL DEF Spec

\* Why they do: as long as no device answers for the copies in bank 0 they are up
\* to date, and once the mmu takes writes it answers reads as well (mem.c:135-145,
\* mmu.c:26-62).
THEOREM CopiesKept ==
  ASSUME BuffersInWindow
  PROVE  Spec => []RegisterInvariant
BY RegistersCoherent, PTL

-----------------------------------------------------------------------------
(***************************************************************************)
(* The implementation of BankedStore.                                      *)
(***************************************************************************)
LEMMA VectorsInTop ==
  ASSUME NEW a \in Vectors
  PROVE  /\ a \in TopRegisters /\ a \in Addresses16 /\ InTop(a)
         /\ ~ InLomem(a) /\ ~ InHimem1(a) /\ ~ InHimem2(a)
<1>1. a \in TopRegisters
  BY DEF TopRegisters
<1>2. a \in Addresses16 /\ InTop(a)
  BY <1>1, TopRegistersInTop
<1> QED BY <1>1, <1>2, MemBaseCases

\* The cell of the slot a program sees at an address.
LEMMA SlotCases ==
  ASSUME NEW a \in Addresses16, NEW p, NEW q
  PROVE  /\ InLomem(a) => /\ Slot(a, p, q) = <<"lomem", 0, a>>
                          /\ SlotCell(Slot(a, p, q)) = LowCell(a)
         /\ InHimem1(a) => /\ Slot(a, p, q) = <<"himem1", p, a>>
                           /\ SlotCell(Slot(a, p, q)) = Himem1Cell(p, a)
         /\ InHimem2(a) => /\ Slot(a, p, q) = <<"himem2", q, a>>
                           /\ SlotCell(Slot(a, p, q)) = Himem2Cell(q, a)
         /\ a \in Vectors => /\ Slot(a, p, q) = <<"vector", 0, a>>
                             /\ SlotCell(Slot(a, p, q)) = PinnedCell(a)
<1>1. CASE InLomem(a)
  <2>1. Slot(a, p, q) = <<"lomem", 0, a>>
    BY <1>1, MemBaseCases, VectorsInTop DEF Slot
  <2>2. SlotCell(<<"lomem", 0, a>>) = LowCell(a)
    BY DEF SlotCell
  <2> QED BY <1>1, <2>1, <2>2, MemBaseCases, VectorsInTop
<1>2. CASE InHimem1(a)
  <2>1. Slot(a, p, q) = <<"himem1", p, a>>
    BY <1>2, MemBaseCases, VectorsInTop DEF Slot
  <2>2. SlotCell(<<"himem1", p, a>>) = Himem1Cell(p, a)
    BY DEF SlotCell
  <2> QED BY <1>2, <2>1, <2>2, MemBaseCases, VectorsInTop
<1>3. CASE InHimem2(a)
  <2>1. Slot(a, p, q) = <<"himem2", q, a>>
    BY <1>3, MemBaseCases, VectorsInTop DEF Slot
  <2>2. SlotCell(<<"himem2", q, a>>) = Himem2Cell(q, a)
    BY DEF SlotCell
  <2> QED BY <1>3, <2>1, <2>2, MemBaseCases, VectorsInTop
<1>4. CASE a \in Vectors
  <2>1. Slot(a, p, q) = <<"vector", 0, a>>
    BY <1>4, MemBaseCases, VectorsInTop DEF Slot
  <2>2. SlotCell(<<"vector", 0, a>>) = PinnedCell(a)
    BY DEF SlotCell
  <2> QED BY <1>4, <2>1, <2>2, MemBaseCases, VectorsInTop
<1> QED BY <1>1, <1>2, <1>3, <1>4

\* Two slots share no cell: the arithmetic of the three windows, and of the
\* vectors among them.
LEMMA SlotCellInjective ==
  ASSUME NEW a \in Addresses16, NEW b \in Addresses16,
         NEW p \in BankNumbers, NEW q \in BankNumbers,
         NEW p2 \in BankNumbers, NEW q2 \in BankNumbers,
         Storable(a), Storable(b),
         SlotCell(Slot(a, p, q)) = SlotCell(Slot(b, p2, q2))
  PROVE  Slot(a, p, q) = Slot(b, p2, q2)
<1> DEFINE c == SlotCell(Slot(a, p, q))
           d == SlotCell(Slot(b, p2, q2))
<1>a. 0 \in BankNumbers
  BY ZeroBank
<1>b. /\ InLomem(a) => c \in Int /\ c = a /\ c < 40960
      /\ InLomem(b) => d \in Int /\ d = b /\ d < 40960
  BY SlotCases, LomemCells
<1>c. /\ InHimem1(a) => c \in Int /\ 40960 <= c /\ c < 2138112
      /\ InHimem1(b) => d \in Int /\ 40960 <= d /\ d < 2138112
  BY SlotCases, Himem1Cells
<1>d. /\ InHimem2(a) => c \in Int /\ 2138112 <= c
      /\ InHimem2(b) => d \in Int /\ 2138112 <= d
  BY SlotCases, Himem2Cells
<1>e. /\ a \in Vectors => c \in Int /\ 2138112 <= c
      /\ b \in Vectors => d \in Int /\ 2138112 <= d
  BY <1>a, SlotCases, VectorsInTop, Himem2Cells DEF PinnedCell
<1>1. CASE InLomem(a)
  <2>1. InLomem(b)
    BY SMT, <1>1, <1>b, <1>c, <1>d, <1>e DEF Storable
  <2> QED BY <1>1, <2>1, <1>b, SlotCases
<1>2. CASE InHimem1(a)
  <2>1. InHimem1(b)
    BY SMT, <1>2, <1>b, <1>c, <1>d, <1>e DEF Storable
  <2>2. a = b /\ p = p2
    BY <1>2, <2>1, SlotCases, Himem1Injective
  <2> QED BY <1>2, <2>1, <2>2, SlotCases
<1>3. CASE InHimem2(a)
  <2>1. InHimem2(b) \/ b \in Vectors
    BY SMT, <1>3, <1>b, <1>c, <1>d, <1>e DEF Storable
  <2>2. CASE InHimem2(b)
    <3>1. a = b /\ q = q2
      BY <1>3, <2>2, SlotCases, Himem2Injective
    <3> QED BY <1>3, <2>2, <3>1, SlotCases
  <2>3. CASE b \in Vectors
    <3>1. a = b
      BY <1>3, <1>a, <2>3, SlotCases, VectorsInTop, Himem2Injective DEF PinnedCell
    <3> QED BY <1>3, <2>3, <3>1, VectorsInTop
  <2> QED BY <2>1, <2>2, <2>3
<1>4. CASE a \in Vectors
  <2>1. InHimem2(b) \/ b \in Vectors
    BY SMT, <1>4, <1>b, <1>c, <1>d, <1>e DEF Storable
  <2>2. CASE InHimem2(b)
    <3>1. a = b
      BY <1>4, <1>a, <2>2, SlotCases, VectorsInTop, Himem2Injective DEF PinnedCell
    <3> QED BY <1>4, <2>2, <3>1, VectorsInTop
  <2>3. CASE b \in Vectors
    <3>1. a = b
      BY <1>4, <1>a, <2>3, SlotCases, VectorsInTop, Himem2Injective DEF PinnedCell
    <3> QED BY <1>4, <2>3, <3>1, SlotCases
  <2> QED BY <2>1, <2>2, <2>3
<1> QED BY <1>1, <1>2, <1>3, <1>4 DEF Storable
LEMMA PagesAreBanks ==
  ASSUME TypeOK
  PROVE  himem1_page \in BankNumbers /\ himem2_page \in BankNumbers
BY BytesAssumption DEF TypeOK

LEMMA ProgramSlotForm ==
  ASSUME NEW slot \in ProgramSlots
  PROVE  \E a \in Addresses, p \in Bytes, q \in Bytes :
            Storable(a) /\ slot = Slot(a, p, q)
BY DEF ProgramSlots, SlotsOf

LEMMA SlotInMemory ==
  ASSUME NEW slot \in ProgramSlots
  PROVE  SlotCell(slot) \in Cells
<1>1. PICK a \in Addresses, p \in Bytes, q \in Bytes :
         Storable(a) /\ slot = Slot(a, p, q)
  BY ProgramSlotForm
<1>2. a \in Addresses16
  BY AddressesAssumption
<1>3. CASE a \in Vectors
  BY <1>1, <1>2, <1>3, SlotCases, VectorsInTop, PinnedInMemory
<1>4. CASE a \notin Vectors
  <2>1. SlotCell(slot) = MemBase(a, p, q)
    BY <1>1, <1>2, <1>4, SlotCases, MemBaseCases DEF Storable
  <2>2. MemBase(a, p, q) \in ProgramCells
    BY DEF ProgramCells
  <2> QED BY <2>1, <2>2 DEF Cells
<1> QED BY <1>3, <1>4

LEMMA SlotCellEqual ==
  ASSUME NEW slot \in ProgramSlots, NEW b \in Addresses16,
         NEW p \in BankNumbers, NEW q \in BankNumbers, Storable(b),
         SlotCell(slot) = SlotCell(Slot(b, p, q))
  PROVE  slot = Slot(b, p, q)
<1>1. PICK a \in Addresses, p2 \in Bytes, q2 \in Bytes :
         Storable(a) /\ slot = Slot(a, p2, q2)
  BY ProgramSlotForm
<1>2. a \in Addresses16 /\ p2 \in BankNumbers /\ q2 \in BankNumbers
  BY AddressesAssumption, BytesAssumption
<1> QED BY <1>1, <1>2, SlotCellInjective

\* The rest of the top page is nobody's slot.
LEMMA TopIsNoSlot ==
  ASSUME NEW slot \in ProgramSlots, NEW b \in Addresses16, InTop(b),
         b \notin Vectors, NEW p \in BankNumbers
  PROVE  SlotCell(slot) # Himem2Cell(p, b)
<1>1. PICK a \in Addresses, p2 \in Bytes, q2 \in Bytes :
         Storable(a) /\ slot = Slot(a, p2, q2)
  BY ProgramSlotForm
<1>2. /\ a \in Addresses16 /\ p2 \in BankNumbers /\ q2 \in BankNumbers
      /\ 0 \in BankNumbers
  BY AddressesAssumption, BytesAssumption
<1>3. Himem2Cell(p, b) \in Int /\ 2138112 <= Himem2Cell(p, b)
  BY Himem2Cells
<1>4. CASE InLomem(a)
  <2>1. SlotCell(slot) \in Int /\ SlotCell(slot) < 40960
    BY <1>1, <1>2, <1>4, SlotCases, LomemCells
  <2> QED BY SMT, <1>3, <2>1
<1>5. CASE InHimem1(a)
  <2>1. SlotCell(slot) \in Int /\ SlotCell(slot) < 2138112
    BY <1>1, <1>2, <1>5, SlotCases, Himem1Cells
  <2> QED BY SMT, <1>3, <2>1
<1>6. CASE InHimem2(a)
  <2>1. SlotCell(slot) = Himem2Cell(q2, a)
    BY <1>1, <1>2, <1>6, SlotCases
  <2>2. a # b
    BY <1>2, <1>6, MemBaseCases
  <2> QED BY <1>2, <1>6, <2>1, <2>2, Himem2Injective
<1>7. CASE a \in Vectors
  <2>1. SlotCell(slot) = Himem2Cell(0, a)
    BY <1>1, <1>2, <1>7, SlotCases DEF PinnedCell
  <2> QED BY <1>2, <1>7, <2>1, VectorsInTop, Himem2Injective
<1> QED BY <1>1, <1>4, <1>5, <1>6, <1>7 DEF Storable

LEMMA BankedNames ==
  /\ Banked!Slots = ProgramSlots
  /\ \A a : Banked!Visible(a) = Slot(a, himem1_page, himem2_page)
  /\ \A a : Banked!Storable(a) <=> Storable(a)
BY DEF Banked!Slots, ProgramSlots, Banked!SlotsOf, SlotsOf, Banked!Slot, Slot,
   Banked!Visible, Banked!Storable, Storable, Banked!InLomem, InLomem,
   Banked!InHimem1, InHimem1, Banked!InHimem2, InHimem2, Banked!Entry, Entry,
   Banked!Vectors, Vectors
LEMMA AssistNumbers == ASSIST_LOW \notin Vectors /\ ASSIST_HIGH \notin Vectors
BY SMT DEF ASSIST_LOW, ASSIST_HIGH, Vectors

LEMMA SlotCellInt ==
  ASSUME NEW slot \in ProgramSlots
  PROVE  SlotCell(slot) \in Int
<1>1. PICK a \in Addresses, p \in Bytes, q \in Bytes :
         Storable(a) /\ slot = Slot(a, p, q)
  BY ProgramSlotForm
<1>2. /\ a \in Addresses16 /\ p \in BankNumbers /\ q \in BankNumbers
      /\ 0 \in BankNumbers
  BY AddressesAssumption, BytesAssumption
<1>3. /\ InLomem(a) => LowCell(a) \in Int
      /\ InHimem1(a) => Himem1Cell(p, a) \in Int
      /\ InHimem2(a) => Himem2Cell(q, a) \in Int
      /\ a \in Vectors => Himem2Cell(0, a) \in Int
  BY <1>2, LomemCells, Himem1Cells, Himem2Cells, VectorsInTop
<1> QED BY <1>1, <1>2, <1>3, SlotCases DEF Storable, PinnedCell

\* A step that keeps the slots' cells keeps what the slots hold.
LEMMA StoredSame ==
  ASSUME \A slot \in ProgramSlots : ram'[SlotCell(slot)] = ram[SlotCell(slot)]
  PROVE  Stored' = Stored
BY DEF Stored

\* Writing the cell of a visible slot is a store of the banked store.
LEMMA StoreMaps ==
  ASSUME TypeOK, NEW a \in Addresses, Storable(a), NEW v \in Bytes,
         ram' = [ram EXCEPT ![SlotCell(Slot(a, himem1_page, himem2_page))] = v],
         UNCHANGED <<himem1_page, himem2_page>>
  PROVE  Banked!BankedNext
<1> DEFINE seen == Slot(a, himem1_page, himem2_page)
<1>1. seen \in ProgramSlots
  BY DEF ProgramSlots, SlotsOf, TypeOK
<1>2. a \in Addresses16 /\ himem1_page \in BankNumbers /\ himem2_page \in BankNumbers
  BY AddressesAssumption, PagesAreBanks
<1>3. \A slot \in ProgramSlots : SlotCell(slot) = SlotCell(seen) => slot = seen
  BY <1>2, SlotCellEqual
<1>4. \A slot \in ProgramSlots :
         ram'[SlotCell(slot)] = IF slot = seen THEN v ELSE ram[SlotCell(slot)]
  BY <1>3, SlotInMemory DEF TypeOK
<1>5. Stored' = [slot \in ProgramSlots |->
                    IF slot = seen THEN v ELSE ram[SlotCell(slot)]]
  BY <1>4 DEF Stored
<1>6. Stored' = [Stored EXCEPT ![seen] = v]
  BY <1>5 DEF Stored
<1>7. Banked!Store(a, v)
  BY <1>6, BankedNames DEF Banked!Store
<1> QED BY <1>7 DEF Banked!BankedNext

\* The two results of a call reach no slot.
LEMMA AnswerKeepsSlots ==
  ASSUME NEW slot \in ProgramSlots, NEW m \in [Cells -> Bytes],
         NEW ret, NEW err
  PROVE  Answered(m, ret, err)[SlotCell(slot)] = m[SlotCell(slot)]
<1>1. \A r \in {ASSIST_LOW, ASSIST_HIGH} :
         /\ r \in TopRegisters /\ r \in Addresses16 /\ InTop(r) /\ r \notin Vectors
  BY TopRegistersInTop, AssistNumbers DEF TopRegisters
<1>2. \A r \in {ASSIST_LOW, ASSIST_HIGH} : SlotCell(slot) # PinnedCell(r)
  BY <1>1, ZeroBank, TopIsNoSlot DEF PinnedCell
<1>3. SlotCell(slot) \in Cells
  BY SlotInMemory
<1> QED BY <1>2, <1>3 DEF Answered

LEMMA DepositKeepsSlots ==
  ASSUME TypeOK, NEW slot \in ProgramSlots, NEW v
  PROVE  Deposit(v)[SlotCell(slot)] = ram[SlotCell(slot)]
<1>1. ASSIST_HIGH \in Addresses16 /\ InTop(ASSIST_HIGH) /\ ASSIST_HIGH \notin Vectors
  BY TopRegistersInTop, AssistNumbers DEF TopRegisters
<1>2. SlotCell(slot) # PinnedCell(ASSIST_HIGH)
  BY <1>1, ZeroBank, TopIsNoSlot DEF PinnedCell
<1>3. SlotCell(slot) \in Cells
  BY SlotInMemory
<1> QED BY <1>2, <1>3 DEF Deposit, TypeOK

\* The cells of a buffer are those of the slots a program sees at its addresses.
LEMMA BufferSlots ==
  ASSUME TypeOK, BuffersInWindow, NEW buffer \in Buffers, NEW slot \in ProgramSlots
  PROVE  /\ \A i \in 0 .. buffer[2] - 1 :
              slot = Slot(buffer[1] + i, himem1_page, himem2_page) =>
                 /\ SlotCell(slot) - Mapped(buffer[1]) = i
                 /\ slot[3] - buffer[1] = i
         /\ SlotCell(slot) - Mapped(buffer[1]) \in 0 .. buffer[2] - 1 =>
              \E i \in 0 .. buffer[2] - 1 :
                 slot = Slot(buffer[1] + i, himem1_page, himem2_page)
<1> DEFINE base == Mapped(buffer[1])
           seen(i) == Slot(buffer[1] + i, himem1_page, himem2_page)
<1>1. /\ buffer[1] \in Addresses16 /\ buffer[2] \in Nat
      /\ InOneWindow(buffer[1], buffer[1] + buffer[2] - 1)
  BY BuffersAssumption DEF BuffersInWindow
<1>2. himem1_page \in BankNumbers /\ himem2_page \in BankNumbers
  BY PagesAreBanks
<1>3. base \in Int /\ buffer[1] \in Int
  BY <1>1, <1>2, MemBaseInt, AddressBounds DEF Mapped
<1>4. ASSUME NEW i \in 0 .. buffer[2] - 1
      PROVE  /\ buffer[1] + i \in Addresses16 /\ Storable(buffer[1] + i)
             /\ SlotCell(seen(i)) = base + i
             /\ seen(i)[3] = buffer[1] + i
  <2>1. /\ buffer[1] + i \in Addresses16 /\ ~ InTop(buffer[1] + i)
        /\ base + i = MemBase(buffer[1] + i, himem1_page, himem2_page)
    BY <1>1, <1>2, <1>4, BufferCell DEF Mapped
  <2>2. \/ InLomem(buffer[1] + i) \/ InHimem1(buffer[1] + i)
        \/ InHimem2(buffer[1] + i)
    BY <2>1, MemBaseCases
  <2>3. SlotCell(seen(i)) = MemBase(buffer[1] + i, himem1_page, himem2_page)
    BY <2>1, <2>2, SlotCases, MemBaseCases
  <2>4. seen(i)[3] = buffer[1] + i
    BY <2>1, <2>2, SlotCases
  <2> QED BY <2>1, <2>2, <2>3, <2>4 DEF Storable
<1>5. ASSUME NEW i \in 0 .. buffer[2] - 1, slot = seen(i)
      PROVE  SlotCell(slot) - base = i /\ slot[3] - buffer[1] = i
  <2>1. SlotCell(slot) = base + i /\ slot[3] = buffer[1] + i
    BY <1>4, <1>5
  <2> QED BY SMT, <1>3, <2>1
<1>6. ASSUME SlotCell(slot) - base \in 0 .. buffer[2] - 1
      PROVE  \E i \in 0 .. buffer[2] - 1 : slot = seen(i)
  <2> DEFINE i == SlotCell(slot) - base
  <2>1. SlotCell(slot) \in Int
    BY SlotCellInt
  <2>2. SlotCell(slot) = base + i
    BY SMT, <1>3, <2>1
  <2>3. SlotCell(slot) = SlotCell(seen(i))
    BY <1>4, <1>6, <2>2
  <2>4. slot = seen(i)
    BY <1>2, <1>4, <1>6, <2>3, SlotCellEqual
  <2> QED BY <1>6, <2>4
<1> QED BY <1>5, <1>6
\* The host filling a buffer is a store of its bytes into the visible slots.
LEMMA FillMaps ==
  ASSUME TypeOK, BuffersInWindow, NEW v \in Bytes, NEW buffer \in Buffers,
         NEW data \in [0 .. buffer[2] - 1 -> Bytes], NEW ret \in Bytes,
         NEW err \in Bytes,
         ram' = Answered(Filled(Deposit(v), Mapped(buffer[1]), data), ret, err),
         UNCHANGED <<himem1_page, himem2_page>>
  PROVE  Banked!BankedNext
<1> DEFINE base == Mapped(buffer[1])
           seen(i) == Slot(buffer[1] + i, himem1_page, himem2_page)
           filled == Filled(Deposit(v), base, data)
           inBuffer(slot) == \E i \in 0 .. buffer[2] - 1 : slot = seen(i)
<1>1. Deposit(v) \in [Cells -> Bytes]
  BY DepositType
<1>2. filled \in [Cells -> Bytes]
  BY <1>1, BufferBounds, FilledType
<1>3. DOMAIN data = 0 .. buffer[2] - 1
  OBVIOUS
<1>4. ASSUME NEW slot \in ProgramSlots
      PROVE  ram'[SlotCell(slot)] =
               IF inBuffer(slot) THEN data[slot[3] - buffer[1]]
               ELSE Stored[slot]
  <2>1. SlotCell(slot) \in Cells
    BY SlotInMemory
  <2>2. ram'[SlotCell(slot)] = filled[SlotCell(slot)]
    BY <1>2, AnswerKeepsSlots
  <2>3. CASE inBuffer(slot)
    <3>1. PICK i \in 0 .. buffer[2] - 1 : slot = seen(i)
      BY <2>3
    <3>2. SlotCell(slot) - base = i /\ slot[3] - buffer[1] = i
      BY <3>1, BufferSlots
    <3>3. filled[SlotCell(slot)] = data[i]
      BY <1>1, <1>3, <2>1, <3>2 DEF Filled
    <3> QED BY <2>2, <2>3, <3>2, <3>3
  <2>4. CASE ~ inBuffer(slot)
    <3>1. SlotCell(slot) - base \notin 0 .. buffer[2] - 1
      BY <2>4, BufferSlots
    <3>2. filled[SlotCell(slot)] = Deposit(v)[SlotCell(slot)]
      BY <1>1, <1>3, <2>1, <3>1 DEF Filled
    <3>3. Deposit(v)[SlotCell(slot)] = Stored[slot]
      BY DepositKeepsSlots DEF Stored
    <3> QED BY <2>2, <2>4, <3>2, <3>3
  <2> QED BY <2>3, <2>4
<1>5. Stored' = [slot \in ProgramSlots |->
                   IF inBuffer(slot) THEN data[slot[3] - buffer[1]]
                   ELSE Stored[slot]]
  BY <1>4 DEF Stored
<1>6. Banked!HostStore(buffer, data)
  BY <1>5, BankedNames DEF Banked!HostStore
<1> QED BY <1>6 DEF Banked!BankedNext

\* A step that keeps the cells of the slots and selects at most one bank.
LEMMA SelectMaps ==
  ASSUME \A slot \in ProgramSlots : ram'[SlotCell(slot)] = ram[SlotCell(slot)],
         \/ himem1_page' \in Bytes /\ UNCHANGED himem2_page
         \/ himem2_page' \in Bytes /\ UNCHANGED himem1_page
  PROVE  Banked!BankedNext
<1>1. Stored' = Stored
  BY StoredSame
<1> QED BY <1>1 DEF Banked!BankedNext, Banked!Select

\* Writing a byte of the top page that is no vector keeps the slots.
LEMMA TopWriteKeepsSlots ==
  ASSUME TypeOK, NEW a \in Addresses16, InTop(a), a \notin Vectors,
         NEW p \in BankNumbers, NEW v, ram' = [ram EXCEPT ![Himem2Cell(p, a)] = v],
         NEW slot \in ProgramSlots
  PROVE  ram'[SlotCell(slot)] = ram[SlotCell(slot)]
BY TopIsNoSlot, SlotInMemory DEF TypeOK

LEMMA BankedStep ==
  ASSUME TypeOK, BuffersInWindow, [Next]_vars
  PROVE  [Banked!BankedNext]_(Banked!bvars)
<1> USE DEF pages, handlers
<1>0. \A r \in {ASSIST_LOW, PAGE1_REG, PAGE2_REG} :
         /\ r \in TopRegisters /\ r \in Addresses16 /\ InTop(r) /\ r \notin Vectors
  BY TopRegistersInTop, AssistNumbers, RegisterNumbers DEF TopRegisters, Registers
<1>1. CASE UNCHANGED vars
  BY <1>1 DEF vars, Banked!bvars, Stored
<1>2. ASSUME NEW a \in Addresses, NEW v \in Bytes, MemWrite(a, v)
      PROVE  [Banked!BankedNext]_(Banked!bvars)
  <2>a. a \in Addresses16 /\ 0 \in BankNumbers
    BY AddressesAssumption, ZeroBank
  <2>b. himem1_page \in BankNumbers /\ himem2_page \in BankNumbers
    BY PagesAreBanks
  <2>c. himem1_page \in Bytes /\ himem2_page \in Bytes
    BY DEF TypeOK
  <2>1. CASE WriteRam(a, v)
    <3>1. InLomem(a) \/ InHimem1(a) \/ InHimem2(a)
      BY <2>1, <2>a, MemBaseCases DEF WriteRam
    <3>2. Mapped(a) = SlotCell(Slot(a, himem1_page, himem2_page))
      BY <2>a, <3>1, MemBaseCases, SlotCases DEF Mapped
    <3>3. Banked!BankedNext
      BY <2>1, <3>1, <3>2, StoreMaps DEF WriteRam, SetByte, Storable
    <3> QED BY <3>3
  <2>2. CASE WritePinned(a, v)
    <3>1. CASE a \in Vectors
      <4>1. PinnedCell(a) = SlotCell(Slot(a, himem1_page, himem2_page))
        BY <2>a, <3>1, SlotCases
      <4>2. Banked!BankedNext
        BY <2>2, <3>1, <4>1, StoreMaps DEF WritePinned, SetByte, Storable
      <4> QED BY <4>2
    <3>2. CASE a = ASSIST_LOW
      <4>1. \A slot \in ProgramSlots : ram'[SlotCell(slot)] = ram[SlotCell(slot)]
        BY <2>2, <1>0, <2>a, <3>2, TopWriteKeepsSlots
           DEF WritePinned, SetByte, PinnedCell
      <4>2. Stored' = Stored
        BY <4>1, StoredSame
      <4> QED BY <2>2, <4>2 DEF WritePinned, Banked!bvars
    <3> QED BY <2>2, <3>1, <3>2 DEF WritePinned
  <2>3. CASE WritePageRegister(a, v)
    <3>1. \A slot \in ProgramSlots : ram'[SlotCell(slot)] = ram[SlotCell(slot)]
      BY <2>3, <1>0, <2>a, TopWriteKeepsSlots
         DEF WritePageRegister, SetByte, PinnedCell
    <3> QED BY <2>3, <3>1, SelectMaps DEF WritePageRegister
  <2>4. CASE WriteDevice(a, v)
    <3>1. InTop(a) /\ a \notin Vectors
      BY <2>4 DEF WriteDevice, TopRegisters
    <3>2. CASE UNCHANGED vars
      BY <3>2 DEF vars, Banked!bvars, Stored
    <3>3. CASE /\ SetByte(PinnedCell(a), v)
               /\ \/ himem1_page' = v /\ UNCHANGED himem2_page
                  \/ himem2_page' = v /\ UNCHANGED himem1_page
      <4>1. \A slot \in ProgramSlots : ram'[SlotCell(slot)] = ram[SlotCell(slot)]
        BY <2>a, <3>1, <3>3, TopWriteKeepsSlots DEF SetByte, PinnedCell
      <4> QED BY <3>3, <4>1, SelectMaps
    <3> QED BY <2>4, <3>2, <3>3 DEF WriteDevice, MmuWrite
  <2>5. CASE WriteTopRam(a, v)
    <3>1. InTop(a) /\ a \notin Vectors
      BY <2>5 DEF WriteTopRam, TopRegisters
    <3>2. Mapped(a) = Himem2Cell(himem2_page, a)
      BY <2>a, <3>1, MemBaseCases DEF Mapped
    <3>3. \A slot \in ProgramSlots : ram'[SlotCell(slot)] = ram[SlotCell(slot)]
      BY <2>5, <2>a, <2>b, <3>1, <3>2, TopWriteKeepsSlots DEF WriteTopRam, SetByte
    <3>4. Stored' = Stored
      BY <3>3, StoredSame
    <3> QED BY <2>5, <3>4 DEF WriteTopRam, Banked!bvars
  <2>6. CASE AssistNothing(v)
    <3>1. PICK ret \in Bytes, err \in Bytes : ram' = Answered(Deposit(v), ret, err)
      BY <2>6 DEF AssistNothing
    <3>2. \A slot \in ProgramSlots : ram'[SlotCell(slot)] = ram[SlotCell(slot)]
      BY <3>1, DepositType, DepositKeepsSlots, AnswerKeepsSlots
    <3>3. Stored' = Stored
      BY <3>2, StoredSame
    <3> QED BY <2>6, <3>3 DEF AssistNothing, Banked!bvars
  <2>7. CASE AssistFill(v)
    <3>1. PICK buffer \in Buffers : \E data \in [0 .. buffer[2] - 1 -> Bytes] :
            \E ret, err \in Bytes :
              ram' = Answered(Filled(Deposit(v), Mapped(buffer[1]), data), ret, err)
      BY <2>7 DEF AssistFill
    <3>2. PICK data \in [0 .. buffer[2] - 1 -> Bytes], ret \in Bytes, err \in Bytes :
            ram' = Answered(Filled(Deposit(v), Mapped(buffer[1]), data), ret, err)
      BY <3>1
    <3>3. Banked!BankedNext
      BY <2>7, <3>2, FillMaps DEF AssistFill
    <3> QED BY <3>3
  <2>8. CASE AssistInstall(v)
    <3>1. PICK ret \in Bytes, err \in Bytes : ram' = Answered(Deposit(v), ret, err)
      BY <2>8 DEF AssistInstall
    <3>2. \A slot \in ProgramSlots : ram'[SlotCell(slot)] = ram[SlotCell(slot)]
      BY <3>1, DepositType, DepositKeepsSlots, AnswerKeepsSlots
    <3>3. Stored' = Stored
      BY <3>2, StoredSame
    <3> QED BY <2>8, <3>3 DEF AssistInstall, Banked!bvars
  <2> QED BY <1>2, <2>1, <2>2, <2>3, <2>4, <2>5, <2>6, <2>7, <2>8 DEF MemWrite
<1> QED BY <1>1, <1>2 DEF Next

LEMMA BankedStart ==
  ASSUME Init
  PROVE  Banked!BankedInit
<1>1. \A slot \in ProgramSlots : ram[SlotCell(slot)] = 0
  BY SlotInMemory DEF Init
<1>2. Stored = [slot \in ProgramSlots |-> 0]
  BY <1>1 DEF Stored
<1> QED BY <1>2, BankedNames DEF Init, Banked!BankedInit

\* Memory implements BankedStore for every program whose buffers lie within a
\* window: nothing but a store at its address, or the host filling the buffer
\* the program named, changes a byte the program owns, whatever the order of
\* bank switches, device writes and calls (mem.c, mmu.c).
THEOREM MemoryImplementsBankedStore ==
  ASSUME BuffersInWindow
  PROVE  Spec => ImplementsBankedStore
<1>1. Init => TypeOK /\ Banked!BankedInit
  BY BankedStart, BytesAssumption DEF Init, TypeOK
<1>2. TypeOK /\ [Next]_vars => TypeOK' /\ [Banked!BankedNext]_(Banked!bvars)
  BY TypeStep, BankedStep
<1> QED BY <1>1, <1>2, PTL DEF Spec, ImplementsBankedStore, Banked!BankedSpec
-----------------------------------------------------------------------------
\* A store to a program's byte is not one of the registers' or the devices'.
LEMMA StorableWrite ==
  ASSUME NEW a \in Addresses, Storable(a), NEW v, MemWrite(a, v)
  PROVE  WriteRam(a, v) \/ (a \in Vectors /\ WritePinned(a, v))
<1>1. InTop(a) => a \in Vectors
  BY AddressesAssumption, MemBaseCases DEF Storable
<1>2. ASSIST_LOW \notin Vectors /\ ASSIST_HIGH \notin Vectors
  BY AssistNumbers
<1>3. \A r \in {ASSIST_LOW, ASSIST_HIGH, PAGE1_REG, PAGE2_REG} :
         InTop(r) /\ r \notin Vectors
  BY <1>2, TopRegistersInTop, RegisterNumbers DEF TopRegisters, Registers
<1>4. CASE WritePinned(a, v)
  BY <1>1, <1>3, <1>4 DEF WritePinned
<1>5. CASE WritePageRegister(a, v)
  BY <1>1, <1>3, <1>5 DEF WritePageRegister
<1>6. CASE WriteDevice(a, v)
  BY <1>1, <1>6 DEF WriteDevice, TopRegisters
<1>7. CASE WriteTopRam(a, v)
  BY <1>1, <1>7 DEF WriteTopRam, TopRegisters
<1>8. a # ASSIST_HIGH
  BY <1>1, <1>3
<1> QED BY <1>4, <1>5, <1>6, <1>7, <1>8 DEF MemWrite

LEMMA ReadBackStep ==
  ASSUME TypeOK, NEW a \in Addresses, NEW v \in Bytes, Storable(a),
         ~ InTop(a) \/ io_read_top_handler[Nibble(a)] = "none",
         MemWrite(a, v)
  PROVE  Read(a)' = {v}
<1> USE DEF pages, handlers
<1>1. CASE WriteRam(a, v)
  <2>1. Mapped(a) \in Cells
    BY DEF Mapped, Cells, ProgramCells, TypeOK
  <2>2. Mapped(a)' = Mapped(a)
    BY <1>1 DEF WriteRam, Mapped
  <2>3. ram'[Mapped(a)] = v
    BY <1>1, <2>1 DEF WriteRam, SetByte, TypeOK
  <2> QED BY <1>1, <2>2, <2>3 DEF WriteRam, Read
<1>2. CASE a \in Vectors /\ WritePinned(a, v)
  <2>1. InTop(a) /\ PinnedCell(a) \in Cells
    BY <1>2, VectorsInTop, PinnedInMemory
  <2>2. ram'[PinnedCell(a)] = v
    BY <1>2, <2>1 DEF WritePinned, SetByte, TypeOK
  <2>3. io_read_top_handler'[Nibble(a)] = "none"
    BY <1>2, <2>1 DEF WritePinned
  <2> QED BY <2>1, <2>2, <2>3 DEF Read
<1> QED BY <1>1, <1>2, StorableWrite

\* A byte the program stores is the byte it reads next, at every address and in
\* every bank, the vectors included while no device answers for them
\* (mem.c:61-175, mem.c:208-268).
THEOREM StoresReadBack == Spec => WritesReadBack
<1>1. Init => TypeOK
  BY BytesAssumption DEF Init, TypeOK
<1>2. TypeOK /\ [Next]_vars =>
        TypeOK' /\ [\A a \in Addresses, v \in Bytes :
                      /\ Storable(a)
                      /\ ~ InTop(a) \/ io_read_top_handler[Nibble(a)] = "none"
                      /\ MemWrite(a, v)
                      => Read(a)' = {v}]_vars
  BY TypeStep, ReadBackStep
<1> QED BY <1>1, <1>2, PTL DEF Spec, WritesReadBack
=============================================================================
