---------------------------- MODULE Assist_proofs ----------------------------
(***************************************************************************)
(* Theorems about Assist, for every program, call, result and bank its     *)
(* assumptions and the hypotheses BuffersInWindow and ProgramFits allow:   *)
(* the types, that the dispatcher serves the request the program made, that*)
(* the program finds its result and its data, and that all of it is one of *)
(* the behaviours of Memory, hence of BankedStore.                         *)
(***************************************************************************)
EXTENDS Assist, Memory_proofs, SequenceTheorems

(***************************************************************************)
(* The result of a call, which rests on where four bytes of the top page   *)
(* are kept: a call's two answers and the copies of the two bank registers *)
(* are four different cells of bank 0.                                     *)
(***************************************************************************)
ResultCell == PinnedCell(ASSIST_LOW)

\* While the program has a result to collect it stores nothing of its own, and
\* the result, cut to a byte, is in memory.
ReplyKept ==
    /\ DOMAIN ram = Cells
    /\ phase = "answered" => todo = <<>> /\ ram[ResultCell] = result % 256

\* The result's cell is none of those that the next steps write.
LEMMA ResultCellApart ==
  /\ ResultCell \in Cells
  /\ ResultCell # PinnedCell(ASSIST_HIGH)
  /\ \A r \in Registers : ResultCell # PinnedCell(r)
<1>1. /\ ASSIST_LOW \in TopRegisters /\ ASSIST_HIGH \in TopRegisters
      /\ Registers \subseteq TopRegisters
  BY DEF TopRegisters, Registers
<1>2. ASSIST_LOW # ASSIST_HIGH /\ ASSIST_LOW \notin Registers
  BY RegisterNumbers, SMT DEF ASSIST_LOW, ASSIST_HIGH
<1> QED BY <1>1, <1>2, PinnedInMemory, PinnedCellsDiffer DEF ResultCell

\* A call leaves its result there.
LEMMA AnswerKept ==
  ASSUME NEW m, DOMAIN m = Cells, NEW ret, NEW err, Answer(m, ret, err)
  PROVE  ReplyKept'
<1>1. ram' = [m EXCEPT ![ResultCell] = ret % 256,
                       ![PinnedCell(ASSIST_HIGH)] = err % 256]
  BY DEF Answer, Answered, ResultCell
<1>2. DOMAIN ram' = Cells /\ ram'[ResultCell] = ret % 256
  BY <1>1, ResultCellApart
<1> QED BY <1>2 DEF Answer, ReplyKept, ResultCell

\* Whichever call it is.
LEMMA ServeKept == ASSUME DOMAIN ram = Cells, Serve PROVE ReplyKept'
<1>1. PICK m \in {Deposit(High(Request))} :
         \/ ServeUnknown(m) \/ ServeLibC(m) \/ ServeRead(m) \/ ServeGetcwd(m)
         \/ ServeSysexit(m) \/ ServeInit(m) \/ ServeFb(m)
  BY DEF Serve
<1>2. DOMAIN m = Cells
  BY DEF Deposit
<1>3. \A base, data : DOMAIN Filled(m, base, data) = Cells
  BY <1>2 DEF Filled
<1>4. CASE ServeUnknown(m)
  BY <1>2, <1>4, AnswerKept DEF ServeUnknown
<1>5. CASE ServeLibC(m)
  BY <1>2, <1>5, AnswerKept DEF ServeLibC
<1>6. CASE ServeRead(m)
  BY <1>2, <1>3, <1>6, AnswerKept DEF ServeRead
<1>7. CASE ServeGetcwd(m)
  BY <1>2, <1>3, <1>7, AnswerKept DEF ServeGetcwd
<1>8. CASE ServeSysexit(m)
  BY <1>2, <1>8 DEF ServeSysexit, ReplyKept
<1>9. CASE ServeInit(m)
  BY <1>2, <1>9, AnswerKept DEF ServeInit
<1>10. CASE ServeFb(m)
  BY <1>2, <1>10, AnswerKept DEF ServeFb
<1> QED BY <1>1, <1>4, <1>5, <1>6, <1>7, <1>8, <1>9, <1>10

\* No step takes it away before the program has it.
LEMMA ReplyStep == ReplyKept /\ [AssistNext]_assistVars => ReplyKept'
<1> SUFFICES ASSUME ReplyKept, [AssistNext]_assistVars PROVE ReplyKept'
  OBVIOUS
<1>1. ASSUME NEW call \in Calls, Ask(call) PROVE ReplyKept'
  BY <1>1 DEF Ask, ReplyKept, vars
<1>2. CASE NextStore
  <2>1. todo # <<>> /\ phase # "answered" /\ phase' \in {phase, "idle"}
    BY <1>2 DEF NextStore, ReplyKept
  <2>2. DOMAIN ram' = Cells
    BY <1>2 DEF NextStore, WriteRam, WritePinned, SetByte, ReplyKept
  <2> QED BY <2>1, <2>2 DEF ReplyKept
<1>3. ASSUME NEW r \in Registers, NEW bank, SelectBank(r, bank) PROVE ReplyKept'
  <2>1. ram' = [ram EXCEPT ![PinnedCell(r)] = bank]
    BY <1>3 DEF SelectBank, WritePageRegister, SetByte
  <2>2. DOMAIN ram' = Cells /\ ram'[ResultCell] = ram[ResultCell]
    BY <2>1, ResultCellApart DEF ReplyKept
  <2> QED BY <1>3, <2>2 DEF SelectBank, ReplyKept, ResultCell
<1>4. CASE Serve
  BY <1>4, ServeKept DEF ReplyKept
<1>5. CASE Collect
  BY <1>5 DEF Collect, ReplyKept, vars
<1>6. CASE UNCHANGED assistVars
  BY <1>6 DEF assistVars, vars, ReplyKept, ResultCell
<1> QED BY <1>1, <1>2, <1>3, <1>4, <1>5, <1>6 DEF AssistNext, Registers

\* Until the mailboxes are initialised, whose registers hide the byte, the program
\* finds every call's result at 0xFFF8 (mem.c:128-131, libC_assist.c:154-230).
THEOREM RepliesReadable == AssistSpec => []ReplyReadable
<1>1. AssistInit => ReplyKept
  BY DEF AssistInit, Init, ReplyKept
<1>2. ReplyKept => ReplyReadable
  <2>1. InTop(ASSIST_LOW)
    BY TopRegistersInTop DEF TopRegisters
  <2>2. Nibble(ASSIST_LOW) = 15
    BY SMT DEF Nibble, ASSIST_LOW
  <2> QED BY <2>1, <2>2 DEF ReplyKept, ReplyReadable, Read, ResultCell
<1> QED BY <1>1, <1>2, ReplyStep, PTL DEF AssistSpec
-----------------------------------------------------------------------------
(***************************************************************************)
(* The stores of the program, and what they leave behind.                  *)
(***************************************************************************)
\* Making the first store leaves what the stores left before.
LEMMA LeavesTail ==
  ASSUME NEW S, NEW stores \in Seq(S), stores # <<>>,
         NEW start, NEW a, NEW v, Leaves(stores, start, a, v)
  PROVE  Leaves(Tail(stores),
                IF Head(stores)[1] = a THEN Head(stores)[2] ELSE start, a, v)
<1> DEFINE rest == Tail(stores)
           now == IF Head(stores)[1] = a THEN Head(stores)[2] ELSE start
<1>1. /\ rest \in Seq(S) /\ Len(rest) = Len(stores) - 1 /\ Len(stores) \in Nat \ {0}
      /\ \A i \in 1 .. Len(rest) : rest[i] = stores[i + 1] /\ i + 1 \in 1 .. Len(stores)
      /\ DOMAIN rest = 1 .. Len(rest) /\ DOMAIN stores = 1 .. Len(stores)
      /\ Head(stores) = stores[1] /\ 1 \in 1 .. Len(stores)
  OBVIOUS
<1> HIDE DEF rest
<1>2. ASSUME NEW i \in DOMAIN stores, stores[i] = <<a, v>>,
             \A j \in DOMAIN stores : j > i => stores[j][1] # a
      PROVE  Leaves(rest, now, a, v)
  <2>1. CASE i = 1
    <3>1. now = v
      BY <1>1, <1>2, <2>1
    <3>2. \A j \in DOMAIN rest : rest[j][1] # a
      BY <1>1, <1>2, <2>1
    <3> QED BY <3>1, <3>2 DEF Leaves
  <2>2. CASE i # 1
    <3>1. i - 1 \in DOMAIN rest /\ rest[i - 1] = stores[i]
      BY <1>1, <2>2
    <3>2. ASSUME NEW j \in DOMAIN rest, j > i - 1 PROVE rest[j][1] # a
      <4>1. j + 1 > i /\ j + 1 \in DOMAIN stores /\ rest[j] = stores[j + 1]
        BY <1>1, <3>2
      <4> QED BY <1>2, <4>1
    <3> QED BY <1>2, <3>1, <3>2 DEF Leaves
  <2> QED BY <2>1, <2>2
<1>3. ASSUME v = start, \A i \in DOMAIN stores : stores[i][1] # a
      PROVE  Leaves(rest, now, a, v)
  <2>1. now = start /\ \A j \in DOMAIN rest : rest[j][1] # a
    BY <1>1, <1>3
  <2> QED BY <1>3, <2>1 DEF Leaves
<1>4. Leaves(rest, now, a, v)
  BY <1>2, <1>3 DEF Leaves
<1> QED BY <1>4 DEF rest, now

\* With nothing left to store, the byte is there; with one store left, to another
\* address, it is there already.
LEMMA LeavesNothing ==
  ASSUME NEW start, NEW a, NEW v
  PROVE  Leaves(<<>>, start, a, v) <=> v = start
BY DEF Leaves

LEMMA LeavesOne ==
  ASSUME NEW stores, NEW start, NEW a, NEW v,
         DOMAIN stores = {1}, stores[1][1] # a, Leaves(stores, start, a, v)
  PROVE  v = start
<1>1. stores[1] # <<a, v>>
  OBVIOUS
<1>2. \A i \in DOMAIN stores : stores[i] # <<a, v>>
  BY <1>1
<1> QED BY <1>2 DEF Leaves
-----------------------------------------------------------------------------
(***************************************************************************)
(* Where the bytes the dispatcher reads are kept: those of the program, in *)
(* low memory, and the request's address, in bank 0 or in another.         *)
(***************************************************************************)
LEMMA WordOfBytes ==
  ASSUME NEW n \in Nat
  PROVE  Low(n) + 256 * High(n) = n
<1>1. n = 256 * (n \div 256) + (n % 256)
  OBVIOUS
<1> QED BY <1>1 DEF Low, High

\* The address of a byte in low memory is its cell, and nothing else's.
LEMMA LowByte ==
  ASSUME NEW a \in Addresses16, InLomem(a), NEW p \in BankNumbers, NEW q \in BankNumbers
  PROVE  /\ a \in Int /\ a < 40960
         /\ MemBase(a, p, q) = a
         /\ \A b \in Addresses16 : b # a => MemBase(b, p, q) # a
         /\ \A b \in Addresses16 : InTop(b) => Himem2Cell(q, b) # a
<1>1. LowCell(a) = a /\ a \in Int /\ a < 40960
  BY LomemCells
<1>2. ASSUME NEW b \in Addresses16, b # a PROVE MemBase(b, p, q) # a
  <2>1. CASE InLomem(b)
    BY <1>2, <2>1, MemBaseCases, LomemCells
  <2>2. CASE InHimem1(b)
    <3>1. Himem1Cell(p, b) \in Int /\ 40960 <= Himem1Cell(p, b)
      BY <2>2, Himem1Cells
    <3>2. Himem1Cell(p, b) # a
      BY <1>1, <3>1
    <3> QED BY <2>2, <3>2, MemBaseCases
  <2>3. CASE InHimem2(b) \/ InTop(b)
    <3>1. Himem2Cell(q, b) \in Int /\ 2138112 <= Himem2Cell(q, b)
      BY <2>3, Himem2Cells
    <3>2. Himem2Cell(q, b) # a
      BY <1>1, <3>1
    <3> QED BY <2>3, <3>2, MemBaseCases
  <2> QED BY <2>1, <2>2, <2>3, MemBaseCases
<1>3. ASSUME NEW b \in Addresses16, InTop(b) PROVE Himem2Cell(q, b) # a
  <2>1. Himem2Cell(q, b) \in Int /\ 2138112 <= Himem2Cell(q, b)
    BY <1>3, Himem2Cells
  <2> QED BY <1>1, <2>1
<1> QED BY <1>1, <1>2, <1>3, MemBaseCases

\* A byte of the top page, in any bank, is no cell of the rest of memory.
LEMMA TopByteOwn ==
  ASSUME NEW r \in Addresses16, InTop(r), NEW k \in BankNumbers,
         NEW b \in Addresses16, ~ InTop(b), NEW p \in BankNumbers, NEW q \in BankNumbers
  PROVE  MemBase(b, p, q) # Himem2Cell(k, r)
<1>1. Himem2Cell(k, r) \in Int /\ 2138112 <= Himem2Cell(k, r)
  BY Himem2Cells
<1>2. CASE InLomem(b)
  <2>1. LowCell(b) \in Int /\ LowCell(b) < 40960
    BY <1>2, LomemCells
  <2>2. LowCell(b) # Himem2Cell(k, r)
    BY <1>1, <2>1
  <2> QED BY <1>2, <2>2, MemBaseCases
<1>3. CASE InHimem1(b)
  <2>1. Himem1Cell(p, b) \in Int /\ Himem1Cell(p, b) < 2138112
    BY <1>3, Himem1Cells
  <2>2. Himem1Cell(p, b) # Himem2Cell(k, r)
    BY <1>1, <2>1
  <2> QED BY <1>3, <2>2, MemBaseCases
<1>4. CASE InHimem2(b)
  BY <1>4, MemBaseCases, Himem2Injective
<1> QED BY <1>2, <1>3, <1>4, MemBaseCases

AssistBytes == {ASSIST_LOW, ASSIST_HIGH}

LEMMA AssistBytesTop ==
  /\ AssistBytes \subseteq TopRegisters
  /\ \A r \in AssistBytes : r \in Addresses16 /\ InTop(r) /\ r \notin Vectors
  /\ ASSIST_LOW # ASSIST_HIGH /\ ASSIST_LOW + 1 = ASSIST_HIGH
<1>1. AssistBytes \subseteq TopRegisters
  BY DEF AssistBytes, TopRegisters
<1>2. ASSIST_LOW # ASSIST_HIGH /\ ASSIST_LOW + 1 = ASSIST_HIGH
  BY SMT DEF ASSIST_LOW, ASSIST_HIGH
<1> QED BY <1>1, <1>2, TopRegistersInTop, AssistNumbers DEF AssistBytes
\* The bytes whose contents a call depends on, and their cells.
Watched == RequestBytes \cup KeptBytes \cup {ASSIST_LOW}
Home(a) == IF a = ASSIST_LOW THEN PinnedCell(ASSIST_LOW) ELSE a

LEMMA DataLow ==
  ASSUME ProgramFits, NEW a \in RequestBytes \cup KeptBytes
  PROVE  /\ a \in Addresses /\ a \in Addresses16 /\ InLomem(a) /\ ~ InTop(a)
         /\ a \notin AssistBytes /\ Home(a) = a
<1>1. a \in Addresses /\ a \in Addresses16 /\ InLomem(a)
  BY AddressesAssumption DEF ProgramFits, LaidOut
<1>2. ~ InTop(a)
  BY <1>1, MemBaseCases
<1>3. a \notin AssistBytes
  BY <1>2, AssistBytesTop
<1> QED BY <1>1, <1>2, <1>3 DEF Home, AssistBytes

\* A watched byte changes only when the program stores at its address.
LEMMA HomeOwn ==
  ASSUME ProgramFits, NEW a \in Watched
  PROVE  /\ Home(a) \in Cells
         /\ a # ASSIST_HIGH
         /\ \A b \in Addresses16, p \in BankNumbers, q \in BankNumbers :
               ~ InTop(b) => /\ b # a => MemBase(b, p, q) # Home(a)
                             /\ b = a => MemBase(b, p, q) = Home(a)
         /\ \A r \in TopRegisters : /\ r # a => PinnedCell(r) # Home(a)
                                    /\ r = a => PinnedCell(r) = Home(a)
<1>0. 0 \in BankNumbers /\ 0 \in Bytes
  BY ZeroBank
<1>1. CASE a = ASSIST_LOW
  <2>1. ASSIST_LOW \in AssistBytes /\ a \in TopRegisters /\ Home(a) = PinnedCell(a)
    BY <1>1, AssistBytesTop DEF AssistBytes, Home
  <2>2. a \in Addresses16 /\ InTop(a) /\ PinnedCell(a) = Himem2Cell(0, a)
    BY <1>1, <2>1, AssistBytesTop DEF PinnedCell
  <2>3. \A b \in Addresses16, p \in BankNumbers, q \in BankNumbers :
           ~ InTop(b) => b # a /\ MemBase(b, p, q) # PinnedCell(a)
    BY <1>0, <2>2, TopByteOwn
  <2> QED BY <1>1, <2>1, <2>3, AssistBytesTop, PinnedInMemory, PinnedCellsDiffer
<1>2. CASE a \in RequestBytes \cup KeptBytes
  <2>1. /\ a \in Addresses /\ a \in Addresses16 /\ InLomem(a) /\ ~ InTop(a)
        /\ a \notin AssistBytes /\ Home(a) = a
    BY <1>2, DataLow
  <2>2. a \in Cells
    <3>1. MemBase(a, 0, 0) = a
      BY <1>0, <2>1, LowByte
    <3> QED BY <1>0, <2>1, <3>1 DEF Cells, ProgramCells
  <2>3. \A b \in Addresses16, p \in BankNumbers, q \in BankNumbers :
           /\ b # a => MemBase(b, p, q) # a
           /\ b = a => MemBase(b, p, q) = a
    BY <2>1, LowByte
  <2>4. ASSUME NEW r \in TopRegisters PROVE r # a /\ PinnedCell(r) # a
    <3>1. r \in Addresses16 /\ InTop(r)
      BY TopRegistersInTop
    <3>2. Himem2Cell(0, r) # a
      BY <1>0, <2>1, <3>1, LowByte
    <3> QED BY <2>1, <3>1, <3>2 DEF PinnedCell
  <2> QED BY <2>1, <2>2, <2>3, <2>4 DEF AssistBytes
<1> QED BY <1>1, <1>2 DEF Watched

\* The places of the request's address in the other banks, which nothing reaches.
Elsewhere == {Himem2Cell(q, r) : q \in Bytes \ {0}, r \in AssistBytes}

LEMMA ElsewhereApart ==
  ASSUME ProgramFits, NEW c \in Elsewhere
  PROVE  /\ c \in Cells
         /\ \A b \in Addresses16, p \in BankNumbers, q \in BankNumbers :
               ~ InTop(b) => MemBase(b, p, q) # c
         /\ \A r \in TopRegisters : PinnedCell(r) # c
<1>1. PICK k \in Bytes \ {0}, s \in AssistBytes : c = Himem2Cell(k, s)
  BY DEF Elsewhere
<1>2. /\ s \in Addresses /\ s \in Addresses16 /\ InTop(s)
      /\ k \in Bytes /\ k \in BankNumbers /\ k # 0 /\ 0 \in BankNumbers
  BY ZeroBank, AssistBytesTop DEF ProgramFits, StoresNamed, AssistBytes
<1>3. c \in Cells
  <2>1. MemBase(s, k, k) = c
    BY <1>1, <1>2, MemBaseCases
  <2> QED BY <1>2, <2>1 DEF Cells, ProgramCells
<1>4. \A b \in Addresses16, p \in BankNumbers, q \in BankNumbers :
         ~ InTop(b) => MemBase(b, p, q) # c
  BY <1>1, <1>2, TopByteOwn
<1>5. ASSUME NEW r \in TopRegisters PROVE PinnedCell(r) # c
  <2>1. r \in Addresses16 /\ InTop(r)
    BY TopRegistersInTop
  <2>2. Himem2Cell(0, r) # Himem2Cell(k, s)
    BY <1>2, <2>1, Himem2Injective
  <2> QED BY <1>1, <2>2 DEF PinnedCell
<1> QED BY <1>3, <1>4, <1>5

\* Three pairs of stores, one after the other.
JoinsPairs(s, a, b, c) ==
    /\ Len(s) = 6
    /\ s[1] = a[1] /\ s[2] = a[2]
    /\ s[3] = b[1] /\ s[4] = b[2]
    /\ s[5] = c[1] /\ s[6] = c[2]

LEMMA PairsJoined ==
  ASSUME NEW S, NEW a \in Seq(S), NEW b \in Seq(S), NEW c \in Seq(S),
         Len(a) = 2, Len(b) = 2, Len(c) = 2
  PROVE  JoinsPairs(a \o b \o c, a, b, c)
<1>1. /\ a \o b \in Seq(S) /\ Len(a \o b) = Len(a) + Len(b)
      /\ \A i \in 1 .. Len(a) + Len(b) : (a \o b)[i] =
                                             IF i <= Len(a) THEN a[i] ELSE b[i - Len(a)]
  BY ConcatProperties
<1>3. PICK d \in Seq(S) : d = a \o b
  BY <1>1
<1>4. Len(d) = 4 /\ d[1] = a[1] /\ d[2] = a[2] /\ d[3] = b[1] /\ d[4] = b[2]
  <2>1. \A i \in 1 .. 4 : d[i] = IF i <= 2 THEN a[i] ELSE b[i - 2]
    BY <1>1, <1>3
  <2> QED BY <1>1, <1>3, <2>1
<1>5. /\ d \o c \in Seq(S) /\ Len(d \o c) = Len(d) + Len(c)
      /\ \A i \in 1 .. Len(d) + Len(c) : (d \o c)[i] =
                                             IF i <= Len(d) THEN d[i] ELSE c[i - Len(d)]
  BY ConcatProperties
<1>6. PICK e \in Seq(S) : e = d \o c
  BY <1>5
<1>7. /\ Len(e) = 6 /\ e[1] = d[1] /\ e[2] = d[2] /\ e[3] = d[3] /\ e[4] = d[4]
      /\ e[5] = c[1] /\ e[6] = c[2]
  <2>1. \A i \in 1 .. 6 : e[i] = IF i <= 4 THEN d[i] ELSE c[i - 4]
    <3>1. Len(d) + Len(c) = 6
      BY <1>4
    <3>2. \A i \in 1 .. 6 : (d \o c)[i] = IF i <= Len(d) THEN d[i] ELSE c[i - Len(d)]
      BY <1>5, <3>1
    <3> QED BY <1>4, <1>6, <3>2
  <2>2. Len(e) = 6
    BY <1>4, <1>5, <1>6
  <2> QED BY <2>1, <2>2
<1>8. JoinsPairs(e, a, b, c)
  BY <1>4, <1>7 DEF JoinsPairs
<1> QED BY <1>3, <1>6, <1>8, Zenon

LEMMA RequestAddresses ==
  ASSUME ProgramFits
  PROVE  /\ Request \in Int /\ Request \in Nat /\ Request + 2 + 1 = Request + 3
         /\ RequestBytes = {Request, Request + 1, Request + 2, Request + 3}
         /\ \A i \in 0 .. 3 : Request + i < 40960
         /\ ASSIST_LOW = 65528 /\ ASSIST_LOW + 1 = ASSIST_HIGH /\ ASSIST_HIGH = 65529
<1>1. Request \in Addresses16
  BY AddressesAssumption, RequestAssumption
<1>2. Request \in Int /\ 0 <= Request
  BY <1>1, AddressBounds
<1>3. RequestBytes = {Request, Request + 1, Request + 2, Request + 3}
  BY <1>2 DEF RequestBytes
<1>4. ASSUME NEW i \in 0 .. 3 PROVE Request + i < 40960
  <2>1. Request + i \in RequestBytes
    BY <1>2 DEF RequestBytes
  <2>2. Request + i \in Addresses16 /\ InLomem(Request + i)
    BY <2>1, DataLow
  <2> QED BY <2>2, LomemCells
<1> QED BY <1>2, <1>3, <1>4 DEF ASSIST_LOW, ASSIST_HIGH

\* A request is stored in the order of its bytes, its address last: the store of
\* its high byte, which runs the call, is the only one at that address.
LEMMA RequestStores ==
  ASSUME ProgramFits, NEW call \in Calls, NEW s, s = CallStores(call)
  PROVE  /\ s \in Seq(Addresses \X Bytes) /\ Len(s) = 6 /\ DOMAIN s = 1 .. 6
         /\ s[1] = <<Request, Low(call.number)>>
         /\ s[2] = <<Request + 1, High(call.number)>>
         /\ s[3] = <<Request + 2, Low(call.block)>>
         /\ s[4] = <<Request + 3, High(call.block)>>
         /\ s[5] = <<ASSIST_LOW, Low(Request)>>
         /\ s[6] = <<ASSIST_HIGH, High(Request)>>
         /\ \A i \in 1 .. 6 : s[i][1] \in RequestBytes \cup AssistBytes
<1> DEFINE a == StoreWord(Request, call.number)
           b == StoreWord(Request + 2, call.block)
           c == StoreWord(ASSIST_LOW, Request)
           S == {a[1], a[2], b[1], b[2], c[1], c[2]}
<1>1. s \in Seq(Addresses \X Bytes)
  BY DEF ProgramFits, StoresNamed
<1>2. \A x, word : /\ Len(StoreWord(x, word)) = 2
                   /\ StoreWord(x, word)[1] = <<x, Low(word)>>
                   /\ StoreWord(x, word)[2] = <<x + 1, High(word)>>
                   /\ \A T : <<x, Low(word)>> \in T /\ <<x + 1, High(word)>> \in T
                              => StoreWord(x, word) \in Seq(T)
  BY DEF StoreWord
<1>3. a \in Seq(S) /\ b \in Seq(S) /\ c \in Seq(S)
  BY <1>2
<1>4. s = a \o b \o c
  BY DEF CallStores
<1>5. Len(a) = 2 /\ Len(b) = 2 /\ Len(c) = 2
  BY <1>2
<1> HIDE DEF S
<1>6. /\ Len(s) = 6 /\ s[1] = a[1] /\ s[2] = a[2] /\ s[3] = b[1] /\ s[4] = b[2]
      /\ s[5] = c[1] /\ s[6] = c[2]
  <2> HIDE DEF a, b, c
  <2>1. JoinsPairs(a \o b \o c, a, b, c)
    BY <1>3, <1>5, PairsJoined, Zenon
  <2>2. JoinsPairs(s, a, b, c)
    BY <1>4, <2>1, Zenon
  <2> QED BY <2>2, Zenon DEF JoinsPairs
<1>7. /\ s[1] = <<Request, Low(call.number)>>
      /\ s[2] = <<Request + 1, High(call.number)>>
      /\ s[3] = <<Request + 2, Low(call.block)>>
      /\ s[4] = <<Request + 2 + 1, High(call.block)>>
      /\ s[5] = <<ASSIST_LOW, Low(Request)>>
      /\ s[6] = <<ASSIST_LOW + 1, High(Request)>>
  BY <1>2, <1>6
<1>8. /\ s[4] = <<Request + 3, High(call.block)>>
      /\ s[6] = <<ASSIST_HIGH, High(Request)>>
  BY <1>7, RequestAddresses
<1>9. ASSUME NEW i \in 1 .. 6 PROVE s[i][1] \in RequestBytes \cup AssistBytes
  <2>1. i \in {1, 2, 3, 4, 5, 6}
    OBVIOUS
  <2>2. /\ s[1][1] = Request /\ s[2][1] = Request + 1 /\ s[3][1] = Request + 2
        /\ s[4][1] = Request + 3 /\ s[5][1] = ASSIST_LOW /\ s[6][1] = ASSIST_HIGH
    BY <1>7, <1>8
  <2> QED BY <2>1, <2>2, RequestAddresses DEF AssistBytes
<1>10. DOMAIN s = 1 .. 6
  BY <1>1, <1>6
<1> QED BY <1>1, <1>6, <1>7, <1>8, <1>9, <1>10

\* The bytes a call leaves behind it, but for the one that runs it.
RequestPairs(call) == {<<Request, Low(call.number)>>,
                       <<Request + 1, High(call.number)>>,
                       <<Request + 2, Low(call.block)>>,
                       <<Request + 3, High(call.block)>>,
                       <<ASSIST_LOW, Low(Request)>>}

LEMMA RequestLeft ==
  ASSUME ProgramFits, NEW call \in Calls, NEW pair \in RequestPairs(call), NEW start
  PROVE  Leaves(CallStores(call), start, pair[1], pair[2])
<1>1. PICK s : s = CallStores(call)
  OBVIOUS
<1>2. /\ DOMAIN s = 1 .. 6
      /\ s[1] = <<Request, Low(call.number)>> /\ s[2] = <<Request + 1, High(call.number)>>
      /\ s[3] = <<Request + 2, Low(call.block)>> /\ s[4] = <<Request + 3, High(call.block)>>
      /\ s[5] = <<ASSIST_LOW, Low(Request)>> /\ s[6] = <<ASSIST_HIGH, High(Request)>>
  BY <1>1, RequestStores
<1>3. ASSUME NEW i \in 1 .. 5, NEW j \in 1 .. 6, j > i PROVE s[j][1] # s[i][1]
  <2>1. /\ Request \in Int /\ Request + 3 < 40960
        /\ ASSIST_LOW = 65528 /\ ASSIST_HIGH = 65529
    BY RequestAddresses
  <2>2. /\ s[1][1] = Request /\ s[2][1] = Request + 1 /\ s[3][1] = Request + 2
        /\ s[4][1] = Request + 3 /\ s[5][1] = 65528 /\ s[6][1] = 65529
    BY <1>2, <2>1
  <2>3. i \in {1, 2, 3, 4, 5} /\ j \in {1, 2, 3, 4, 5, 6}
    OBVIOUS
  <2> QED BY <1>3, <2>1, <2>2, <2>3
<1>4. PICK i \in 1 .. 5 : s[i] = pair
  BY <1>2 DEF RequestPairs
<1>5. s[i] = <<pair[1], pair[2]>>
  BY <1>4 DEF RequestPairs
<1>6. Leaves(s, start, pair[1], pair[2])
  BY <1>2, <1>3, <1>4, <1>5 DEF Leaves
<1> QED BY <1>1, <1>6
-----------------------------------------------------------------------------
(***************************************************************************)
(* The inductive invariant: the types, and                                 *)
(*   - in the other banks, the place of the request's address is zero;     *)
(*   - what the image puts where the dispatcher looks is there, or is yet  *)
(*     to be stored, and nothing else is stored over it;                   *)
(*   - so it is with the bytes of the call being made, whose last store is *)
(*     the one that runs it;                                               *)
(*   - between calls nothing is left to store.                             *)
(***************************************************************************)
NullElsewhere == \A c \in Elsewhere : ram[c] = 0

KeptLoaded == \A a \in KeptBytes, v \in Bytes :
                 ImageLeaves(a, v) => Leaves(todo, ram[a], a, v)

CallPending ==
    phase = "calling" =>
        /\ asked \in Calls
        /\ todo # <<>> /\ todo[Len(todo)] = <<ASSIST_HIGH, High(Request)>>
        /\ \A i \in DOMAIN todo : todo[i][1] \in RequestBytes \cup AssistBytes
        /\ \A pair \in RequestPairs(asked) :
              Leaves(todo, ram[Home(pair[1])], pair[1], pair[2])

NothingLeft == phase \in {"idle", "answered", "exited"} => todo = <<>>

AssistInv == AssistTypeOK /\ NullElsewhere /\ KeptLoaded /\ CallPending /\ NothingLeft

LEMMA AssistStart ==
  ASSUME ProgramFits, AssistInit
  PROVE  AssistInv
<1>1. TypeOK
  BY BytesAssumption DEF AssistInit, Init, TypeOK
<1>2. AssistTypeOK
  BY <1>1 DEF AssistInit, AssistTypeOK, Phases, Results, ProgramFits, StoresNamed
<1>3. NullElsewhere
  BY ElsewhereApart DEF AssistInit, Init, NullElsewhere
<1>4. KeptLoaded
  <2>1. \A a \in KeptBytes : a \in Cells
    BY DataLow, HomeOwn DEF Watched
  <2> QED BY <2>1 DEF AssistInit, Init, KeptLoaded, ImageLeaves
<1> QED BY <1>2, <1>3, <1>4 DEF AssistInit, AssistInv, CallPending, NothingLeft

\* What a store of the program does to the bytes that matter.
LEMMA StoreHomes ==
  ASSUME ProgramFits, TypeOK, NextStore, Head(todo) \in Addresses \X Bytes
  PROVE  /\ \A a \in Watched :
               ram'[Home(a)] = IF Head(todo)[1] = a THEN Head(todo)[2] ELSE ram[Home(a)]
         /\ \A c \in Elsewhere : ram'[c] = ram[c]
<1> DEFINE b == Head(todo)[1]
           v == Head(todo)[2]
<1>1. b \in Addresses16 /\ b # ASSIST_HIGH /\ (WriteRam(b, v) \/ WritePinned(b, v))
  BY AddressesAssumption DEF NextStore
<1>2. himem1_page \in BankNumbers /\ himem2_page \in BankNumbers
  BY BytesAssumption DEF TypeOK
<1>3. ram \in [Cells -> Bytes]
  BY DEF TypeOK
<1> HIDE DEF b, v
<1>4. CASE WriteRam(b, v)
  <2>1. ~ InTop(b) /\ ram' = [ram EXCEPT ![MemBase(b, himem1_page, himem2_page)] = v]
    BY <1>4 DEF WriteRam, SetByte, Mapped
  <2>2. \A a \in Watched : ram'[Home(a)] = IF b = a THEN v ELSE ram[Home(a)]
    BY <1>1, <1>2, <1>3, <2>1, HomeOwn
  <2>3. \A c \in Elsewhere : ram'[c] = ram[c]
    BY <1>1, <1>2, <1>3, <2>1, ElsewhereApart
  <2> QED BY <2>2, <2>3 DEF b, v
<1>5. CASE WritePinned(b, v)
  <2>1. b \in TopRegisters /\ ram' = [ram EXCEPT ![PinnedCell(b)] = v]
    BY <1>5 DEF WritePinned, SetByte, TopRegisters
  <2>2. \A a \in Watched : ram'[Home(a)] = IF b = a THEN v ELSE ram[Home(a)]
    BY <1>3, <2>1, HomeOwn
  <2>3. \A c \in Elsewhere : ram'[c] = ram[c]
    BY <1>3, <2>1, ElsewhereApart
  <2> QED BY <2>2, <2>3 DEF b, v
<1> QED BY <1>1, <1>4, <1>5

LEMMA StoreKept ==
  ASSUME ProgramFits, AssistInv, NextStore
  PROVE  NullElsewhere' /\ KeptLoaded' /\ CallPending' /\ NothingLeft'
<1> DEFINE T == Addresses \X Bytes
<1>1. /\ TypeOK /\ todo \in Seq(T) /\ todo # <<>> /\ todo' = Tail(todo)
      /\ asked' = asked /\ phase \in Phases
      /\ phase' = IF phase = "loading" /\ Len(todo) = 1 THEN "idle" ELSE phase
  BY DEF AssistInv, AssistTypeOK, NextStore
<1>2. /\ Head(todo) \in T /\ Head(todo) = todo[1]
      /\ Len(todo) \in Nat \ {0} /\ Tail(todo) \in Seq(T)
      /\ Len(Tail(todo)) = Len(todo) - 1
      /\ \A i \in 1 .. Len(Tail(todo)) : Tail(todo)[i] = todo[i + 1] /\ i + 1 \in 1 .. Len(todo)
      /\ DOMAIN todo = 1 .. Len(todo) /\ DOMAIN Tail(todo) = 1 .. Len(Tail(todo))
  BY <1>1
<1>3. /\ \A a \in Watched :
            ram'[Home(a)] = IF Head(todo)[1] = a THEN Head(todo)[2] ELSE ram[Home(a)]
      /\ \A c \in Elsewhere : ram'[c] = ram[c]
  BY <1>1, <1>2, StoreHomes
<1>4. \A a \in Watched : \A v : Leaves(todo, ram[Home(a)], a, v) =>
                            Leaves(todo', ram'[Home(a)], a, v)
  BY <1>1, <1>3, LeavesTail
<1>5. NullElsewhere'
  BY <1>3 DEF AssistInv, NullElsewhere
<1>6. KeptLoaded'
  <2>1. \A a \in KeptBytes : a \in Watched /\ Home(a) = a
    BY DataLow DEF Watched
  <2> QED BY <1>4, <2>1 DEF AssistInv, KeptLoaded
<1>7. CallPending'
  <2> SUFFICES ASSUME phase = "calling" PROVE CallPending'
    BY <1>1 DEF CallPending
  <2>1. /\ asked \in Calls /\ todo[Len(todo)] = <<ASSIST_HIGH, High(Request)>>
        /\ \A i \in DOMAIN todo : todo[i][1] \in RequestBytes \cup AssistBytes
        /\ \A pair \in RequestPairs(asked) :
              Leaves(todo, ram[Home(pair[1])], pair[1], pair[2])
    BY DEF AssistInv, CallPending
  <2>2. Len(todo) # 1
    BY <1>2, <2>1 DEF NextStore
  <2>3. todo' # <<>> /\ todo'[Len(todo')] = <<ASSIST_HIGH, High(Request)>>
    BY <1>1, <1>2, <2>1, <2>2
  <2>4. \A i \in DOMAIN todo' : todo'[i][1] \in RequestBytes \cup AssistBytes
    BY <1>1, <1>2, <2>1
  <2>5. \A pair \in RequestPairs(asked) : pair[1] \in Watched
    BY RequestAddresses DEF RequestPairs, Watched
  <2> QED BY <1>1, <1>4, <2>1, <2>3, <2>4, <2>5 DEF CallPending
<1>8. NothingLeft'
  <2>1. phase' \in {"idle", "answered", "exited"} => phase = "loading" /\ Len(todo) = 1
    BY <1>1 DEF AssistInv, NothingLeft
  <2>2. Len(todo) = 1 => Tail(todo) = <<>>
    BY <1>2
  <2> QED BY <1>1, <2>1, <2>2 DEF NothingLeft
<1> QED BY <1>5, <1>6, <1>7, <1>8
-----------------------------------------------------------------------------
(***************************************************************************)
(* What the dispatcher finds.                                              *)
(***************************************************************************)
\* With one store left, all the rest of the request is there, and the high byte
\* of its address is the one about to be stored.
LEMMA RequestThere ==
  ASSUME ProgramFits, AssistInv, AboutToServe, NEW m, m = Deposit(High(Request))
  PROVE  /\ asked \in Calls /\ todo[1] = <<ASSIST_HIGH, High(Request)>>
         /\ High(Request) \in Bytes /\ m \in [Cells -> Bytes]
         /\ \A pair \in RequestPairs(asked) : m[Home(pair[1])] = pair[2]
         /\ m[PinnedCell(ASSIST_HIGH)] = High(Request)
         /\ \A a \in KeptBytes, v \in Bytes : ImageLeaves(a, v) => m[a] = v /\ ram[a] = v
         /\ \A c \in Elsewhere : m[c] = 0
<1> DEFINE top == PinnedCell(ASSIST_HIGH)
<1>1. /\ asked \in Calls /\ Len(todo) = 1 /\ todo[1] = <<ASSIST_HIGH, High(Request)>>
      /\ \A pair \in RequestPairs(asked) :
            Leaves(todo, ram[Home(pair[1])], pair[1], pair[2])
  BY DEF AssistInv, CallPending, AboutToServe
<1>2. DOMAIN todo = {1} /\ todo[1] \in Addresses \X Bytes /\ TypeOK
  <2>1. todo \in Seq(Addresses \X Bytes) /\ TypeOK
    BY DEF AssistInv, AssistTypeOK
  <2> QED BY <1>1, <2>1
<1>3. High(Request) \in Bytes
  BY <1>1, <1>2
<1>4. m \in [Cells -> Bytes]
  BY <1>2, <1>3, DepositType
<1>5. ram \in [Cells -> Bytes] /\ m = [ram EXCEPT ![top] = High(Request)] /\ top \in Cells
  BY <1>2, PinnedInMemory DEF TypeOK, Deposit, TopRegisters
<1> HIDE DEF top
<1>6. ASSUME NEW a \in Watched, NEW v, Leaves(todo, ram[Home(a)], a, v)
      PROVE  v = ram[Home(a)] /\ m[Home(a)] = v
  <2>1. a # ASSIST_HIGH /\ Home(a) \in Cells /\ Home(a) # top
    BY HomeOwn, AssistBytesTop DEF AssistBytes, top
  <2>2. todo[1][1] # a
    BY <1>1, <2>1
  <2>3. v = ram[Home(a)]
    BY <1>2, <1>6, <2>2, LeavesOne
  <2> QED BY <1>5, <2>1, <2>3
<1>7. \A pair \in RequestPairs(asked) : m[Home(pair[1])] = pair[2]
  <2>1. \A pair \in RequestPairs(asked) : pair[1] \in Watched
    BY RequestAddresses DEF RequestPairs, Watched
  <2> QED BY <1>1, <1>6, <2>1
<1>8. \A a \in KeptBytes, v \in Bytes : ImageLeaves(a, v) => m[a] = v /\ ram[a] = v
  <2>1. \A a \in KeptBytes : a \in Watched /\ Home(a) = a
    BY DataLow DEF Watched
  <2> QED BY <1>6, <2>1 DEF AssistInv, KeptLoaded
<1>9. \A c \in Elsewhere : m[c] = 0
  <2>1. \A c \in Elsewhere : c \in Cells /\ top # c
    BY ElsewhereApart, AssistBytesTop DEF AssistBytes, top
  <2> QED BY <1>5, <2>1 DEF AssistInv, NullElsewhere
<1>10. m[top] = High(Request)
  BY <1>5
<1> QED BY <1>1, <1>3, <1>4, <1>7, <1>8, <1>9, <1>10 DEF top

\* The word at two addresses in low memory, of known bytes.
LEMMA LowWord ==
  ASSUME TypeOK, NEW m, NEW a \in Addresses16, InLomem(a), NEW n \in Nat,
         m[a] = Low(n), m[a + 1] = High(n)
  PROVE  Fetch(m, a) = n
<1>1. Mapped(a) = a
  BY BytesAssumption, LowByte DEF TypeOK, Mapped
<1> QED BY <1>1, WordOfBytes DEF Fetch, WordAt

\* With bank 0 selected it finds the request, the parameter block and the buffer
\* of the call the program asked for.
LEMMA RequestFound ==
  ASSUME ProgramFits, AssistInv, AboutToServe, himem2_page = 0,
         NEW m, m = Deposit(High(Request))
  PROVE  /\ CallNumber(m) = asked.number
         /\ asked.number \in {PI_LIBC_READ, PI_LIBC_GETCWD} =>
              BufferOf(m, asked.number) = asked.buffer
<1>1. TypeOK /\ himem1_page \in BankNumbers /\ 0 \in BankNumbers
  BY BytesAssumption DEF AssistInv, AssistTypeOK, TypeOK
<1>2. /\ asked \in Calls
      /\ \A pair \in RequestPairs(asked) : m[Home(pair[1])] = pair[2]
      /\ m[PinnedCell(ASSIST_HIGH)] = High(Request)
      /\ \A a \in KeptBytes, v \in Bytes : ImageLeaves(a, v) => m[a] = v
  BY RequestThere
<1>3. /\ asked.number \in Nat /\ asked.block \in Addresses /\ asked.buffer \in Buffers
  BY <1>2, CallsAssumption
<1>4. asked.block \in Nat
  BY <1>3, AddressesAssumption, AddressBounds
<1>5. /\ Request \in Nat /\ Request + 2 \in Nat /\ Request + 2 + 1 = Request + 3
      /\ RequestBytes = {Request, Request + 1, Request + 2, Request + 3}
  BY RequestAddresses
<1>6. \A a \in RequestBytes \cup KeptBytes : a \in Addresses16 /\ InLomem(a) /\ Home(a) = a
  BY DataLow
<1>7. RequestAddress(m) = Request
  <2>1. m[PinnedCell(ASSIST_LOW)] = Low(Request)
    BY <1>2 DEF RequestPairs, Home
  <2>2. Mapped(ASSIST_LOW) = PinnedCell(ASSIST_LOW)
    BY AssistBytesTop, MemBaseCases DEF Mapped, PinnedCell, AssistBytes
  <2>3. PinnedCell(ASSIST_LOW) + 1 = PinnedCell(ASSIST_HIGH)
    BY CellForms, SMT DEF PinnedCell, ASSIST_LOW, ASSIST_HIGH
  <2>4. Fetch(m, ASSIST_LOW) = Low(Request) + 256 * High(Request)
    BY <1>2, <2>1, <2>2, <2>3 DEF Fetch, WordAt
  <2> QED BY <1>5, <2>4, WordOfBytes DEF RequestAddress
<1>8. CallNumber(m) = asked.number
  <2>1. m[Request] = Low(asked.number) /\ m[Request + 1] = High(asked.number)
    BY <1>2, <1>5, <1>6 DEF RequestPairs
  <2>2. Fetch(m, Request) = asked.number
    BY <1>1, <1>3, <1>5, <1>6, <2>1, LowWord
  <2> QED BY <1>7, <2>2 DEF CallNumber
<1>9. ParameterBlock(m) = asked.block
  <2>1. m[Request + 2] = Low(asked.block) /\ m[Request + 3] = High(asked.block)
    BY <1>2, <1>5, <1>6 DEF RequestPairs
  <2>2. Fetch(m, Request + 2) = asked.block
    BY <1>1, <1>4, <1>5, <1>6, <2>1, LowWord
  <2> QED BY <1>7, <2>2 DEF ParameterBlock
<1>10. ASSUME asked.number \in {PI_LIBC_READ, PI_LIBC_GETCWD}
       PROVE  BufferOf(m, asked.number) = asked.buffer
  <2> DEFINE w == BufferWord(asked)
  <2>1. asked \in FillCalls
    BY <1>2, <1>10 DEF FillCalls
  <2>2. w \in Nat /\ w \in KeptBytes /\ w + 1 \in KeptBytes
        /\ w + 2 \in KeptBytes /\ w + 2 + 1 \in KeptBytes
    <3>1. w \in Nat
      BY <1>4 DEF BufferWord
    <3> HIDE DEF w
    <3>2. {w, w + 1, w + 2, w + 2 + 1} \subseteq w .. w + 3
      BY <3>1
    <3>3. w .. w + 3 \subseteq KeptBytes
      BY <2>1 DEF KeptBytes, w
    <3> QED BY <3>1, <3>2, <3>3
  <2>3. /\ ImageLeaves(w, Low(asked.buffer[1])) /\ ImageLeaves(w + 1, High(asked.buffer[1]))
        /\ ImageLeaves(w + 2, Low(asked.buffer[2]))
        /\ ImageLeaves(w + 2 + 1, High(asked.buffer[2]))
    BY <2>1 DEF ProgramFits, BlocksLoaded, ImageLeavesWord
  <2>4. \A a, v : ImageLeaves(a, v) => v \in Bytes
    <3>1. Image \in Seq(Addresses \X Bytes) /\ 0 \in Bytes
      BY ZeroBank DEF ProgramFits, StoresNamed
    <3>2. \A i \in DOMAIN Image : Image[i] \in Addresses \X Bytes
      BY <3>1
    <3> QED BY <3>1, <3>2 DEF ImageLeaves, Leaves
  <2>5. /\ m[w] = Low(asked.buffer[1]) /\ m[w + 1] = High(asked.buffer[1])
        /\ m[w + 2] = Low(asked.buffer[2]) /\ m[w + 2 + 1] = High(asked.buffer[2])
    BY <1>2, <2>2, <2>3, <2>4
  <2>6. asked.buffer[1] \in Nat /\ asked.buffer[2] \in Nat
    BY <1>3, BuffersAssumption, AddressBounds
  <2>7. Fetch(m, w) = asked.buffer[1] /\ Fetch(m, w + 2) = asked.buffer[2]
    BY <1>1, <1>6, <2>2, <2>5, <2>6, LowWord
  <2>8. BufferOf(m, asked.number) = <<asked.buffer[1], asked.buffer[2]>>
    <3>1. CASE asked.number = PI_LIBC_READ
      <4>1. w = asked.block + 2 /\ w + 2 = asked.block + 4
        BY <1>4, <3>1 DEF BufferWord
      <4> QED BY <1>9, <2>7, <3>1, <4>1 DEF BufferOf
    <3>2. CASE asked.number # PI_LIBC_READ
      <4>1. w = asked.block
        BY <3>2 DEF BufferWord
      <4> QED BY <1>9, <2>7, <3>2, <4>1 DEF BufferOf
    <3> QED BY <3>1, <3>2
  <2>9. asked.buffer = <<asked.buffer[1], asked.buffer[2]>>
    BY <1>3, BuffersAssumption
  <2> QED BY <2>8, <2>9
<1> QED BY <1>8, <1>10

\* With another bank selected it follows a null pointer and knows no such call.
LEMMA RequestMissed ==
  ASSUME ProgramFits, AssistInv, AboutToServe, himem2_page # 0,
         NEW m, m = Deposit(High(Request))
  PROVE  CallNumber(m) \notin KnownCalls
<1>1. TypeOK /\ himem1_page \in BankNumbers
      /\ himem2_page \in Bytes \ {0} /\ himem2_page \in BankNumbers
  BY BytesAssumption DEF AssistInv, AssistTypeOK, TypeOK
<1>2. PICK low \in Bytes, high \in Bytes :
         ImageLeaves(0, low) /\ ImageLeaves(1, high) /\ low + 256 * high \notin KnownCalls
  BY DEF ProgramFits, NullIsNoRequest
<1>3. /\ \A a \in KeptBytes, v \in Bytes : ImageLeaves(a, v) => m[a] = v
      /\ \A c \in Elsewhere : m[c] = 0
  BY RequestThere
<1>4. m[0] = low /\ m[1] = high
  BY <1>2, <1>3 DEF KeptBytes
<1>5. RequestAddress(m) = 0
  <2>1. Mapped(ASSIST_LOW) = Himem2Cell(himem2_page, ASSIST_LOW)
    BY AssistBytesTop, MemBaseCases DEF Mapped, AssistBytes
  <2>2. Himem2Cell(himem2_page, ASSIST_LOW) + 1 = Himem2Cell(himem2_page, ASSIST_HIGH)
    <3>1. himem2_page \in Int /\ ASSIST_LOW \in Int /\ ASSIST_HIGH \in Int
          /\ ASSIST_HIGH = ASSIST_LOW + 1
      BY <1>1, BankBounds DEF ASSIST_LOW, ASSIST_HIGH
    <3> QED BY <3>1, CellForms
  <2>3. \A r \in AssistBytes : m[Himem2Cell(himem2_page, r)] = 0
    BY <1>1, <1>3 DEF Elsewhere
  <2> QED BY <2>1, <2>2, <2>3 DEF RequestAddress, Fetch, WordAt, AssistBytes
<1>6. Mapped(0) = 0
  <2>1. 0 \in Addresses16 /\ InLomem(0)
    BY DataLow DEF KeptBytes
  <2> QED BY <1>1, <2>1, LowByte DEF Mapped
<1>7. CallNumber(m) = low + 256 * high
  BY <1>4, <1>5, <1>6 DEF CallNumber, Fetch, WordAt
<1> QED BY <1>2, <1>7
-----------------------------------------------------------------------------
(***************************************************************************)
(* A call is one of those Memory allows the store of the high byte to make.*)
(***************************************************************************)
\* What a call answers is cut to a byte.
LEMMA AnswersAreBytes ==
  ASSUME ProgramFits
  PROVE  /\ \A n \in Results \cup Errnos : n % 256 \in Bytes
         /\ HostResults \cup {-1, 0, 1, 255} \subseteq Results
         /\ \A call \in Calls : 0 .. call.buffer[2] \subseteq Results
BY DEF ProgramFits, StoresNamed, Results

LEMMA CellsAreNumbers == Cells \subseteq Int
<1>1. ASSUME NEW a \in Addresses, NEW p \in Bytes, NEW q \in Bytes
      PROVE  MemBase(a, p, q) \in Int
  BY AddressesAssumption, BytesAssumption, MemBaseInt
<1>2. ASSUME NEW buffer \in Buffers, NEW p \in Bytes, NEW q \in Bytes
      PROVE  BufferCells(buffer, p, q) \subseteq Int
  <2>1. MemBase(buffer[1], p, q) \in Int
    BY BuffersAssumption, BytesAssumption, MemBaseInt
  <2> QED BY <2>1 DEF BufferCells
<1>3. ASSUME NEW r \in TopRegisters PROVE PinnedCell(r) \in Int
  BY TopRegistersInTop, ZeroBank, Himem2Cells DEF PinnedCell
<1> QED BY <1>1, <1>2, <1>3 DEF Cells, ProgramCells, HostCells, PinnedCells

\* The buffer a call fills is in memory, whatever banks are selected.
LEMMA BufferInMemory ==
  ASSUME TypeOK, NEW buffer \in Buffers
  PROVE  /\ Mapped(buffer[1]) \in Int /\ buffer[1] \in Addresses16
         /\ buffer[2] \in Nat /\ 1 <= buffer[2]
         /\ \A i \in 0 .. buffer[2] - 1 : Mapped(buffer[1]) + i \in Cells
<1>1. buffer[1] \in Addresses16 /\ buffer[2] \in Nat /\ 1 <= buffer[2]
  BY BuffersAssumption
<1>2. himem1_page \in Bytes /\ himem2_page \in Bytes
  BY DEF TypeOK
<1>3. Mapped(buffer[1]) \in Int
  BY <1>1, <1>2, BytesAssumption, MemBaseInt DEF Mapped
<1>4. BufferCells(buffer, himem1_page, himem2_page) \subseteq Cells
  BY <1>2 DEF Cells, HostCells
<1>5. \A i \in 0 .. buffer[2] - 1 : Mapped(buffer[1]) + i \in Cells
  BY <1>4 DEF BufferCells, Mapped
<1> QED BY <1>1, <1>3, <1>5

\* A host that stores less than the buffer holds leaves the rest as it was: it
\* stores what is there already.
LEMMA FilledWhole ==
  ASSUME ProgramFits, TypeOK, NEW m \in [Cells -> Bytes],
         NEW buffer \in Buffers, NEW count \in 0 .. buffer[2]
  PROVE  \E data \in [0 .. buffer[2] - 1 -> Bytes] :
            Filled(m, Mapped(buffer[1]), [i \in 0 .. count - 1 |-> FileByte])
              = Filled(m, Mapped(buffer[1]), data)
<1> DEFINE n == buffer[2]
           base == Mapped(buffer[1])
           part == [i \in 0 .. count - 1 |-> FileByte]
           data == [i \in 0 .. n - 1 |-> IF i < count THEN FileByte ELSE m[base + i]]
<1>1. FileByte \in Bytes
  BY DEF ProgramFits, StoresNamed
<1>2. /\ base \in Int /\ n \in Nat /\ count \in 0 .. n
      /\ \A i \in 0 .. n - 1 : base + i \in Cells
  BY BufferInMemory
<1> HIDE DEF n, base
<1>3. data \in [0 .. n - 1 -> Bytes]
  BY <1>1, <1>2
<1>4. ASSUME NEW c \in Cells
      PROVE  (IF c - base \in DOMAIN part THEN part[c - base] ELSE m[c])
               = (IF c - base \in DOMAIN data THEN data[c - base] ELSE m[c])
  <2>1. CASE c - base \in 0 .. count - 1
    <3>1. c - base \in 0 .. n - 1 /\ c - base < count
      BY <1>2, <2>1
    <3> QED BY <2>1, <3>1
  <2>2. CASE c - base \in 0 .. n - 1 /\ c - base \notin 0 .. count - 1
    <3>1. ~ (c - base < count)
      BY <1>2, <2>2
    <3>2. base + (c - base) = c
      <4>1. c \in Int
        BY CellsAreNumbers
      <4> QED BY <1>2, <4>1
    <3> QED BY <2>2, <3>1, <3>2
  <2>3. CASE c - base \notin 0 .. n - 1 /\ c - base \notin 0 .. count - 1
    BY <2>3
  <2> QED BY <2>1, <2>2, <2>3
<1>5. Filled(m, base, part) = Filled(m, base, data)
  BY <1>4 DEF Filled
<1> HIDE DEF data
<1> QED BY <1>3, <1>5 DEF n, base

\* Every call leaves the types alone and, to Memory, is a store of the high byte.
Served(v) == /\ AssistNothing(v) \/ AssistFill(v) \/ AssistInstall(v)
             /\ todo' = <<>> /\ asked' = asked
             /\ phase' \in {"answered", "exited"}
             /\ result' \in Results

\* A call that answers without filling a buffer, and one that fills it.
LEMMA AnswerServed ==
  ASSUME ProgramFits, NEW m, m = Deposit(High(Request)),
         NEW ret \in Results, NEW err \in Errnos \cup {0}, Answer(m, ret, err),
         UNCHANGED handlers
  PROVE  Served(High(Request))
<1>1. ret % 256 \in Bytes /\ err % 256 \in Bytes
  BY AnswersAreBytes
<1>2. ram' = Answered(Deposit(High(Request)), ret % 256, err % 256)
  BY DEF Answer
<1> QED BY <1>1, <1>2 DEF Answer, Served, AssistNothing

LEMMA InstallServed ==
  ASSUME ProgramFits, NEW m, m = Deposit(High(Request)),
         NEW ret \in Results, NEW err \in Errnos, Answer(m, ret, err),
         NEW device \in Units, Install(device)
  PROVE  Served(High(Request))
<1>1. ret % 256 \in Bytes /\ err % 256 \in Bytes
  BY AnswersAreBytes
<1>2. ram' = Answered(Deposit(High(Request)), ret % 256, err % 256)
  BY DEF Answer
<1> QED BY <1>1, <1>2 DEF Answer, Served, AssistInstall

LEMMA FillServed ==
  ASSUME ProgramFits, TypeOK, NEW m \in [Cells -> Bytes], m = Deposit(High(Request)),
         NEW buffer \in Buffers, NEW count \in 0 .. buffer[2],
         NEW ret \in Results, NEW err \in Errnos, UNCHANGED handlers,
         Answer(Filled(m, Mapped(buffer[1]), [i \in 0 .. count - 1 |-> FileByte]),
                ret, err)
  PROVE  Served(High(Request))
<1>1. ret % 256 \in Bytes /\ err % 256 \in Bytes
  BY AnswersAreBytes
<1>2. PICK data \in [0 .. buffer[2] - 1 -> Bytes] :
         Filled(m, Mapped(buffer[1]), [i \in 0 .. count - 1 |-> FileByte])
           = Filled(m, Mapped(buffer[1]), data)
  BY FilledWhole
<1>3. ram' = Answered(Filled(Deposit(High(Request)), Mapped(buffer[1]), data),
                      ret % 256, err % 256)
  BY <1>2 DEF Answer
<1>4. AssistFill(High(Request))
  BY <1>1, <1>3 DEF AssistFill, Answer
<1> QED BY <1>4 DEF Served, Answer

LEMMA ServeIsCall ==
  ASSUME ProgramFits, AssistInv, Serve
  PROVE  AboutToServe /\ High(Request) \in Bytes /\ Served(High(Request))
<1> DEFINE v == High(Request)
<1>1. PICK m : /\ m = Deposit(v)
               /\ \/ ServeUnknown(m) \/ ServeLibC(m) \/ ServeRead(m) \/ ServeGetcwd(m)
                  \/ ServeSysexit(m) \/ ServeInit(m) \/ ServeFb(m)
  BY DEF Serve
<1>2. AboutToServe /\ result \in Results /\ TypeOK
  BY <1>1 DEF ServeUnknown, ServeLibC, ServeRead, ServeGetcwd, ServeSysexit,
              ServeInit, ServeFb, Calling, AboutToServe, AssistInv, AssistTypeOK
<1>3. asked \in Calls /\ v \in Bytes /\ m \in [Cells -> Bytes]
      /\ m[PinnedCell(ASSIST_HIGH)] = v
  BY <1>1, <1>2, RequestThere
<1>4. ASSUME CallNumber(m) \in KnownCalls
      PROVE  /\ CallNumber(m) = asked.number
             /\ asked.number \in {PI_LIBC_READ, PI_LIBC_GETCWD} =>
                  BufferOf(m, asked.number) = asked.buffer
  BY <1>1, <1>2, <1>4, RequestFound, RequestMissed
<1>8. {-1, 0, 1, 255} \subseteq Results /\ HostResults \subseteq Results
  BY AnswersAreBytes
<1> SUFFICES Served(v)
  BY <1>2, <1>3
<1>9. CASE ServeUnknown(m)
  <2>1. Answer(m, 255, 0) /\ UNCHANGED handlers
    BY <1>9 DEF ServeUnknown
  <2>2. 255 \in Results /\ 0 \in Errnos \cup {0}
    BY <1>8
  <2> QED BY <1>1, <2>1, <2>2, AnswerServed
<1>10. CASE ServeLibC(m)
  <2>1. PICK ret \in HostResults, err \in Errnos : Answer(m, ret, err)
    BY <1>10 DEF ServeLibC
  <2>2. UNCHANGED handlers
    BY <1>10 DEF ServeLibC
  <2> QED BY <1>1, <1>8, <2>1, <2>2, AnswerServed
<1>11. CASE ServeRead(m)
  <2>1. CallNumber(m) = PI_LIBC_READ /\ UNCHANGED handlers
    BY <1>11 DEF ServeRead
  <2>2. PI_LIBC_READ \in KnownCalls
    BY SMT DEF KnownCalls, LibCCalls, PI_LIBC_PUTS, PI_LIBC_READ, PI_LIBC_FSYNC
  <2>3. BufferOf(m, PI_LIBC_READ) = asked.buffer /\ asked.buffer \in Buffers
    BY <1>3, <1>4, <2>1, <2>2, CallsAssumption
  <2>4. CASE \E err \in Errnos \ {0} : Answer(m, -1, err)
    BY <1>1, <1>8, <2>1, <2>4, AnswerServed
  <2>5. CASE \E count \in 0 .. asked.buffer[2], err \in Errnos :
                Answer(Filled(m, Mapped(asked.buffer[1]),
                              [i \in 0 .. count - 1 |-> FileByte]), count, err)
    <3>1. 0 .. asked.buffer[2] \subseteq Results
      BY <1>3, AnswersAreBytes
    <3> QED BY <1>1, <1>2, <1>3, <2>1, <2>3, <2>5, <3>1, FillServed
  <2> QED BY <1>11, <2>3, <2>4, <2>5 DEF ServeRead
<1>12. CASE ServeGetcwd(m)
  <2>1. CallNumber(m) = PI_LIBC_GETCWD /\ UNCHANGED handlers
    BY <1>12 DEF ServeGetcwd
  <2>2. PI_LIBC_GETCWD \in KnownCalls
    BY SMT DEF KnownCalls, LibCCalls, PI_LIBC_PUTS, PI_LIBC_GETCWD, PI_LIBC_FSYNC
  <2>3. BufferOf(m, PI_LIBC_GETCWD) = asked.buffer /\ asked.buffer \in Buffers
    BY <1>3, <1>4, <2>1, <2>2, CallsAssumption
  <2>4. CASE \E err \in Errnos \ {0} : Answer(m, 255, err)
    BY <1>1, <1>8, <2>1, <2>4, AnswerServed
  <2>5. CASE \E count \in 1 .. asked.buffer[2], err \in Errnos :
                Answer(Filled(m, Mapped(asked.buffer[1]),
                              [i \in 0 .. count - 1 |-> FileByte]), 0, err)
    <3>1. \A count \in 1 .. asked.buffer[2] : count \in 0 .. asked.buffer[2]
      BY <2>3, BuffersAssumption
    <3> QED BY <1>1, <1>2, <1>3, <1>8, <2>1, <2>3, <2>5, <3>1, FillServed
  <2> QED BY <1>12, <2>3, <2>4, <2>5 DEF ServeGetcwd
<1>13. CASE ServeSysexit(m)
  <2> DEFINE low == PinnedCell(ASSIST_LOW)
             high == PinnedCell(ASSIST_HIGH)
  <2>1. low \in Cells /\ high \in Cells
    BY PinnedInMemory DEF TopRegisters
  <2>2. m[low] \in Bytes
    BY <1>3, <2>1
  <2>3. [m EXCEPT ![low] = m[low], ![high] = v] = m
    BY <1>3, <2>1
  <2>4. ram' = Answered(Deposit(v), m[low], v)
    BY <1>1, <1>13, <2>3 DEF ServeSysexit, Answered
  <2> QED BY <1>2, <1>3, <1>13, <2>2, <2>4 DEF ServeSysexit, Served, AssistNothing
<1>14. CASE ServeInit(m)
  <2>1. PICK device \in DOMAIN InitCall :
           CallNumber(m) = InitCall[device] /\ Install(device)
    BY <1>14 DEF ServeInit
  <2>2. InitCall[device] \in KnownCalls
    <3>1. PI_FB_INIT \in FbCalls
      BY SMT DEF FbCalls, PI_FB_INIT, PI_FB_MALLOC_SBUF
    <3> QED BY <2>1, <3>1 DEF InitCall, KnownCalls
  <2>3. device \in Units
    BY <1>3, <1>4, <2>1, <2>2 DEF ProgramFits, StoresNamed
  <2>4. PICK err \in Errnos : Answer(m, 0, err) \/ Answer(m, -1, err)
    BY <1>14 DEF ServeInit
  <2> QED BY <1>1, <1>8, <2>1, <2>3, <2>4, InstallServed
<1>15. CASE ServeFb(m)
  <2>1. FbResults(CallNumber(m)) \subseteq Results
    BY <1>8 DEF FbResults
  <2>2. UNCHANGED handlers
    BY <1>15 DEF ServeFb
  <2>3. PICK ret \in FbResults(CallNumber(m)), err \in Errnos : Answer(m, ret, err)
    BY <1>15 DEF ServeFb
  <2> QED BY <1>1, <2>1, <2>2, <2>3, AnswerServed
<1> QED BY <1>1, <1>9, <1>10, <1>11, <1>12, <1>13, <1>14, <1>15
-----------------------------------------------------------------------------
(***************************************************************************)
(* Every step of the program and the dispatcher is a step of Memory.       *)
(***************************************************************************)
LEMMA AssistImplementsNext ==
  ASSUME ProgramFits, AssistInv, [AssistNext]_assistVars
  PROVE  [Next]_vars
<1>1. CASE UNCHANGED assistVars
  BY <1>1 DEF assistVars
<1>2. ASSUME NEW call \in Calls, Ask(call) PROVE UNCHANGED vars
  BY <1>2 DEF Ask
<1>3. CASE NextStore
  <2>1. todo \in Seq(Addresses \X Bytes) /\ todo # <<>>
    BY <1>3 DEF AssistInv, AssistTypeOK, NextStore
  <2>2. Head(todo)[1] \in Addresses /\ Head(todo)[2] \in Bytes
    BY <2>1
  <2>3. MemWrite(Head(todo)[1], Head(todo)[2])
    BY <1>3 DEF NextStore, MemWrite
  <2> QED BY <2>2, <2>3 DEF Next
<1>4. ASSUME NEW r \in Registers, NEW bank \in Selectable, SelectBank(r, bank)
      PROVE  Next
  <2>1. r \in Addresses /\ bank \in Bytes
    BY DEF ProgramFits, StoresNamed, Registers
  <2>2. MemWrite(r, bank)
    BY <1>4 DEF SelectBank, MemWrite
  <2> QED BY <2>1, <2>2 DEF Next
<1>5. CASE Serve
  <2>1. High(Request) \in Bytes /\ ASSIST_HIGH \in Addresses
    BY <1>5, ServeIsCall DEF ProgramFits, StoresNamed
  <2>2. MemWrite(ASSIST_HIGH, High(Request))
    BY <1>5, ServeIsCall DEF Served, MemWrite
  <2> QED BY <2>1, <2>2 DEF Next
<1>6. CASE Collect
  BY <1>6 DEF Collect
<1> QED BY <1>1, <1>2, <1>3, <1>4, <1>5, <1>6 DEF AssistNext, Registers

\* A call touches neither what the image put in low memory for the dispatcher nor
\* the place of the request's address in the other banks: it writes its answer in
\* bank 0 and its data in a buffer of the program.
LEMMA BufferApart ==
  ASSUME BuffersInWindow, ProgramFits, TypeOK, NEW buffer \in Buffers,
         NEW i \in 0 .. buffer[2] - 1, NEW c \in KeptBytes \cup Elsewhere
  PROVE  Mapped(buffer[1]) + i # c
<1>1. /\ buffer[1] \in Addresses16 /\ buffer[2] \in Nat
      /\ InOneWindow(buffer[1], buffer[1] + buffer[2] - 1)
      /\ himem1_page \in BankNumbers /\ himem2_page \in BankNumbers
  BY BuffersAssumption, BytesAssumption DEF BuffersInWindow, TypeOK
<1>2. PICK b : b = buffer[1] + i
  OBVIOUS
<1>3. /\ b \in Addresses16 /\ ~ InTop(b)
      /\ Mapped(buffer[1]) + i = MemBase(b, himem1_page, himem2_page)
  BY <1>1, <1>2, BufferCell DEF Mapped
<1>4. CASE c \in KeptBytes
  <2>1. b # c
    BY <1>2, <1>4 DEF ProgramFits, LaidOut
  <2>2. c \in Addresses16 /\ InLomem(c)
    BY <1>4, DataLow
  <2> QED BY <1>1, <1>3, <2>1, <2>2, LowByte
<1>5. CASE c \in Elsewhere
  BY <1>1, <1>3, <1>5, ElsewhereApart
<1> QED BY <1>4, <1>5

LEMMA CallApart ==
  ASSUME BuffersInWindow, ProgramFits, TypeOK, NEW c \in KeptBytes \cup Elsewhere,
         NEW v \in Bytes, AssistNothing(v) \/ AssistFill(v) \/ AssistInstall(v)
  PROVE  ram'[c] = ram[c]
<1>1. /\ c \in Cells /\ c # PinnedCell(ASSIST_LOW) /\ c # PinnedCell(ASSIST_HIGH)
  <2>1. ASSIST_LOW \in TopRegisters /\ ASSIST_HIGH \in TopRegisters
    BY DEF TopRegisters
  <2>2. CASE c \in KeptBytes
    <3>1. c \in Watched /\ Home(c) = c /\ c \notin AssistBytes
      BY <2>2, DataLow DEF Watched
    <3> QED BY <2>1, <3>1, HomeOwn DEF AssistBytes
  <2>3. CASE c \in Elsewhere
    BY <2>1, <2>3, ElsewhereApart
  <2> QED BY <2>2, <2>3
<1>2. \A m \in [Cells -> Bytes] : \A ret, err : Answered(m, ret, err)[c] = m[c]
  BY <1>1 DEF Answered
<1>3. Deposit(v) \in [Cells -> Bytes] /\ Deposit(v)[c] = ram[c]
  BY <1>1, DepositType DEF Deposit, TypeOK
<1>4. CASE AssistNothing(v)
  BY <1>2, <1>3, <1>4 DEF AssistNothing
<1>5. CASE AssistInstall(v)
  BY <1>2, <1>3, <1>5 DEF AssistInstall
<1>6. CASE AssistFill(v)
  <2>1. PICK buffer \in Buffers : \E data \in [0 .. buffer[2] - 1 -> Bytes] :
          \E ret, err \in Bytes :
            ram' = Answered(Filled(Deposit(v), Mapped(buffer[1]), data), ret, err)
    BY <1>6 DEF AssistFill
  <2>2. PICK data \in [0 .. buffer[2] - 1 -> Bytes], ret \in Bytes, err \in Bytes :
          ram' = Answered(Filled(Deposit(v), Mapped(buffer[1]), data), ret, err)
    BY <2>1
  <2> DEFINE m == Filled(Deposit(v), Mapped(buffer[1]), data)
  <2>3. m \in [Cells -> Bytes]
    BY <1>3, BufferBounds, FilledType
  <2>4. c - Mapped(buffer[1]) \notin 0 .. buffer[2] - 1
    <3>1. c \in Int /\ Mapped(buffer[1]) \in Int
      BY <1>1, CellsAreNumbers, BufferInMemory
    <3>2. \A i \in 0 .. buffer[2] - 1 : Mapped(buffer[1]) + i # c
      BY BufferApart
    <3> QED BY <3>1, <3>2
  <2>5. m[c] = ram[c]
    BY <1>1, <1>3, <2>4 DEF Filled
  <2> QED BY <1>2, <2>2, <2>3, <2>5
<1> QED BY <1>4, <1>5, <1>6
\* The invariant, action by action.
LEMMA AssistStep ==
  ASSUME BuffersInWindow, ProgramFits, AssistInv, [AssistNext]_assistVars
  PROVE  AssistInv'
<1>1. TypeOK'
  <2>1. TypeOK /\ [Next]_vars
    BY AssistImplementsNext DEF AssistInv, AssistTypeOK
  <2> QED BY <2>1, TypeStep
<1>2. /\ phase \in Phases /\ asked \in Calls \cup {NoCall} /\ result \in Results
      /\ todo \in Seq(Addresses \X Bytes)
  BY DEF AssistInv, AssistTypeOK
<1>3. CASE UNCHANGED assistVars
  BY <1>1, <1>2, <1>3 DEF assistVars, vars, AssistInv, AssistTypeOK, NullElsewhere, KeptLoaded,
     CallPending, NothingLeft
<1>4. ASSUME NEW call \in Calls, Ask(call) PROVE AssistInv'
  <2>1. PICK s : s = CallStores(call)
    OBVIOUS
  <2>2. /\ todo' = s /\ asked' = call /\ phase' = "calling" /\ ram' = ram
        /\ result' = result /\ todo = <<>>
    BY <1>4, <2>1 DEF Ask, vars, AssistInv, NothingLeft
  <2>3. /\ s \in Seq(Addresses \X Bytes) /\ Len(s) = 6 /\ DOMAIN s = 1 .. 6
        /\ s[6] = <<ASSIST_HIGH, High(Request)>>
        /\ \A i \in 1 .. 6 : s[i][1] \in RequestBytes \cup AssistBytes
    BY <2>1, RequestStores
  <2>4. AssistTypeOK'
    BY <1>1, <1>2, <2>2, <2>3 DEF AssistTypeOK, Phases
  <2>5. KeptLoaded'
    <3>1. ASSUME NEW a \in KeptBytes, NEW v \in Bytes, ImageLeaves(a, v)
          PROVE  Leaves(s, ram[a], a, v)
      <4>1. v = ram[a]
        BY <2>2, <3>1, LeavesNothing DEF AssistInv, KeptLoaded
      <4>2. a \notin RequestBytes \cup AssistBytes
        BY DataLow DEF ProgramFits, LaidOut
      <4> QED BY <2>3, <4>1, <4>2 DEF Leaves
    <3> QED BY <2>2, <3>1 DEF KeptLoaded
  <2>6. CallPending'
    <3>1. \A pair \in RequestPairs(call) : Leaves(s, ram[Home(pair[1])], pair[1], pair[2])
      BY <2>1, RequestLeft
    <3>2. s # <<>>
      BY <2>3
    <3> QED BY <2>2, <2>3, <3>1, <3>2 DEF CallPending
  <2> QED BY <2>2, <2>4, <2>5, <2>6 DEF AssistInv, NullElsewhere, NothingLeft
<1>5. CASE NextStore
  <2>1. AssistTypeOK'
    <3>1. /\ todo # <<>> /\ todo' = Tail(todo) /\ asked' = asked /\ result' = result
          /\ phase' \in {phase, "idle"}
      BY <1>5 DEF NextStore
    <3>2. todo' \in Seq(Addresses \X Bytes)
      BY <1>2, <3>1
    <3> QED BY <1>1, <1>2, <3>1, <3>2 DEF AssistTypeOK, Phases
  <2> QED BY <1>5, <2>1, StoreKept DEF AssistInv
<1>6. ASSUME NEW r \in Registers, NEW bank \in Selectable, SelectBank(r, bank)
      PROVE  AssistInv'
  <2>1. /\ ram' = [ram EXCEPT ![PinnedCell(r)] = bank]
        /\ UNCHANGED <<todo, asked, phase, result>>
    BY <1>6 DEF SelectBank, WritePageRegister, SetByte
  <2>2. AssistTypeOK'
    BY <1>1, <1>2, <2>1 DEF AssistTypeOK
  <2>3. ram \in [Cells -> Bytes]
    BY DEF AssistInv, AssistTypeOK, TypeOK
  <2>4. \A a \in Watched : ram'[Home(a)] = ram[Home(a)]
    <3>1. \A a \in Watched : Home(a) \in Cells /\ PinnedCell(r) # Home(a)
      <4>1. r \in TopRegisters /\ \A a \in Watched : r # a
        BY RegistersTop, RegisterNumbers, DataLow DEF Watched
      <4> QED BY <4>1, HomeOwn
    <3> QED BY <2>1, <2>3, <3>1
  <2>5. \A c \in Elsewhere : ram'[c] = ram[c]
    BY <2>1, <2>3, RegistersTop, ElsewhereApart
  <2>6. KeptLoaded'
    <3>1. \A a \in KeptBytes : ram'[a] = ram[a]
      BY <2>4, DataLow DEF Watched
    <3> QED BY <2>1, <3>1 DEF AssistInv, KeptLoaded
  <2>7. CallPending'
    <3> SUFFICES ASSUME phase = "calling" PROVE CallPending'
      BY <2>1 DEF CallPending
    <3>1. \A pair \in RequestPairs(asked) : pair[1] \in Watched
      BY RequestAddresses DEF RequestPairs, Watched
    <3> QED BY <2>1, <2>4, <3>1 DEF AssistInv, CallPending
  <2> QED BY <2>1, <2>2, <2>5, <2>6, <2>7 DEF AssistInv, NullElsewhere, NothingLeft
<1>7. CASE Serve
  <2>1. AboutToServe /\ High(Request) \in Bytes /\ Served(High(Request))
    BY <1>7, ServeIsCall
  <2>2. /\ todo' = <<>> /\ asked' = asked /\ phase' \in {"answered", "exited"}
        /\ result' \in Results
    BY <2>1 DEF Served
  <2>3. \A c \in KeptBytes \cup Elsewhere : ram'[c] = ram[c]
    BY <2>1, CallApart DEF Served, AssistInv, AssistTypeOK
  <2>4. \A a \in KeptBytes, v \in Bytes : ImageLeaves(a, v) => ram[a] = v
    BY <2>1, RequestThere
  <2>5. KeptLoaded'
    BY <2>2, <2>3, <2>4, LeavesNothing DEF KeptLoaded
  <2>6. AssistTypeOK'
    BY <1>1, <1>2, <2>2 DEF AssistTypeOK, Phases
  <2> QED BY <2>2, <2>3, <2>5, <2>6
          DEF AssistInv, NullElsewhere, CallPending, NothingLeft
<1>8. CASE Collect
  <2>1. /\ phase = "answered" /\ phase' = "idle" /\ asked' = NoCall /\ result' = 0
        /\ ram' = ram /\ todo' = todo /\ 0 \in Results
    BY <1>8 DEF Collect, vars, Results
  <2>2. AssistTypeOK'
    BY <1>1, <1>2, <2>1 DEF AssistTypeOK, Phases
  <2> QED BY <2>1, <2>2
          DEF AssistInv, NullElsewhere, KeptLoaded, CallPending, NothingLeft
<1> QED BY <1>3, <1>4, <1>5, <1>6, <1>7, <1>8 DEF AssistNext, Registers
-----------------------------------------------------------------------------
(***************************************************************************)
(* The theorems.                                                           *)
(***************************************************************************)
\* The invariant holds in every state of the program and the dispatcher: nothing
\* the program, an interrupt routine or a call does disturbs the request, the
\* parameter blocks or the null pointer of the other banks (pi_libc.h:18-27,
\* libC_assist.c:154-230).
THEOREM AssistInvariant ==
  ASSUME BuffersInWindow, ProgramFits
  PROVE  AssistSpec => []AssistInv
<1>1. AssistInit => AssistInv
  BY AssistStart
<1>2. AssistInv /\ [AssistNext]_assistVars => AssistInv'
  BY AssistStep
<1> QED BY <1>1, <1>2, PTL DEF AssistSpec

\* Every byte the program and the host store, every address, bank and result stays
\* in its type, in whatever bank the dispatcher looks for the request: a result
\* is cut to the byte it is stored in (mem.c:126-131).
THEOREM AssistTypeCorrect ==
  ASSUME BuffersInWindow, ProgramFits
  PROVE  AssistSpec => []AssistTypeOK
<1>1. AssistInv => AssistTypeOK
  BY DEF AssistInv
<1> QED BY <1>1, AssistInvariant, PTL

\* The dispatcher serves the call the program asked for, with the program's buffer,
\* whatever banks were selected between the stores of the request, provided bank 0
\* is selected at the last one (libC_assist.c:158-159, pi_libc.h:18-27).
THEOREM RequestsServed ==
  ASSUME BuffersInWindow, ProgramFits
  PROVE  AssistSpec => []RequestServed
<1>1. AssistInv => RequestServed
  BY RequestFound DEF RequestServed
<1> QED BY <1>1, AssistInvariant, PTL

\* The program, the dispatcher and the devices' initialisation are one of the
\* behaviours Memory allows: the places that module leaves open are filled in, and
\* nothing it forbids is done.
THEOREM AssistImplementsMemory ==
  ASSUME BuffersInWindow, ProgramFits
  PROVE  AssistSpec => Spec
<1>1. AssistInit => Init
  BY DEF AssistInit
<1>2. AssistInv /\ [AssistNext]_assistVars => [Next]_vars
  BY AssistImplementsNext
<1> QED BY <1>1, <1>2, AssistInvariant, PTL DEF AssistSpec, Spec

\* So the calls, too, respect the banked store: what a call of the C library writes
\* goes into the buffer the program named, in the banks it sees, and nowhere else
\* (libC_assist.c, mem.c).
THEOREM CallsImplementBankedStore ==
  ASSUME BuffersInWindow, ProgramFits
  PROVE  AssistSpec => ImplementsBankedStore
BY AssistImplementsMemory, MemoryImplementsBankedStore, PTL

\* The step that serves a read call.
LEMMA DeliveredStep ==
  ASSUME BuffersInWindow, ProgramFits, AssistInv, AssistNext,
         AboutToServe, phase' = "answered",
         asked.number = PI_LIBC_READ, himem2_page = 0, result' > 0,
         NEW i \in 0 .. result' - 1
  PROVE  Read(asked.buffer[1] + i)' = {FileByte}
<1>1. Serve
  BY DEF AssistNext, AboutToServe, Ask, NextStore, SelectBank, Collect
<1>2. PICK m : /\ m = Deposit(High(Request))
               /\ \/ ServeUnknown(m) \/ ServeLibC(m) \/ ServeRead(m) \/ ServeGetcwd(m)
                  \/ ServeSysexit(m) \/ ServeInit(m) \/ ServeFb(m)
  BY <1>1 DEF Serve
<1>3. CallNumber(m) = PI_LIBC_READ /\ BufferOf(m, PI_LIBC_READ) = asked.buffer
  BY <1>2, RequestFound
<1>4. ServeRead(m)
  <2>1. /\ PI_LIBC_READ \in KnownCalls /\ PI_LIBC_READ # PI_LIBC_GETCWD
        /\ PI_LIBC_READ # PI_LIBC_SYSEXIT /\ PI_LIBC_READ \notin FbCalls
        /\ \A device \in DOMAIN InitCall : InitCall[device] # PI_LIBC_READ
    BY SMT DEF KnownCalls, LibCCalls, FbCalls, InitCall, PI_LIBC_PUTS, PI_LIBC_READ,
               PI_LIBC_GETCWD, PI_LIBC_SYSEXIT, PI_LIBC_FSYNC, PI_FB_INIT,
               PI_FB_MALLOC_SBUF, PI_TIME_INIT, PI_MMU_INIT, PI_MBOX_INIT
  <2> QED BY <1>2, <1>3, <2>1
          DEF ServeUnknown, ServeLibC, ServeGetcwd, ServeSysexit, ServeInit, ServeFb
<1> DEFINE buffer == asked.buffer
           base == Mapped(buffer[1])
<1>5. PICK count \in 0 .. buffer[2], err \in Errnos :
         Answer(Filled(m, base, [k \in 0 .. count - 1 |-> FileByte]), count, err)
  <2>1. \A err : ~ Answer(m, -1, err)
    BY DEF Answer
  <2> QED BY <1>3, <1>4, <2>1 DEF ServeRead
<1>6. /\ asked \in Calls /\ buffer \in Buffers /\ m \in [Cells -> Bytes] /\ TypeOK
  BY <1>2, RequestThere, CallsAssumption DEF AssistInv, AssistTypeOK
<1>7. /\ base \in Int /\ buffer[1] \in Addresses16 /\ buffer[2] \in Nat
      /\ InOneWindow(buffer[1], buffer[1] + buffer[2] - 1)
      /\ himem1_page \in BankNumbers /\ himem2_page \in BankNumbers
      /\ base + i \in Cells
  <2>1. result' = count /\ count \in 0 .. buffer[2]
    BY <1>5 DEF Answer
  <2>2. i \in 0 .. buffer[2] - 1
    BY <1>6, <2>1, BufferInMemory
  <2> QED BY <1>6, <2>2, BufferInMemory, BytesAssumption DEF BuffersInWindow, TypeOK
<1>8. i \in 0 .. count - 1 /\ i \in 0 .. buffer[2] - 1
  <2>1. result' = count /\ count \in 0 .. buffer[2]
    BY <1>5 DEF Answer
  <2> QED BY <1>7, <2>1
<1>9. PICK a : a = buffer[1] + i
  OBVIOUS
<1>10. /\ a \in Addresses16 /\ ~ InTop(a)
       /\ base + i = MemBase(a, himem1_page, himem2_page)
  BY <1>7, <1>8, <1>9, BufferCell DEF Mapped
<1>11. ram'[base + i] = FileByte
  <2> DEFINE part == [k \in 0 .. count - 1 |-> FileByte]
  <2>1. (base + i) - base = i
    BY <1>7
  <2>2. Filled(m, base, part)[base + i] = FileByte
    BY <1>6, <1>7, <1>8, <2>1 DEF Filled
  <2>3. PinnedCell(ASSIST_LOW) # base + i /\ PinnedCell(ASSIST_HIGH) # base + i
    BY <1>7, <1>10, AssistBytesTop, PinnedCellsOwn DEF AssistBytes
  <2>4. DOMAIN Filled(m, base, part) = Cells
    BY <1>6 DEF Filled
  <2>5. ram' = Answered(Filled(m, base, part), count % 256, err % 256)
    BY <1>5 DEF Answer
  <2> QED BY <1>7, <2>2, <2>3, <2>4, <2>5 DEF Answered
<1>12. UNCHANGED <<himem1_page, himem2_page, asked>>
  BY <1>5 DEF Answer, pages
<1>13. Mapped(a)' = base + i
  BY <1>10, <1>12 DEF Mapped
<1>14. Read(a)' = {ram'[base + i]}
  BY <1>10, <1>13 DEF Read
<1> QED BY <1>9, <1>11, <1>12, <1>14

\* A read call's data is in the program's buffer when the call returns: as many
\* bytes as it reports, at the addresses and in the banks the program had selected
\* when it made the call (libC_assist.c:64-73, mem.c:300-317).
THEOREM BuffersDelivered ==
  ASSUME BuffersInWindow, ProgramFits
  PROVE  AssistSpec => BufferDelivered
<1>1. AssistInv /\ [AssistNext]_assistVars =>
        [ /\ AboutToServe /\ phase' = "answered"
          /\ asked.number = PI_LIBC_READ /\ himem2_page = 0 /\ result' > 0
          => \A i \in 0 .. result' - 1 : Read(asked.buffer[1] + i)' = {FileByte}
        ]_assistVars
  BY DeliveredStep
<1> QED BY <1>1, AssistInvariant, PTL DEF AssistSpec, BufferDelivered
=============================================================================
