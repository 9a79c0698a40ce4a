------------------------------- MODULE Assist -------------------------------
(***************************************************************************)
(* Synchronous calls: a program of the 6502 (send_for_pi in pi_libc.h)     *)
(* with the dispatcher of libC_assist.c, the sync_*_assist functions of    *)
(* the devices, and the memory both work on.                               *)
(*                                                                         *)
(* The program is a list of stores still to be made: those of its parameter*)
(* blocks first (the loader's, main.c), then, for each call, the request's *)
(* four bytes and its address, low byte first.  The store of the high byte *)
(* runs the call, during which the 6502 is not clocked.  An interrupt      *)
(* routine of the program may select a bank between any two stores.        *)
(*                                                                         *)
(* The dispatcher finds everything through mem_base: the request's address *)
(* at 0xFFF8, the call's number and the parameter block in the request,    *)
(* the buffer in the parameter block.  Every one of these steps goes to    *)
(* whatever bank is selected.                                              *)
(***************************************************************************)
EXTENDS Memory, Sequences

CONSTANTS Image,        \* the <<address, byte>> of the program the loader stores
          Request,      \* the address of the request (cbk in pi_libc.h)
          Calls,        \* the calls the program makes: number, parameter block,
                        \* and the buffer and size it has put there
          HostResults,  \* what a call of the C library returns, -1 if it fails
          Errnos,       \* what it leaves in errno
          FileByte,     \* what the files the program reads contain
          Selectable    \* the banks it selects

ASSUME CallsAssumption ==
    Calls \subseteq [number : Nat, block : Addresses, buffer : Buffers]
ASSUME RequestAssumption == Request \in Addresses

VARIABLES todo,         \* the <<address, byte>> the program has yet to store
          asked,        \* the current call, or the last
          phase,        \* of the program: see Phases
          result        \* what the host function returned, as an int

assistVars == <<vars, todo, asked, phase, result>>

Phases == {"loading", "idle", "calling", "answered", "exited"}

-----------------------------------------------------------------------------
\* include/*_calls.h
PI_LIBC_PUTS    == 257
PI_LIBC_READ    == 261
PI_LIBC_GETCWD  == 263
PI_LIBC_SYSEXIT == 267
PI_LIBC_FSYNC   == 268
PI_MBOX_INIT    == 513
PI_MMU_INIT     == 769
PI_FB_INIT      == 2305
PI_TIME_INIT    == 2561
LibCCalls == PI_LIBC_PUTS .. PI_LIBC_FSYNC

PI_FB == 9      \* the high byte of the calls sync_fb_assist serves
PI_FB_MALLOC_SBUF == 2313
FbCalls == PI_FB_INIT .. PI_FB_MALLOC_SBUF

KnownCalls == LibCCalls \cup FbCalls \cup {PI_MBOX_INIT, PI_MMU_INIT, PI_TIME_INIT}

Low(word)  == word % 256
High(word) == word \div 256

\* The 16-bit word the host reads at a cell of memory m.
WordAt(m, cell) == m[cell] + 256 * m[cell + 1]

\* mem_base of a pointer, in the banks selected now, and the word it points to.
Fetch(m, a) == WordAt(m, Mapped(a))

\* sync_libC_assist: the request's address, and the number of the call.
RequestAddress(m) == Fetch(m, ASSIST_LOW)
CallNumber(m)     == Fetch(m, RequestAddress(m))

\* cb_read and cb_getcwd: the parameter block, the buffer and its size.
ParameterBlock(m) == Fetch(m, RequestAddress(m) + 2)
BufferOf(m, call) ==
    LET sys == ParameterBlock(m)
    IN  IF call = PI_LIBC_READ
        THEN <<Fetch(m, sys + 2), Fetch(m, sys + 4)>>
        ELSE <<Fetch(m, sys), Fetch(m, sys + 2)>>

-----------------------------------------------------------------------------
\* send_for_pi: the stores that make a call.
StoreWord(a, word) == <<<<a, Low(word)>>, <<a + 1, High(word)>>>>
CallStores(call) == StoreWord(Request, call.number)
                    \o StoreWord(Request + 2, call.block)
                    \o StoreWord(ASSIST_LOW, Request)

NoCall == [number |-> 0, block |-> 0, buffer |-> <<0, 1>>]

AssistInit ==
    /\ Init
    /\ todo = Image
    /\ asked = NoCall
    /\ phase = "loading"
    /\ result = 0

\* The program prepares a call.
Ask(call) ==
    /\ phase = "idle"
    /\ asked' = call
    /\ todo' = CallStores(call)
    /\ phase' = "calling"
    /\ UNCHANGED <<vars, result>>

\* The next store, unless it is the one that runs the call.
NextStore ==
    /\ todo # <<>>
    /\ LET a == Head(todo)[1]
           v == Head(todo)[2]
       IN  /\ a # ASSIST_HIGH
           /\ WriteRam(a, v) \/ WritePinned(a, v)
    /\ todo' = Tail(todo)
    /\ phase' = IF phase = "loading" /\ Len(todo) = 1 THEN "idle" ELSE phase
    /\ UNCHANGED <<asked, result>>

\* An interrupt routine, or the program itself, selects a bank.
SelectBank(r, bank) ==
    /\ phase \notin {"loading", "exited"}
    /\ WritePageRegister(r, bank)
    /\ UNCHANGED <<todo, asked, phase, result>>

-----------------------------------------------------------------------------
(***************************************************************************)
(* write_himem2_top on the store of the high byte: the call, then its      *)
(* result, cut to a byte, and errno, where the request's address was.      *)
(***************************************************************************)
Calling(m) == /\ phase = "calling"
              /\ Len(todo) = 1
              /\ m = Deposit(Head(todo)[2])

\* Mutant: the result is not cut to a byte.
Answer_uncut(m, ret, err) ==
    /\ ram' = Answered(m, ret, err)
    /\ result' = ret
    /\ phase' = "answered"
    /\ todo' = <<>>
    /\ UNCHANGED <<pages, asked>>

Answer(m, ret, err) ==
    /\ ram' = Answered(m, ret % 256, err % 256)
    /\ result' = ret
    /\ phase' = "answered"
    /\ todo' = <<>>
    /\ UNCHANGED <<pages, asked>>

\* A call nobody knows, in sync_libC_assist or in the device it belongs to.
ServeUnknown(m) ==
    /\ Calling(m)
    /\ CallNumber(m) \notin KnownCalls
    /\ Answer(m, 255, 0)
    /\ UNCHANGED handlers

\* cb_puts, cb_open, cb_close, cb_write, cb_chdir, cb_system, cb_lseek,
\* cb_unlink and cb_fsync: the host takes what it needs out of memory.
ServeLibC(m) ==
    /\ Calling(m)
    /\ CallNumber(m) \in LibCCalls \ {PI_LIBC_READ, PI_LIBC_GETCWD, PI_LIBC_SYSEXIT}
    /\ \E ret \in HostResults, err \in Errnos :
          /\ CallNumber(m) = PI_LIBC_PUTS => ret = 0
          /\ ret = -1 => err # 0
          /\ Answer(m, ret, err)
    /\ UNCHANGED handlers

\* cb_read: the host fills as much of the buffer as the file has left.
ServeRead(m) ==
    /\ Calling(m)
    /\ CallNumber(m) = PI_LIBC_READ
    /\ LET buffer == BufferOf(m, PI_LIBC_READ)
       IN  \/ \E count \in 0 .. buffer[2], err \in Errnos :
                Answer(Filled(m, Mapped(buffer[1]),
                              [i \in 0 .. count - 1 |-> FileByte]), count, err)
           \/ \E err \in Errnos \ {0} : Answer(m, -1, err)
    /\ UNCHANGED handlers

\* cb_getcwd: 0 or 255, and the path in the buffer.
ServeGetcwd(m) ==
    /\ Calling(m)
    /\ CallNumber(m) = PI_LIBC_GETCWD
    /\ LET buffer == BufferOf(m, PI_LIBC_GETCWD)
       IN  \/ \E count \in 1 .. buffer[2], err \in Errnos :
                Answer(Filled(m, Mapped(buffer[1]),
                              [i \in 0 .. count - 1 |-> FileByte]), 0, err)
           \/ \E err \in Errnos \ {0} : Answer(m, 255, err)
    /\ UNCHANGED handlers

\* cb_sysexit: the process ends.
ServeSysexit(m) ==
    /\ Calling(m)
    /\ CallNumber(m) = PI_LIBC_SYSEXIT
    /\ phase' = "exited"
    /\ ram' = m
    /\ todo' = <<>>
    /\ UNCHANGED <<pages, handlers, asked, result>>

\* sync_time_assist and sync_mmu_assist, whose init always succeeds;
\* sync_mbox_assist, which installs its handlers before it creates the threads
\* and may fail to; and sync_fb_assist, whose init installs them at its end.
InitCall == [time |-> PI_TIME_INIT, mmu |-> PI_MMU_INIT,
             mbox |-> PI_MBOX_INIT, fb |-> PI_FB_INIT]

ServeInit(m) ==
    /\ Calling(m)
    /\ \E device \in DOMAIN InitCall :
          /\ CallNumber(m) = InitCall[device]
          /\ Install(device)
    /\ \E err \in Errnos :
          \/ Answer(m, 0, err)
          \/ CallNumber(m) = PI_MBOX_INIT /\ Answer(m, -1, err)

\* The other calls of sync_fb_assist draw, or allocate; fb_init reports its
\* failure as 1, fb_malloc_sbuf as 255.
FbResults(number) == CASE number = PI_FB_INIT        -> {1}
                       [] number = PI_FB_MALLOC_SBUF -> {0, 255}
                       [] OTHER                      -> {0}

ServeFb(m) ==
    /\ Calling(m)
    /\ CallNumber(m) \in FbCalls
    /\ \E ret \in FbResults(CallNumber(m)), err \in Errnos : Answer(m, ret, err)
    /\ UNCHANGED handlers

Serve == \E m \in {Deposit(High(Request))} :
             \/ ServeUnknown(m) \/ ServeLibC(m) \/ ServeRead(m) \/ ServeGetcwd(m)
             \/ ServeSysexit(m) \/ ServeInit(m) \/ ServeFb(m)

\* The program has read the result.
Collect ==
    /\ phase = "answered"
    /\ phase' = "idle"
    /\ asked' = NoCall
    /\ result' = 0
    /\ UNCHANGED <<vars, todo>>

AssistNext ==
    \/ \E call \in Calls : Ask(call)
    \/ NextStore
    \/ \E r \in {PAGE1_REG, PAGE2_REG}, bank \in Selectable : SelectBank(r, bank)
    \/ Serve
    \/ Collect

AssistSpec == AssistInit /\ [][AssistNext]_assistVars

-----------------------------------------------------------------------------
(***************************************************************************)
(* Properties.                                                             *)
(***************************************************************************)
\* A call answers what the host returned, a number of bytes it read, or one of
\* the dispatcher's own answers.
Results == HostResults \cup {-1, 0, 1, 255}
              \cup UNION {0 .. call.buffer[2] : call \in Calls}

AssistTypeOK ==
    /\ TypeOK
    /\ phase \in Phases
    /\ asked \in Calls \cup {NoCall}
    /\ result \in Results
    /\ todo \in Seq(Addresses \X Bytes)

AboutToServe == phase = "calling" /\ Len(todo) = 1

\* The call the dispatcher finds behind the pointer at 0xFFF8 is the one the
\* program asked for, with its buffer, if bank 0 is selected in the high window
\* when the call is made, whatever was selected before (libC_assist.c:158-159).
RequestServed ==
    AboutToServe /\ himem2_page = 0 =>
        LET m == Deposit(High(Request))
        IN  /\ CallNumber(m) = asked.number
            /\ asked.number \in {PI_LIBC_READ, PI_LIBC_GETCWD} =>
                 BufferOf(m, asked.number) = asked.buffer

\* Until the mailboxes are initialised the program finds the result at 0xFFF8,
\* in whatever bank it or an interrupt has selected since (mem.c:128-131).
ReplyReadable ==
    phase = "answered" /\ io_read_top_handler[15] = "none" =>
        Read(ASSIST_LOW) = {result % 256}

\* The same of every call: "continues after depositing the response to the
\* request to memory" (README:30-31).
ReplyAlwaysReadable ==
    phase = "answered" => Read(ASSIST_LOW) = {result % 256}

\* What a read call reports as read is what the program finds in its buffer,
\* in the banks it had selected when it made the call (libC_assist.c:64-73).
BufferDelivered ==
    [][ /\ AboutToServe /\ phase' = "answered"
        /\ asked.number = PI_LIBC_READ /\ himem2_page = 0 /\ result' > 0
        => \A i \in 0 .. result' - 1 : Read(asked.buffer[1] + i)' = {FileByte}
      ]_assistVars

-----------------------------------------------------------------------------
(***************************************************************************)
(* What the theorems ask of the program, besides BuffersInWindow: the way  *)
(* 64xpi.cfg lays it out.  Its static data, the request and the parameter  *)
(* blocks among it, is in low memory, in places of their own; it stores    *)
(* nothing at address 0, which is what the dispatcher's pointer is when    *)
(* another bank is selected, that would pass for the number of a call.     *)
(***************************************************************************)
\* The stores leave byte v at address a, which held start before them.
Leaves(stores, start, a, v) ==
    \/ \E i \in DOMAIN stores :
          /\ stores[i] = <<a, v>>
          /\ \A j \in DOMAIN stores : j > i => stores[j][1] # a
    \/ v = start /\ \A i \in DOMAIN stores : stores[i][1] # a

ImageLeaves(a, v) == Leaves(Image, 0, a, v)
ImageLeavesWord(a, word) == ImageLeaves(a, Low(word)) /\ ImageLeaves(a + 1, High(word))

RequestBytes == Request .. Request + 3

\* Where the buffer of a call is named in its parameter block.
BufferWord(call) == IF call.number = PI_LIBC_READ THEN call.block + 2 ELSE call.block

FillCalls == {call \in Calls : call.number \in {PI_LIBC_READ, PI_LIBC_GETCWD}}

\* The bytes the dispatcher reads and nothing but the image writes.
KeptBytes ==
    {0, 1} \cup UNION {BufferWord(call) .. BufferWord(call) + 3 : call \in FillCalls}

LaidOut ==
    /\ \A a \in RequestBytes \cup KeptBytes : a \in Addresses /\ InLomem(a)
    /\ RequestBytes \cap KeptBytes = {}
    /\ \A buffer \in Buffers : \A i \in 0 .. buffer[2] - 1 :
          buffer[1] + i \notin RequestBytes \cup KeptBytes

BlocksLoaded ==
    \A call \in FillCalls : /\ ImageLeavesWord(BufferWord(call), call.buffer[1])
                           /\ ImageLeavesWord(BufferWord(call) + 2, call.buffer[2])

NullIsNoRequest ==
    \E low, high \in Bytes : /\ ImageLeaves(0, low) /\ ImageLeaves(1, high)
                             /\ low + 256 * high \notin KnownCalls

\* The constants name every address and byte the program and its calls use.
StoresNamed ==
    /\ {ASSIST_LOW, ASSIST_HIGH, PAGE1_REG, PAGE2_REG} \subseteq Addresses
    /\ Image \in Seq(Addresses \X Bytes)
    /\ \A call \in Calls : CallStores(call) \in Seq(Addresses \X Bytes)
    /\ Selectable \cup {FileByte} \cup {n % 256 : n \in Results \cup Errnos}
          \subseteq Bytes
    /\ \A device \in DOMAIN InitCall :
          (\E call \in Calls : call.number = InitCall[device]) => device \in Units

ProgramFits ==
    LaidOut /\ BlocksLoaded /\ NullIsNoRequest /\ StoresNamed
=============================================================================
