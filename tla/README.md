# 64Xpi: a verification development

64Xpi runs a real 65C02 from a Raspberry Pi. The Pi generates the clock, decodes
every bus cycle and plays the memory and the devices; the 6502 knows nothing of
it. This directory models the runtime (`src/src`), the headers the 6502's
programs use (`src/native/C/*.h`, `src/include`) and the largest of these programs,
the Z-machine interpreter `mojozork.c`, in TLA+, checks the models with TLC and
proves the central results with TLAPS.

    tlc  -config memory.cfg MCMemory.tla      # a run: the .cfg and the MC module
    tlapm Memory_proofs.tla                   # the proofs

## 1. The system

| Component | State | Operations | Talks to |
|---|---|---|---|
| memory, `mem.c` | one array `mem` (40 KiB low, 2 MiB himem1, 12 MiB himem2), the two selected banks, the handler tables of the top page | `mem_write`, `mem_read`, `mem_base` | called for every bus cycle; calls a device's handler, or the dispatcher, from the middle of a write |
| MMU, `mmu.c` | none of its own: the selected banks | register write and read, `mmu_init` | shares the banks with `mem.c` |
| synchronous calls, `libC_assist.c`, `pi_libc.h` | the request in the 6502's memory, its address at 0xFFF8/9, replaced by result and errno | `send_for_pi`, `sync_libC_assist`, twelve `cb_*` | reads and fills the 6502's memory through `mem_base`; starts the devices |
| mailboxes, `mbox.c` | per mailbox a flag, an address, a thread | register writes, `mbox_init`, the threads | main thread and mailbox threads share flags and addresses; signals |
| time unit, `time.c`, `pi_time.h` | two samples of the host's clock, a millisecond count, a deadline | byte reads, deadline writes, `msleep` | the host's clock |
| framebuffer, `fb.c`, `pi_fb.h` | the mapped memory of the screen and the pointer to it, the pixel cursor and its base, the background colour | sixteen registers, drawing calls, pan, `fb_init` | the call's arguments in the 6502's memory; the kernel's device |
| start-up, `main.c` | the loader's count, the cycles watched | load the program and its arguments, reset, wait for the cycle at 0xFFFF, main loop | `mem_write`, `step65C02` |
| bus cycle, `cpu.c` | GPIO registers | `step65C02`, reset, irq | `mem_read`, `mem_write` |
| Z-machine, `mojozork.c` | story memory, stack, base pointer, program counter; `save.dat` | one instruction of a story at a time | runs on the 6502; files, keyboard and screen through the calls above |

The main thread is the only one that touches memory and devices: it finishes a
bus write, the call inside it included, before it clocks the 6502 again. The
concurrency is elsewhere: the interrupt routines of the 6502's program, which
come between any two of its accesses; the host's clock, which runs on between
them; and the mailbox threads.

What is hard, and what makes each part correct:

- **memory.** Correct if a store reaches the byte at its address in the selected
  bank and no other, in whatever order stores, bank switches, device writes and
  calls come. Hard because the index arithmetic is negative for bank 0 and the
  regions adjoin; because the bank numbers are kept twice; because the top page
  is pinned on some paths and banked on others; because the MMU answers at
  sixteen places.
- **synchronous calls.** Correct if the dispatcher serves the call the program
  asked for, and the program finds result and data. Hard because each step from
  the pointer to the buffer goes through the banks selected at that moment, and
  because the request and the reply share two bytes that a device can capture.
- **mailboxes.** Correct if a post is whole and wakes a thread, and `mbox_init`
  ends. Hard because of the interleavings of the threads with `mbox_init`,
  partial failure, and repeated initialisation.
- **time unit.** Correct if four bytes read one after the other are of one
  instant, and a sleep ends, and not early. Hard because activities of the
  program share the samples, and because the count starts over.
- **framebuffer.** Correct if one array of adjoining lines behaves as a picture of
  rows and columns, lines are straight and circles round, and nothing draws
  through a pointer that is no mapping. Hard because pans copy the array over
  itself, because lines and circles are fixed-point and integer recurrences with
  several roundings, and because `fb_init` may fail after it succeeded.
- **arguments.** Correct if the host fetches what the wrapper stored. Hard
  because the layouts are written twice and the buffer is shared and never
  cleared.
- **start-up.** Correct if the processor comes to the program, the program is the
  one in the file, and finds the arguments it was given. Hard because nothing
  sets the reset vector (the way in is a `BRK` of a zero byte at address 0), because three
  separate sums lay out the arguments, and because the loader's count has no value.
- **Z-machine.** Correct if every routine finds its locals and its pushed words as it
  left them, objects move between whole lists, a game that was said to be saved goes on,
  when it is restored, as it went on after the save, and text and words come out as the story means them. Hard because one
  array holds everything a call keeps and nothing marks its words; because the lists are
  taken apart by walks without an end; because a save is five writes that may fail or
  be cut off; because the decoder's state lasts from one character to the next and it
  calls itself in the middle of a buffer.

`PROJECT.json` lists every hazard at its line with the properties aimed at it.

## 2. The modules

| Module | Models | Extends / uses |
|---|---|---|
| `MemoryMap` | the address arithmetic: regions, index tables, dispatch by the high nibble, the registers of the top page | |
| `Memory` | `mem.c` and `mmu.c`: one action per path of `mem_write`; reads as the operator `Read` | `MemoryMap` |
| `BankedStore` | abstract: what the memory promises to programs | `MemoryMap` |
| `Assist` | a program making calls, `sync_libC_assist`, the `cb_*` and `*_init` functions | `Memory` |
| `Marshal` | the arguments: wrappers' structs against the host's offsets | |
| `Mailbox` | `mbox.c`: main thread, mailbox threads, signals | |
| `Doorbell` | abstract: a ring is answered | |
| `TimeUnit` | `time.c`, `msleep` | |
| `FbDraw` | the pixels of `_line`, `_block`, `fb_circle` as operators; what a stroke and a ring should be | |
| `DrawCalls` | the drawing calls one at a time, for checking those pixels | `FbDraw` |
| `Framebuffer` | `fb.c`: memory, cursor, registers, calls, pan, `fb_init` | `FbDraw` |
| `Canvas` | abstract: a picture that is painted and shifted | |
| `Boot` | `main.c` up to its endless loop, the bus cycles of `cpu.c`, the processor's way to the program | `Memory` |
| `ZRoutines` | `mojozork.c`: variables, stack, calls and returns, the loop over instructions, save and restore of a whole game | |
| `ZFrames` | abstract: routines with frames of their own, and a saved game | |
| `ZObjects` | `mojozork.c`: the object tree; save, restore and restart, piece by piece | |
| `ZForest` | abstract: what every object holds, and the last game saved whole | |
| `ZText` | `mojozork.c`: the decoder, the tokenizer, the dictionary, and reference definitions of all three | |
| `MC*` | the constants of the runs | the module of that name |
| `*_proofs` | the theorems about `Memory` (with `MemoryMap`), `Assist`, `Mailbox`, `TimeUnit`, `Boot`; `Framebuffer_proofs` has those about `Framebuffer` and `Marshal`, `ZMachine_proofs` those about `ZObjects` and `ZRoutines` | the modules named, `TLAPS` |
| `Induction` | induction over the numbers, and functions defined by recursion, for the proofs | |

### Memory

`ram` is the array `mem`, restricted to the cells that the constants can reach; a
cell is an offset from `&mem[0]`, computed with the code's own numbers, so a cell
of one region is never the cell of another by convention. `himem1_page`,
`himem2_page` and the two handler tables keep their names; a handler is the
name of its device. `MemWrite(a, v)` is `mem_write(a, v)`, and its disjuncts are
the paths of `write_himem2_top` in their order. A write to 0xFFF9 runs a call; in
`Memory` what a call does is anything the dispatched functions can do to this
state (`AssistNothing`, `AssistFill`, `AssistInstall`), in `Assist` it is what
the request says. A buffer has at least one byte.

`BankedStore` is the promise. Its state is a byte per *slot* (window, bank,
address) and the two selected banks. `Memory` implements it with `Stored` as the
refinement mapping: `store[slot] = ram[SlotCell(slot)]`. The bytes of the top page
that belong to devices are nobody's slots; the vectors are.

### Assist

The program is the list `todo` of the stores it still has to make: the loader's
image first, then, for a call, the stores `send_for_pi` compiles to, low bytes
first. `SelectBank` may come between any two: it is the program itself or its
interrupt routine. When one store is left, that of 0xFFF9, `Serve` is the whole of
the write: store, dispatch, effect, result and errno. Everything the
dispatcher uses it finds in `ram` through `Mapped`, the model of `mem_base`, as the
code does. `result` keeps the `int` the host function returned.

The C library, the files and the kernel are external: a call returns any of
`HostResults`, `read` any count up to the size, with `errno` set when it fails.

The last section of the module, `ProgramFits`, says what the theorems ask of the
program: how its image lays out the request, the parameter blocks and the buffers. It
is about constants alone; `MCAssist` assumes it, so that TLC evaluates it for the
program of the runs.

### Marshal

`GuestLayout` is the table of the wrappers' structs, `LibCLayout` and `FbLayout` the
offsets the host's functions use. `Wrapper(c)` stores arbitrary arguments into
`call_buff` and leaves the rest of it as it was, `Serve` fetches.

### Mailbox

`main` is the place of the main thread, which is either clocking the 6502
(`"running"`: the program may write the registers) or inside `mbox_init`. A
mailbox thread is `started`, marks itself stopped, enters `sigwait`, is `woken`,
and loops. `pending` is the signal mask of POSIX: one bit per thread, kept while the
thread does not wait. `sigset` is `fSigSet`, which a repeated `mbox_init` empties
before it fills it; a thread that enters `sigwait` in between is `deaf`.
A failed `pthread_create` leaves `thread[i]` undefined, and a signal to it ends in
the place `"undefined"`, from which the main thread takes no step.

`Doorbell` is the promise: bells that ring are answered, rings in between count
as one. A bell rings if the mailboxes are initialised and the signal is pending
for the newest thread of the mailbox; initialising again silences all.

### TimeUnit

The clock counts microseconds; the three activities access the unit byte by byte.
The conversions are the code's, with the radices as constants: a second has
`MsPerSec` milliseconds, a byte `Base` values, and so on. `Shifted(word)` is the word
after zero, one, two ... of the shifts by a byte with which the code takes a register
apart; `WidthAssumption` says that the registers hold what is put there, as the code's
32 bits do. `slept` is a history variable, the time since the low byte of the deadline
was written.

### Framebuffer

`FbDraw` has the drawing loops in closed form: after `k` steps of `_line` the sum
`j` is `k * decInc`, and the circle's loop body is `CircleStep`, applied until the
octant ends. Beside them stand the reference definitions, which know nothing of
the code: `IsStroke` (one pixel per step, in the box of the ends, less than a pixel from
the true line, without gaps) and `IsRing` (within a pixel of the circle, closed,
symmetric). `DrawCalls` compares the two over all lines of a field and all radii.

`Framebuffer` is the device: `screen` is the linear array of pixels, `base` and
`cursor` the two byte-wise positions, each register of 0xFF00 to 0xFF0F that
has an effect part of an action (nothing uses the brush colour, 0xFF0E). `fbbuffer` tells what the pointer points to: nothing yet (`"null"`), the
mapped memory, or an address that is no mapping (`"dangling"`), after a failed
`mmap` or after `fb_init` unmapped what an earlier call had mapped. A store through
a pointer that is no mapping is a fault, and the process ends (`alive`). The undefined
parts of the code are choices: colour 255 shows any value, since the palette
has 255 entries and the byte after it is read; a pan to the left reads one pixel
more than the screen has, which without a spare line is beyond the mapping, and
may fault.

`Canvas` is the promise: a picture of rows and columns, in which a call paints a
shape and a pan shifts everything by one. `Framebuffer` implements it with
`image[<<x, y>>] = screen[Cell(<<x, y>>)]`; the shapes that `Canvas` allows are
strokes and rings by the reference definitions.

### Boot

The host's part are the loops of `main`, one action per store: `LoadByte` for the
file, `StoreArgc`, and for each argument `StorePointerLow`, `StorePointerHigh`, a
`StoreChar` per character and `StoreEnd`. They go through `MemWrite`, the whole of
`mem_write`, so whatever is loaded over the registers has its effect. `count0` is the
value that the loader's `count` happens to have, any integer; `arg` is the code's `g`,
from one on, and `copied` its `i`.

The processor is external: after a reset it makes up to `MaxIdle` reads that mean
nothing, fetches the vector, finds `BRK`, pushes three bytes and takes the
interrupt vector. Its stack pointer is whatever it is, but for 0, 1 and 2, so
that the pushes stay on the stack's page (`StackPtrsAssumption`). Each of its cycles is
one action, a `ReadCycle` or a `WriteCycle`, which is `step65C02` with the byte that
`mem_read` or `mem_write` makes of it; `Then` is what `main` does between the cycles, to give up after 80 of them.

### ZRoutines and ZFrames

`stack` is the part of the array below `sp`, `bp` the base pointer, as an index; a
frame is the code's: the variable for the result, the address behind the call in two
words (`ReturnPlace` puts them together), the old `bp`, the number of locals, the locals.
A word holds less than `Radix`, two of them any place in the story. An instruction is one
step: its operands are read from left to right, and popped if they name variable
0; then the opcode, which may compute anything (a `Values`), may store it, jump, call or
return. What is checked is not what a story computes but what it computes on.
`die` is a `status`, `"undefined"` what C leaves open: a call that runs over
the end of the array, and `pull` through a pointer that was never set.

`ZFrames` is the promise, written without the array: a sequence of frames with
`locals`, `temps`, the variable for the result and the place to go back to. Its
operators yield sets of results, so that a pop from a frame with nothing pushed, or a
local the frame does not have, is no result at all; and its actions are few, since an
instruction computes anything. When the machine has stopped there are no frames. The
refinement mapping reads the frames out of the words: `Bases` follows the stored
base pointers from `bp` down, `FrameFrom` takes the words from one base up to the next
frame.

`disk` is `save.dat`: none, a broken one, or a whole one that holds the machine with `pc`
at the branch of its save. `TrueBranch` says where the branch at a place leads. `SaveGame`
takes it (or the instruction behind it, when it says that it failed), `RestoreGame` reads
stack, `sp`, `bp`, globals and `pc` over whatever is running, and takes the same branch
again, `doBranch(okay)`. That branch may itself be a return, so that the game that a
restore goes on with, `ResumedMachine`, is the saved one less a frame. In `ZFrames`, `saved`
is a game as it went on after the save, and a restore goes on with it. How a file comes
to be broken, by which piece or which kill, is the business of `ZObjects`.

### ZObjects and ZForest

`tree` is the three bytes of every object. `Walk` is the way along the siblings, `ListOf`
what it finds behind an object's child. The tree in a story's file is `WellFormed`
(`StoryAssumption`): the bytes behind each child are a list without repetitions, of
those objects that name its holder as their parent. The code takes that from the
compiler that wrote the story, and so does the model. `Unparented` is `unparentObject`, whose walk
along the siblings may not find the object (`Lost`); `Inserted` and `Removed` are the
two instructions that move objects. A story does not put an object into itself or into
one that it holds: the standard forbids it, the code does not look, and the model has it
as the guard of `InsertObj`.

`file` is the sequence of the pieces in `save.dat`. In `Save(written, kept)`, `written` are
the pieces that `fwrite` took, which make the answer the story gets, and `kept` those of
them that `fclose` brought to the file; the code looks at the first only.
`KilledWhileSaving` leaves some pieces and a process that has to be run again; `Restore`
reads five pieces over the running game and takes the branch of the save again
(`GameInFile`, `BranchOf`). `ZForest` has what every object holds, and a saved game that
is either whole or not there.

`promise` is a history variable: the game with which a story went on when it was told that
its game is saved, over a file that was closed with all of it. The next save, or a kill
within one, withdraws it. No action reads it; `SavedGamesResume` compares what a
restore makes with it, however much later.

### ZText

`Decode` is the loop of `decode_zscii` with its variables as a record, and calls
itself for an abbreviation as the code does, with what is left of the buffer.
`Tokenize` is `tokenizeUserInput`: `Collect` the z-characters of a word, `Lookup` the
search. Beside them: `Meaning`, the text of a string by recursion over what it
says, `WordsOf`, the longest stretches without a separator, and `Entry`, what a
compiler makes of a dictionary word.

## 3. The runs

| Run | Shows | Bounds |
|---|---|---|
| `memory` | type correctness, `RegisterInvariant`, `PageRegistersCoherent`, refinement of `BankedStore`, `WritesReadBack` | two banks, nine addresses at the edges of the windows and on the top page, an alias of a bank register, a two-byte buffer, MMU and mailboxes installed or not: 82 thousand states |
| `assist` | requests are found and served, replies are readable, data arrives, and the memory under it still implements `BankedStore` | six calls, two banks selected at any time, buffers in both high windows |
| `assist_reply` | finding: after `mbox_init` no reply is readable | as `assist` |
| `mailbox` | initialisation ends, posts are whole, nothing undefined after a success, refinement of `Doorbell` with its liveness | two mailboxes, two calls of `mbox_init`, two byte values: 375 thousand states |
| `time` | coherent readings, sleeps neither early nor endless before the wrap | a clock of eight instants, words of two bytes of three values, sleeps of one and three milliseconds: 1.6 million states |
| `marshal` | arguments arrive | two values per argument, any sequence of calls |
| `draw` | lines are strokes, circles are rings | all lines between points of a field of 11 by 11, all radii up to 160 |
| `framebuffer` | type correctness, faults only where explained, refinement of `Canvas` | a screen of three rows of two pixels, without a spare line; a colour of the palette and one beyond it; a line, a block, a dot; coordinates of two bits: 107 thousand states |
| `boot` | the processor comes to the program, the program is whole and finds its arguments | one to twelve arguments of up to 22 characters, five values of the count, two stack pointers, up to five idle reads: 32 thousand states |
| `zroutines` | the machine gives up only when it has to; refinement of `ZFrames`, with restores at any depth of calls | a stack of eleven words, room for two calls and one word more; routines without and with a local; at most one pushed word per routine (`FewPushed`); one game that is gone on from after a save (`FewSaved`): 21 thousand states |
| `zobjects` | no walk runs off a list, every object stays in one list, a game the story was told is saved goes on after a restore as after the save, refinement of `ZForest` | four objects (symmetric), two places of the game, five sets of pieces that `fwrite` takes, and those of them that reach the file: 25 thousand states |
| `ztext` | strings decode to their meaning, tokens are words, words are found | all strings of three and six z-characters of six kinds, all lines of up to five characters of seven kinds; entries of two z-characters and room for four: 199 thousand states |

`ImplementsBankedStore` and `WritesReadBack` complete each other: the first says
that nothing else changes a program's byte, which a store that goes nowhere
satisfies too; the second, that the store arrives where the read looks.

Why the bounds are enough. *memory*: every path of `mem_write` compares an address
with constants or with its nibbles, and every nibble class and register has a
representative; two banks tell the banked from the pinned; the theorems below
hold for all addresses, banks and buffers. *assist*: a call depends on the state
through the selected banks and through what the request's bytes hold, and the
two banks make every fetch right or wrong independently. *mailbox*: mailboxes do
not share state except the order in which `mbox_init` treats them, for which two
are enough (a failure before, at and after the other). *time*: each radix has at
least two values, so every carry and every rollover happens; the longer sleep
needs a high byte. In `time`, as in the code, deadlines may lie beyond the wrap;
they are only exempt from `SleepEndsBeforeWrap`. *draw*: lines of every direction and
every slope of up to ten steps occur, with all their remainders, and radii well
beyond the sixteen that the circle's start is divided by. *framebuffer*: with
three rows there is a row with neighbours on both sides, whose edge pixels come
from and go to other rows; the shapes themselves are `draw`'s business. The lack
of a spare line is the harder case: it has the fault. *boot*: an argument is cut or not, and
its end is on either side of 0x0A00, with lengths at each of the limits; the
five counts put the program where it should be, a byte on, over address 0, over the
vectors, and over the arguments.
*zroutines*: two calls are the least in which a return finds a caller that is not the
first; the stack overflows in a push, and in a call; two addresses differ in both
halves. `FewPushed` and `FewSaved` only keep the stack's words and the saved games from
multiplying; states beyond them are checked, and not gone on from. The saved game that is
gone on from is in a routine with a local, whose caller has pushed a word, at a branch
that returns; once there is a file, only the story's main routine pushes.
*zobjects*: four objects make lists of three, with a
first, a middle and a last, and a parent to go to; a branch leads to the other place, so
that one taken twice, or not at all, ends in the wrong one. *ztext*: two z-characters instead of
six, and four instead of twelve, keep the code's relations (an entry is shorter
than the room, both are shorter than a word), so that longer, cut and overrunning words
all occur within five characters.

Deadlock is checked in `memory`, `time`, `marshal`, `draw` and `ztext`. It is not in
`assist`, where `sysexit` ends the process; in `mailbox`, `framebuffer`, `zroutines` and
`zobjects`, where undefined behaviour, faults or the end of a story do; nor in `boot`,
which ends where the program begins, or where `main` gives up.

Fairness. `Mailbox`: weak fairness of each thread and of `mbox_init`, since the
kernel schedules every thread that can run and `mbox_init` spins; the program
is not obliged to do anything. `TimeUnit`: weak fairness of the clock and of
`msleep`'s stores; strong fairness of the poll that finds the deadline passed,
since the loop polls many times while a millisecond lasts, so it cannot
forever miss a millisecond that comes again and again. `Boot`: weak fairness of its
one thread, since the host does not stop and the processor makes a cycle whenever it
is clocked. The others are sequential and state only safety: a program need not do
anything.

### Where the code and its documents differ

One difference has a run of its own, `assist_reply`: `mbox_init` takes over reads of
0xFFF8-0xFFFF, so results and vectors read as 255 from then on (`mbox.c:202`), against
README:30-31 of the repository. `ReplyReadable` shows replies are right before.

Four others are guards of properties that hold, which therefore say exactly how far
the code keeps what it promises:

- Writes to the top page where no device answers go to the selected bank, reads come
  from bank 0 (`mem.c:175`, against the comment at `mem.c:114`): `WritesReadBack` is of
  `Storable` addresses.
- The dispatcher reads the pointer at 0xFFF8 through `mem_base`, which follows the
  selected bank, although `write_himem2_top` stored it in bank 0 (`libC_assist.c:158`):
  `RequestServed` asks for bank 0.
- `msleep` hangs if its deadline lies beyond the wrap of the millisecond count
  (`time.c:50`, `time.c:97`): `SleepEndsBeforeWrap` is of deadlines before it.
- `fb_pointRGB` fetches green and blue from offsets 6 and 8, the wrapper stores them at
  5 and 6 (`fb.c:443-444`): `ArgumentsArrive` is of the other calls.

Noted while reading. In the runtime: a posted request is never served, against
README:32-34, since `async_call_dispatcher` (`mbox.c:123`) has no caller; `open` passes
cc65's flag values to Linux (`libC_assist.c:41`); a second `mbox_init` can make an old
thread deaf and leaks it (`mbox.c:205`); `PI_FB_COLOR_BRUSH` of `fb_calls.h` is 0xFF0C while
the brush register is 0xFF0E; the registers 0xFF05 to 0xFF08 draw at the cursor and
then move it, while the comment in `fb.c` names the pixel next to it; a pan leaves the
last pixel of the side it clears; pans up and down cut the pointer to 32 bits
(`fb.c:215`), which only a 32-bit host survives; the loader's counter starts without
a value (`main.c:89`, hence `count0 = 0` in `ProgramIntact` and `ProgramStarts`), the loader does not end
when `read` fails, and the high byte of every argument's pointer is the constant 0x09
(`main.c:102`, hence the limit in `ArgumentsReadable`).

In the Z-machine: a call does not look whether its frame fits (`mojozork.c:225`),
`pull` stores through a pointer that is not set (326); `jin` of object 0 executes the
bytes of its branch (876); a save empties the file before it writes, goes on after a
piece that failed, and does not look at `fclose` (1506-1516), so that a story may be told
that its game is saved over a short file, which is why `SavedGamesResume` is of files that
were closed in full; and neither it nor restore stops when `fopen` fails; an empty word between two separators ends the tokenizer
(1229), and a shifted character is encoded with 3 where the decoder and the dictionary
have 5 (1246), so that words with digits are not found, and may be written beyond
the array; the words of the dictionary are cut in the middle of such a character.

## 4. The proofs

The theorems hold for every value of the constants that the modules' assumptions allow,
and TLC evaluates these assumptions on every run. Where a theorem asks for more,
its statement says so (`ASSUME ... PROVE`).

`Memory_proofs` proves, for every set of addresses, bytes, buffers and devices:

- `CellsInRegion`: each of the windows decodes to cells of its own region. With it come
  that different slots have different cells, and that a buffer inside one window is
  contiguous in its region, on which most of the rest depends.
- `TypeCorrect`: `Spec => []TypeOK`, one step per path of `mem_write`.
- `RegistersCoherent`: the bank registers read back as the selected banks. The
  property is not inductive: that a read returns the right copy depends on which
  handler answers. `RegisterInvariant` says why it holds: whenever writes can
  reach the MMU, reads of nibble 0xE do too; and until then the copies in bank
  0 are up to date, because no store, fill or result reaches them. `CopiesKept` is the
  first half of it, by itself.
- `StoresReadBack`: what is stored is read back. It needs the type invariant only:
  a store to a byte of the program takes one of two paths of `mem_write`
  (`StorableWrite`), and each writes the cell that `mem_read` returns.
- `MemoryImplementsBankedStore`: `Spec => ImplementsBankedStore`, each step being a
  store, a selection, a host's store or a stutter of `BankedStore`. It rests on the
  injectivity of `SlotCell` and on fills staying in their window.

`RegistersCoherent` and `MemoryImplementsBankedStore` assume `BuffersInWindow`: a program
does not hand the host a buffer that leaves its window, where the host's bytes would not be the program's. The
memory map of cc65 programs (`64xpi.cfg`) leaves that to the programmer.

`Assist_proofs` composes the program, the dispatcher and the memory, for every program,
call, result and bank:

- `RepliesReadable`. The invariant `ReplyKept` says that while there is a result to
  collect the program stores nothing of its own and the result is in its cell; the steps
  that may come in between, bank selections by an interrupt, write two other cells.
  Nothing is asked of the program: a call stores its result last.
- `AssistTypeCorrect`, `RequestsServed` and `BuffersDelivered`, from one inductive invariant,
  `AssistInv`. `RequestServed` speaks of the moment before the last store only; the
  invariant says of every moment that what is in memory, together with the stores
  that the list still holds, leaves the request (`CallPending`) and the blocks
  (`KeptLoaded`) as the program means them (`Leaves`). The difficulty is a call
  that is made with another bank selected: the dispatcher then follows the two bytes at
  that bank's 0xFFF8. They are zero (`NullElsewhere`: stores to the top page's
  registers go to bank 0, and no buffer lies there), so the request it sees is the word
  at address 0, which is no call, and nothing happens but the answer 255
  (`RequestMissed`). Without that a stray call might fill a buffer over the next request.
- `AssistImplementsMemory`: every step is one of `Memory`, that is, what the dispatched
  functions do is among the effects that `Memory` lets a call have. So
  `CallsImplementBankedStore` follows from `MemoryImplementsBankedStore`.

All but the first have two hypotheses: `BuffersInWindow`, as above, and `ProgramFits`, the
layout of a program that cc65 links with `64xpi.cfg`. Its static data, the request `cbk`
and the parameter blocks among it, is in low memory from 0x1000 on, each in a place of
its own and outside the buffers; each block names the buffer of its call; the constants
name what the program uses; and the word at address 0 is not the number of a call.
(In the model a call has a block of its own, loaded with the program; how the wrappers
fill the one they share, `call_buff`, is the subject of `Marshal`.) The last holds of the zero that
the loader finds there, and of a pointer into the C stack, which `64xpi.cfg` puts at 0x0180
to 0x0200. A program whose word at 0 is the number of a call, or whose request lies in
a banked window, is outside the theorems; there a stray call may spoil the next request.
The program of `assist` is one that fits, as TLC's evaluation of `ProgramFits` shows.

About `Marshal`, in `Framebuffer_proofs`, for all words and bytes: `AllArgumentsArrive`. The 17 layouts have
seven shapes (`LayoutShapes`), in none of which two fields overlap (`ShapesInOrder`,
`FieldsApart`), so that after a wrapper each field holds its argument (`WrapperStep`);
the two sides' tables agree but for `fb_pointRGB` (`TablesAgree`), and what is stored
low byte first is fetched as the word it was (`RoundTrip`).

`Mailbox_proofs`, for any number of mailboxes and of calls of `mbox_init`:

- `MailboxTypeCorrect`, `ThreadsOnlySignalled` and `PostsAreDelivered`, from one inductive
  invariant, `Inv`. Neither of the last two is inductive: that a signal goes to a thread that
  exists depends on which call filled in the handle. `Inv` follows `mbox_init` through its
  loops: behind the mailbox it is at, the handles are of this call (`Created`), then all
  are and the flags behind it are set (`Awaited`); the last step makes this `Succeeded`,
  to which posts add that their low byte has been taken (`PostsKept`).
- `MailboxesAreDoorbells`: every step is one of `Doorbell` or none. It adds that no signal is
  pending for a thread of the call that is going on (`PendingKnown`), so that a
  success does not ring a bell by itself. `Doorbell`'s liveness is left to TLC.

`TimeUnit_proofs`, for all radices, word lengths and durations: `TimeTypeCorrect`,
`ReadingsAreCoherent` and `NeverEarlyHolds`, from the inductive invariant `TimeInv`.

- For the readings, `ReadSoFar`: each byte read so far is one of the word sampled by the
  first, and that sample is still there. That the bytes put together are the word
  (`WordOfBytes`) is an induction over their number.
- For the sleep, `ClockBehind`. The clock does not only advance, its milliseconds start over,
  so the invariant compares the time since they did (`Fine`) with the deadline: it is
  less than a millisecond beyond the sample, plus the time slept. Starting over
  only makes `Fine` smaller; a reading of the milliseconds that replaces the sample makes
  the deadline later. So when the poll finds the deadline passed, the time slept lacks
  less than a millisecond.

`ZMachine_proofs` about `ZObjects`, for any number of objects, any places and branches and
any set of ways a save can go: `ObjTypeCorrect`, `NeverLostHolds`, `ListsAreWhole`,
`SavedGamesAreResumed` and `ObjectsImplementForest`. `NeverLost` is not inductive; `ObjInv`
adds `ListsWhole`: all lists are whole, those of the game in the file too, since restore
brings it back; and `PromiseKept`: as long as a promise stands there is a file, with all
five pieces, of which restore makes the promised game. `SavedGamesAreResumed` follows from
it at the restore, and every step between save and restore, deaths and new runs included,
has to keep it (`PromiseStays`). That
the walk of the code finds the list that the bytes are a chain of is an induction over
its length (`ChainListed`); the heart is what a move leaves behind (`UnparentedLists`,
`RemovedWellFormed`, `InsertedWellFormed`). The proofs do not use `InsertObj`'s
guard: an object put into one that it holds leaves every list whole all the same, and the
guard is there because the standard forbids it.

`ZMachine_proofs` about `ZRoutines`, for every story, size of the stack and of a word:
`ZTypeCorrect`, `DeathsAreExplained` and `StackImplementsFrames`.

- None of the three is inductive: a return takes base pointer and address from words
  of the stack, and that they are what a call put there is the point. `StackIsFrames`
  says it: there is a list of bases, 0 first and `bp` last, each stored in front of the
  next; every frame lies between its base and the next frame, has at most fifteen
  locals, a variable for its result and a place to go back to; and all words behind these are values
  (`Layout`). If the machine has stopped, it adds the reason (`Explains`). `MachineInv` adds
  that the machine in a whole file is sound as well (`DiskIsSound`), from which a restore
  at any depth of calls goes on.
- The list is the one `Bases` computes (a function recursive over the base, for which
  `Induction` is needed), and it is the only one, so the mapping is well defined while
  the stack changes. Writing a word into a frame, pushing and popping change the top
  frame alone, since frames are apart; a call appends one; a return leaves those below
  as they were before the call.
- An instruction is a succession of such steps: operands from left to right (another recursion,
  on both sides, followed argument by argument), opcode, result, branch. `FrameStep`
  says that the machine after an instruction is sound, with bases of its own, and
  that its frames are those of a step of `ZFrames`, or that it has stopped; there is a lemma
  per instruction, and each starts from a machine that may have died in the middle.
  `InstructionCarried` takes them together, `SaveCarried` and `RestoreCarried` are the two that
  touch the file: the branch of the save gives the same game when it is taken again from
  the machine in the file (`GameOfSound`).
- Assumed of a story: its routines start at places of the story, and the defaults of
  their locals are values (`RoutinesAssumption`); a branch leads to a place of the story or
  returns false or true (`TrueBranchAssumption`); a word holds the numbers of variables,
  the indices of the stack and half of a place (`StackAssumption`, `PositionsAssumption`),
  as the code's 16 bits do with a stack of 2048 words.

`Boot_proofs`, for every file, up to 255 arguments of any length, every count and stack
pointer: `BootTypeCorrect`, `ArgumentsAreReadable` and `ProgramStaysIntact`.

- `BootInv` is the type invariant with the place of `main` in its loops: how far the count
  and the string pointer have come, that a push has room on the stack, that a high
  byte comes to a program counter below 256. Types of memory need it that
  whatever is loaded, over registers and calls too, stores bytes (`StoreKeepsType`).
- `ArgumentsStored`: `argc` is there; the strings before the current one are
  whole, each behind the pointers, below the current string, and at the place its
  pointer's bytes make (`StringStored`); of the current one the bytes so far. It is what keeps
  the later stores, which come by three separate sums, off the earlier ones. The file
  is stored before, and the processor pushes to page 1, so nothing depends on where the
  program went.
- `ProgramStored`: with a count of zero both banks are zero and nothing answers for the vectors
  (`BankZero`), since no store of `main` is to the top page; the vectors are as
  `main` set them (`VectorsStored`); the file is at 0x1000 as long as the strings have not
  come up to it (`FileStored`); and the processor is at address 0 until it is at the
  program (`OnItsWay`). That the processor gets there is liveness.
- Assumed: a program is given its name and at most 254 arguments more, whose characters
  are not zero, and memory has the bytes that are read (`ReadAssumption`). What a
  `MemWrite` of the loader does to the rest of the memory is `Memory`'s.

`Induction`. The library's induction theorems take an operator as a parameter, which the
provers cannot instantiate. `SetInduction` states induction for a set of numbers, and is
proved from the well-foundedness of their order; `PrimitiveRecursion` gives the
functions that a recursion defines. Both are applied with the set of those numbers of
which the claim holds.

`Framebuffer_proofs`, for every screen, palette and set of shapes: `FbTypeCorrect`, whose
heart is that two bytes make a word and moves wrap within it (`BytesMakeWord`, `PlusType`);
and `FaultsAreExplained`, from the invariant that a success leaves a mapping
(`MappedIfOk`).

Only model-checked:

- `InitReturns`, `SleepEndsBeforeWrap`, `ProgramStarts` and the liveness of `Doorbell`:
  liveness and fairness are not treated by the prover.
- `ReplyAlwaysReadable`, which is violated.
- `LinesAreStrokes` and `CirclesAreRings`: products and quotients of several
  variables, and a recurrence whose error has no simple bound.
- `ImplementsCanvas`: pans as copies of an array over itself are within reach, but the
  shapes that `Canvas` allows are those two properties.
- The properties of `ZText`, whose decoder and tokenizer are RECURSIVE operators, and
  the prover does without its arithmetic in a module that has one.

## 5. Not modelled

Pin set-up, delays and memory barriers (`cpu.c`: hardware access), and the timer that
paces the main loop; `gpu.c` (not compiled); `io_assist.c` (empty); the demo programs;
scripts and build files. `malloc` failing in `mem_init` (ends in a crash). Strings
without an end, and buffers that leave their window. Drawing beyond the memory of the
screen, and coordinates of 32768 and more, where the arithmetic of `_line` leaves its
width.

Of `mojozork.c`: attributes and properties of objects, the arithmetic and branch
conditions themselves (their results are arbitrary), the random numbers, the status bar
and windows, the scripts of commands, and the tables of opcodes and their set-up. What is
modelled takes pointers and `size_t` to be wide enough; where the program
is built for the 6502, cc65 has 16 bits, and `loadStory` takes the story in one
`malloc`. A story has the operands each opcode takes, and a fresh `malloc` is zero.

## 6. Plan

1. (done) `MemoryMap`, `Memory`, `BankedStore`; `Assist`; `Marshal`; `Mailbox` with
   `Doorbell`; `TimeUnit`.
2. (done) `FbDraw` with `DrawCalls`; `Framebuffer` with `Canvas`.
3. (done) `Boot`; `ZRoutines` with `ZFrames`, `ZObjects` with `ZForest`, `ZText`.
4. (done) Proofs of memory, replies, arguments, mailboxes and the framebuffer's faults.
5. (done) Proofs of calls and their memory, of the time unit, and of the objects and saved
   games of the Z-machine.
6. (done) Proofs of `ZRoutines`: types, the reasons to stop, and that the words implement
   frames; of `Boot`: types, arguments, the program.
7. That a line stays in the box of its ends, and `ImplementsCanvas` given that.
8. The properties and attributes of objects, whose sizes and defaults the story holds in
   a packed form; the composition of `Boot` with `Assist`, whose program would start
   from what the loader left.
