------------------------------- MODULE Marshal -------------------------------
(***************************************************************************)
(* The arguments of a call: the wrappers of pi_libc.h and pi_fb.h store    *)
(* them in call_buff, the one buffer all of them share and none of them    *)
(* clears, and the host's functions fetch them from there.  The two sides  *)
(* know the layout from tables of their own: the structs of the wrappers,  *)
(* which cc65 does not pad and whose int is two bytes (external), and the  *)
(* constants in the host's code.                                           *)
(*                                                                         *)
(* The calls that pass nothing in the buffer are not here (fb_init, ...),  *)
(* nor puts, whose argument is the pointer in the request itself.          *)
(***************************************************************************)
EXTENDS Integers, Sequences

CONSTANTS WordArgs,  \* the values of a two-byte argument
          ByteArgs   \* and of a one-byte argument

ASSUME WordArgsAssumption == WordArgs \subseteq Nat /\ \A w \in WordArgs : w < 65536
ASSUME ByteArgsAssumption == ByteArgs \subseteq 0 .. 255

VARIABLES call_buff,  \* the 40 bytes
          call,       \* the call being made
          args,       \* what the program passed to its wrapper
          seen        \* what the host's function has fetched

callVars == <<call_buff, call, args, seen>>

word(offset) == <<offset, 2>>
byte(offset) == <<offset, 1>>

\* syscall_*_t: the fields, in the order of the wrapper's parameters.
GuestLayout ==
    [open     |-> <<word(0), word(2)>>,
     close    |-> <<word(0)>>,
     write    |-> <<word(0), word(2), word(4)>>,
     read     |-> <<word(0), word(2), word(4)>>,
     chdir    |-> <<word(0)>>,
     getcwd   |-> <<word(0), word(2)>>,
     system   |-> <<word(0)>>,
     lseek    |-> <<word(0), word(2), word(4)>>,
     unlink   |-> <<word(0)>>,
     sysexit  |-> <<word(0)>>,
     fsync    |-> <<word(0)>>,
     fb_point    |-> <<word(0), word(2), byte(4)>>,
     fb_pointRGB |-> <<word(0), word(2), byte(4), byte(5), byte(6)>>,
     fb_line     |-> <<word(0), word(2), word(4), word(6), byte(8)>>,
     fb_circle   |-> <<word(0), word(2), word(4), byte(6)>>,
     fb_block    |-> <<word(0), word(2), word(4), word(6), byte(8)>>,
     fb_malloc_sbuf |-> <<word(0), word(2)>>]

\* cb_* of libC_assist.c
LibCLayout ==
    [open     |-> <<word(0), word(2)>>,
     close    |-> <<word(0)>>,
     write    |-> <<word(0), word(2), word(4)>>,
     read     |-> <<word(0), word(2), word(4)>>,
     chdir    |-> <<word(0)>>,
     getcwd   |-> <<word(0), word(2)>>,
     system   |-> <<word(0)>>,
     lseek    |-> <<word(0), word(2), word(4)>>,
     unlink   |-> <<word(0)>>,
     sysexit  |-> <<word(0)>>,
     fsync    |-> <<word(0)>>]

\* fb_* of fb.c
FbLayout ==
    [fb_point    |-> <<word(0), word(2), byte(4)>>,
     fb_pointRGB |-> <<word(0), word(2), byte(4), byte(6), byte(8)>>,
     fb_line     |-> <<word(0), word(2), word(4), word(6), byte(8)>>,
     fb_circle   |-> <<word(0), word(2), word(4), byte(6)>>,
     fb_block    |-> <<word(0), word(2), word(4), word(6), byte(8)>>,
     fb_malloc_sbuf |-> <<word(0), word(2)>>]

HostLayout(c) == IF c \in DOMAIN FbLayout THEN FbLayout[c] ELSE LibCLayout[c]

\* A field is <<offset, size>>; the offsets it occupies, and what it can hold.
Extent(field)   == field[1] .. field[1] + field[2] - 1
ValuesOf(field) == IF field[2] = 2 THEN WordArgs ELSE ByteArgs

Arguments(c) == {a \in [DOMAIN GuestLayout[c] -> WordArgs \cup ByteArgs] :
                   \A n \in DOMAIN a : a[n] \in ValuesOf(GuestLayout[c][n])}

-----------------------------------------------------------------------------
MarshalInit ==
    /\ call_buff = [i \in 0 .. 39 |-> 0]
    /\ call = "none" /\ args = <<>> /\ seen = <<>>

\* The byte at offset i of a field with a value: the 6502 is little-endian.
Stored(value, field, i) == IF i = field[1] THEN value % 256 ELSE value \div 256

\* A wrapper stores its parameters, and leaves what lies beyond them as it was.
Wrapper(c) ==
    /\ call = "none"
    /\ \E a \in Arguments(c) :
         /\ args' = a
         /\ call_buff' =
              [i \in DOMAIN call_buff |->
                 IF \E n \in DOMAIN a : i \in Extent(GuestLayout[c][n])
                 THEN LET n == CHOOSE n \in DOMAIN a : i \in Extent(GuestLayout[c][n])
                      IN  Stored(a[n], GuestLayout[c][n], i)
                 ELSE call_buff[i]]
    /\ call' = c
    /\ UNCHANGED seen

\* Mutant: a word is fetched as the byte at its address.
Fetched_byte(field) == call_buff[field[1]]

\* *(uint16_t*) or *(uint8_t*) of an address in the buffer.
Fetched(field) == IF field[2] = 2
                  THEN call_buff[field[1]] + 256 * call_buff[field[1] + 1]
                  ELSE call_buff[field[1]]

\* The host's function.
Serve ==
    /\ call # "none" /\ seen = <<>>
    /\ seen' = [n \in DOMAIN HostLayout(call) |-> Fetched(HostLayout(call)[n])]
    /\ UNCHANGED <<call_buff, call, args>>

Return ==
    /\ seen # <<>>
    /\ call' = "none" /\ args' = <<>> /\ seen' = <<>>
    /\ UNCHANGED call_buff

MarshalNext == Serve \/ Return \/ \E c \in DOMAIN GuestLayout : Wrapper(c)

MarshalSpec == MarshalInit /\ [][MarshalNext]_callVars

-----------------------------------------------------------------------------
(***************************************************************************)
(* Properties.                                                             *)
(***************************************************************************)
\* Every call but one arrives as it was made, whatever the calls before it have
\* left in the buffer (libC_assist.c:32-152, fb.c:453-561).  fb_pointRGB does not:
\* the host takes green and blue from other offsets than the wrapper's (fb.c:443).
ArgumentsArrive ==
    seen # <<>> /\ call # "fb_pointRGB" => seen = args
=============================================================================
