----------------------------- MODULE Framebuffer -----------------------------
(***************************************************************************)
(* The framebuffer of fb.c: the device's memory, the pixel cursor and the  *)
(* registers that move it and draw, the drawing calls, panning, and        *)
(* fb_init, which maps the memory and may fail, also after it succeeded.   *)
(*                                                                         *)
(* The memory is an array of pixels, of 16 bits each, in lines of Stride   *)
(* pixels, of which the screen shows the first XRes of the first YRes.     *)
(* Whatever is drawn through a pointer that is not a mapping faults.       *)
(***************************************************************************)
EXTENDS FbDraw

CONSTANTS XRes, YRes,   \* the size of the screen
          Stride,       \* line_length in pixels
          VRows,        \* yres_virtual
          ByteSize,     \* how many values a byte of a coordinate has
          Colours,      \* the colour numbers the program uses
          PaletteSize,  \* the entries of the palette, 255 in the code
          Lines, Blocks, Circles  \* the shapes the program draws by calls

ASSUME ScreenAssumption ==
         /\ XRes \in Nat \ {0} /\ YRes \in Nat \ {0}
         /\ Stride \in Nat /\ XRes <= Stride
         /\ VRows \in Nat /\ YRes <= VRows
ASSUME ColoursAssumption ==
         PaletteSize \in Nat \ {0} /\ Colours \subseteq Nat /\ 0 \in Colours
ASSUME ByteAssumption == ByteSize \in Nat \ {0}

VARIABLES screen,            \* the pixels of the memory, by cell
          base,              \* p_cursor_base_x, p_cursor_base_y
          cursor,            \* p_cursor_x, p_cursor_y
          background_color,
          fbbuffer,          \* the pointer: "null", "mapped", or "dangling"
          installed,         \* whether fb_init has installed the handlers
          inited,            \* what the last fb_init returned, "never", "ok", "failed"
          alive              \* no access has faulted

vars == <<screen, base, cursor, background_color, fbbuffer, installed, inited, alive>>
cursors == <<base, cursor>>
device == <<fbbuffer, installed, inited>>

Cells  == 0 .. Stride * VRows - 1
Pixels == 0 .. PaletteSize - 1
Words  == 0 .. ByteSize * ByteSize - 1

\* "location", in pixels.
Cell(p) == p[1] + p[2] * Stride

\* palette[col]: the entry, or, for a number beyond the last, whatever follows the
\* palette in memory.
Entry(col) == IF col < PaletteSize THEN {col} ELSE Pixels

FbTypeOK ==
    /\ screen \in [Cells -> Pixels]
    /\ base \in Words \X Words
    /\ cursor \in Words \X Words
    /\ background_color \in Colours
    /\ fbbuffer \in {"null", "mapped", "dangling"}
    /\ installed \in BOOLEAN
    /\ inited \in {"never", "ok", "failed"}
    /\ alive \in BOOLEAN

FbInit ==
    /\ screen = [c \in Cells |-> 0]
    /\ base = <<0, 0>> /\ cursor = <<0, 0>>
    /\ background_color = 0
    /\ fbbuffer = "null" /\ installed = FALSE
    /\ inited = "never"
    /\ alive = TRUE

-----------------------------------------------------------------------------
(***************************************************************************)
(* Initialisation.                                                         *)
(***************************************************************************)
InitSucceeds ==
    /\ fbbuffer' = "mapped" /\ installed' = TRUE /\ inited' = "ok"
    /\ UNCHANGED <<screen, cursors, background_color, alive>>

\* open or an ioctl fails: a mapping of an earlier call is removed; its handlers
\* and the pointer stay.
DeviceFails ==
    /\ fbbuffer' = IF fbbuffer = "mapped" THEN "dangling" ELSE fbbuffer
    /\ inited' = "failed"
    /\ UNCHANGED <<screen, cursors, background_color, installed, alive>>

\* The pointer is what mmap returned, which is no mapping; an earlier one is lost.
MmapFails ==
    /\ fbbuffer' = "dangling" /\ inited' = "failed"
    /\ UNCHANGED <<screen, cursors, background_color, installed, alive>>

\* Mutant: a mapping that failed is taken for one.
InitCall_unchecked ==
    /\ alive
    /\ \/ InitSucceeds \/ DeviceFails
       \/ /\ fbbuffer' = "dangling" /\ installed' = TRUE /\ inited' = "ok"
          /\ UNCHANGED <<screen, cursors, background_color, alive>>

\* fb_init
InitCall == alive /\ (InitSucceeds \/ DeviceFails \/ MmapFails)

-----------------------------------------------------------------------------
(***************************************************************************)
(* Drawing.  The program draws within the memory; what stores beyond it do *)
(* is not modelled.                                                        *)
(***************************************************************************)
Painted(m, S, value) ==
    [c \in Cells |-> IF \E p \in S : Cell(p) = c THEN value ELSE m[c]]

Fault == alive' = FALSE /\ UNCHANGED screen

\* The pixels of S are stored.
Draw(S, values) ==
    /\ \A p \in S : Cell(p) \in Cells
    /\ IF S = {} \/ fbbuffer = "mapped"
       THEN (\E value \in values : screen' = Painted(screen, S, value)) /\ UNCHANGED alive
       ELSE Fault

fb_point(p, col)     == Draw({p}, Entry(col))
fb_pointRGB(p)       == Draw({p}, Pixels)
fb_line(p, q, col)   == Draw(LinePixels(p, q), Entry(col))
fb_block(p, q, col)  == Draw(BlockPixels(p, q), Entry(col))
fb_circle(p, r, col) == Draw(CirclePixels(p, r), Entry(col))

\* bzero of the whole memory; without a mapping yet its length is zero.  Black is
\* the first entry of the palette.
fb_cls ==
    IF fbbuffer = "null" THEN UNCHANGED <<screen, alive>>
    ELSE IF fbbuffer = "mapped" THEN screen' = [c \in Cells |-> 0] /\ UNCHANGED alive
    ELSE Fault

DrawCall ==
    /\ alive
    /\ \/ fb_cls
       \/ \E col \in Colours :
            \/ \E line \in Lines : fb_line(line[1], line[2], col)
            \/ \E block \in Blocks : fb_block(block[1], block[2], col)
            \/ \E circle \in Circles : fb_circle(circle[1], circle[2], col)
    /\ UNCHANGED <<cursors, background_color, device>>

\* fb_point and fb_pointRGB, at an end of one of the lines.
PointCall ==
    /\ alive
    /\ \E line \in Lines :
         fb_pointRGB(line[1]) \/ \E col \in Colours : fb_point(line[1], col)
    /\ UNCHANGED <<cursors, background_color, device>>

-----------------------------------------------------------------------------
(***************************************************************************)
(* The registers.                                                          *)
(***************************************************************************)
Low(word)  == word % ByteSize
High(word) == word \div ByteSize

\* 0xFF00 to 0xFF03: a byte of the base; the cursor follows in that axis.
WriteBase(axis, byte) ==
    /\ installed /\ alive
    /\ \/ base' = [base EXCEPT ![axis] = High(@) * ByteSize + byte]
       \/ base' = [base EXCEPT ![axis] = byte * ByteSize + Low(@)]
    /\ cursor' = [cursor EXCEPT ![axis] = base'[axis]]
    /\ UNCHANGED <<screen, background_color, device, alive>>

\* Mutant: the cursor is kept in an int.
Plus_wide(p, d) == <<p[1] + d[1], p[2] + d[2]>>

\* The cursor is a uint16_t in each axis.
Plus(p, d) == <<(p[1] + d[1]) % (ByteSize * ByteSize), (p[2] + d[2]) % (ByteSize * ByteSize)>>

\* 0xFF04 to 0xFF08: the pixel under the cursor, which then moves.
DrawAndMove(col) ==
    /\ installed /\ alive
    /\ fb_point(cursor, col)
    /\ \E d \in {<<0, 0>>, <<1, 0>>, <<0, 1>>, <<-1, 0>>, <<0, -1>>} :
         cursor' = Plus(cursor, d)
    /\ UNCHANGED <<base, background_color, device>>

\* 0xFF09 and 0xFF0A: the base moves, and the pixel drawn is the one there.
MoveAndDraw(col) ==
    /\ installed /\ alive
    /\ \E d \in {<<0, 1>>, <<1, 0>>} : base' = Plus(base, d)
    /\ cursor' = base'
    /\ fb_point(base', col)
    /\ UNCHANGED <<background_color, device>>

\* 0xFF0F
SetBackground(col) ==
    /\ installed /\ alive
    /\ background_color' = col
    /\ UNCHANGED <<screen, cursors, device, alive>>

-----------------------------------------------------------------------------
Shown == YRes * Stride   \* the pixels of the lines on the screen

\* Mutant: the pixels are copied one by one, in ascending order, whatever overlaps.
Moved_ascending(first, last, by, beyond) ==
    [c \in Cells |-> IF c \notin first .. last THEN screen[c]
                     ELSE IF by > 0 THEN screen[first - by + ((c - first) % by)]
                     ELSE IF c - by \in Cells THEN screen[c - by] ELSE beyond]

\* memmove: the cells from first to last get those "by" before them.  A cell read
\* beyond the mapping may hold anything.
Moved(first, last, by, beyond) ==
    [c \in Cells |-> IF c \notin first .. last THEN screen[c]
                     ELSE IF c - by \in Cells THEN screen[c - by] ELSE beyond]

Scroll(first, last, by, p, q) ==
    /\ fbbuffer = "mapped"
    /\ \E value \in Entry(background_color), beyond \in Pixels :
         screen' = Painted(Moved(first, last, by, beyond), LinePixels(p, q), value)
    /\ UNCHANGED alive

PanRight == Scroll(1, Shown - 1, 1, <<0, 0>>, <<0, YRes - 1>>)

\* One pixel more is moved than to the right: the last is from the next line, or
\* from beyond the mapping if there is none, where it may also fault.
PanLeft ==
    \/ Scroll(0, Shown - 1, -1, <<XRes - 1, 0>>, <<XRes - 1, YRes - 1>>)
    \/ VRows = YRes /\ fbbuffer = "mapped" /\ Fault

PanDown == Scroll(Stride, Shown - 1, Stride, <<0, 0>>, <<XRes - 1, 0>>)
PanUp   == Scroll(0, Shown - Stride - 1, -Stride,
                  <<0, YRes - 1>>, <<XRes - 1, YRes - 1>>)

\* 0xFF0B, _pan; another direction does nothing.
Pan ==
    /\ installed /\ alive
    /\ \/ PanRight \/ PanLeft \/ PanDown \/ PanUp
       \/ fbbuffer # "mapped" /\ Fault
    /\ UNCHANGED <<cursors, background_color, device>>

FbNext ==
    \/ InitCall
    \/ DrawCall
    \/ PointCall
    \/ \E axis \in {1, 2}, byte \in 0 .. ByteSize - 1 : WriteBase(axis, byte)
    \/ \E col \in Colours : DrawAndMove(col) \/ MoveAndDraw(col) \/ SetBackground(col)
    \/ Pan

FbSpec == FbInit /\ [][FbNext]_vars

-----------------------------------------------------------------------------
(***************************************************************************)
(* Properties.                                                             *)
(***************************************************************************)
\* A program whose last fb_init returned 0 never draws through a pointer that is
\* no mapping, whatever calls failed before, and however its drawing and its calls
\* of fb_init alternate.  The one access that may fault is a pan, to the left, over
\* a memory without spare lines (fb.c:378-435, fb.c:205-212).
FaultsExplained ==
    [][alive /\ ~ alive' /\ inited = "ok" => PanLeft /\ VRows = YRes]_vars

\* The shapes a call may paint, of those that the program uses.
Visible == (0 .. XRes - 1) \X (0 .. YRes - 1)
Strokes == UNION {{S \in SUBSET Visible : IsStroke(S, l[1], l[2])} : l \in Lines}
Rings   == UNION {{S \in SUBSET Visible : S # {} /\ IsRing(S, c[1], c[2])} : c \in Circles}

\* One array of lines is a picture: no shift, shape or register changes a pixel of
\* another row or column than it should, though the rows adjoin in memory and
\* some are moved by overlapping copies (fb.c:46-102, fb.c:192-233, fb.c:283-344).
Picture == INSTANCE Canvas
             WITH Screen <- Visible,
                  Shapes <- Strokes \cup Rings,
                  image <- [p \in Visible |-> screen[Cell(p)]],
                  background <- background_color

ImplementsCanvas == Picture!CanvasSpec
=============================================================================
