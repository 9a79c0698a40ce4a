------------------------- MODULE Framebuffer_proofs -------------------------
(***************************************************************************)
(* Theorems about Framebuffer, for screens, palettes and shapes of any     *)
(* size: its types, which show the coordinates wrap in their two bytes; and*)
(* that after an fb_init that returned 0 nothing that a program draws      *)
(* faults, but for the one pan that reads a pixel too many.                *)
(*                                                                         *)
(* And about Marshal, which brings the calls their arguments: those of     *)
(* every call but fb_pointRGB arrive, whatever words and bytes they are    *)
(* and whatever the calls before left in the buffer.                       *)
(***************************************************************************)
EXTENDS Framebuffer, Marshal, TLAPS

(***************************************************************************)
(* Coordinates.                                                            *)
(***************************************************************************)
WordRange == ByteSize * ByteSize

LEMMA WordRangeType == WordRange \in Nat \ {0} /\ Words = 0 .. WordRange - 1
<1>1. ByteSize \in Nat /\ ByteSize > 0
  BY ByteAssumption, SMT
<1>2. ByteSize * ByteSize \in Nat /\ ByteSize * ByteSize > 0
  BY <1>1, SMT
<1> QED BY <1>2, SMT DEF WordRange, Words

\* Two bytes make a word.
LEMMA BytesMakeWord ==
  ASSUME NEW h \in 0 .. ByteSize - 1, NEW l \in 0 .. ByteSize - 1
  PROVE  h * ByteSize + l \in Words
<1>1. ByteSize \in Nat /\ ByteSize > 0 /\ h \in Nat /\ l \in Nat
  BY ByteAssumption, SMT
<1>2. h + 1 <= ByteSize /\ l + 1 <= ByteSize
  BY <1>1, SMT
<1>3. (h + 1) * ByteSize <= ByteSize * ByteSize
  BY <1>1, <1>2, SMT
<1>4. (h + 1) * ByteSize = h * ByteSize + ByteSize
  BY <1>1, SMT
<1>5. h * ByteSize \in Nat /\ ByteSize * ByteSize \in Nat
  BY <1>1, SMT
<1> QED BY <1>1, <1>2, <1>3, <1>4, <1>5, SMT DEF Words

\* And a word two bytes.
LEMMA WordHasBytes ==
  ASSUME NEW w \in Words
  PROVE  Low(w) \in 0 .. ByteSize - 1 /\ High(w) \in 0 .. ByteSize - 1
<1>1. ByteSize \in Nat /\ ByteSize > 0 /\ w \in Nat /\ w < ByteSize * ByteSize
  BY WordRangeType, ByteAssumption, SMT DEF WordRange
<1> DEFINE h == w \div ByteSize
           l == w % ByteSize
<1>2. h \in Int /\ l \in 0 .. ByteSize - 1 /\ w = ByteSize * h + l
  BY <1>1, SMT
<1>3. 0 <= h
  BY <1>1, SMT
<1> HIDE DEF h, l
<1>4. h < ByteSize
  <2>1. ASSUME ByteSize <= h PROVE FALSE
    <3>1. ByteSize * ByteSize <= ByteSize * h
      BY <1>1, <1>2, <2>1, SMT
    <3> QED BY <3>1, <1>1, <1>2, SMT
  <2> QED BY <2>1, <1>1, <1>2, SMT
<1>5. h \in 0 .. ByteSize - 1
  BY <1>1, <1>2, <1>3, <1>4, SMT
<1> QED BY <1>2, <1>5 DEF Low, High, h, l

\* A move stays within the words: to the left of 0 is the last of them.
LEMMA PlusType ==
  ASSUME NEW p \in Words \X Words, NEW d \in Int \X Int
  PROVE  Plus(p, d) \in Words \X Words
<1>1. p[1] + d[1] \in Int /\ p[2] + d[2] \in Int
  BY WordRangeType, SMT
<1>2. \A n \in Int : n % WordRange \in Words
  BY WordRangeType, SMT
<1> QED BY <1>1, <1>2 DEF Plus, WordRange

-----------------------------------------------------------------------------
(***************************************************************************)
(* Types.                                                                  *)
(***************************************************************************)
LEMMA EntryType == ASSUME NEW col \in Colours PROVE Entry(col) \subseteq Pixels
BY ColoursAssumption, SMT DEF Entry, Pixels

LEMMA PaintedType ==
  ASSUME NEW m \in [Cells -> Pixels], NEW S, NEW value \in Pixels
  PROVE  Painted(m, S, value) \in [Cells -> Pixels]
BY DEF Painted

LEMMA DrawType ==
  ASSUME FbTypeOK, NEW S, NEW values \in SUBSET Pixels, Draw(S, values)
  PROVE  screen' \in [Cells -> Pixels] /\ alive' \in BOOLEAN
<1>1. screen \in [Cells -> Pixels] /\ alive \in BOOLEAN
  BY DEF FbTypeOK
<1>2. CASE S = {} \/ fbbuffer = "mapped"
  <2>1. PICK value \in values : screen' = Painted(screen, S, value)
    BY <1>2 DEF Draw
  <2> QED BY <1>1, <1>2, <2>1, PaintedType DEF Draw
<1>3. CASE ~ (S = {} \/ fbbuffer = "mapped")
  BY <1>1, <1>3 DEF Draw, Fault
<1> QED BY <1>2, <1>3

LEMMA ScrollType ==
  ASSUME FbTypeOK, NEW first, NEW last, NEW by, NEW p, NEW q,
         Scroll(first, last, by, p, q)
  PROVE  screen' \in [Cells -> Pixels] /\ alive' \in BOOLEAN
<1>1. screen \in [Cells -> Pixels] /\ alive \in BOOLEAN /\ background_color \in Colours
  BY DEF FbTypeOK
<1>2. PICK value \in Entry(background_color), beyond \in Pixels :
        screen' = Painted(Moved(first, last, by, beyond), LinePixels(p, q), value)
  BY DEF Scroll
<1>3. Moved(first, last, by, beyond) \in [Cells -> Pixels]
  BY <1>1 DEF Moved
<1>4. value \in Pixels
  BY <1>1, EntryType
<1>5. screen' \in [Cells -> Pixels]
  BY <1>2, <1>3, <1>4, PaintedType
<1> QED BY <1>1, <1>5 DEF Scroll

LEMMA FbTypeStep == FbTypeOK /\ [FbNext]_vars => FbTypeOK'
<1> SUFFICES ASSUME FbTypeOK, [FbNext]_vars PROVE FbTypeOK'
  OBVIOUS
<1> USE DEF cursors, device
<1>1. CASE InitCall
  BY <1>1 DEF InitCall, InitSucceeds, DeviceFails, MmapFails, FbTypeOK
<1>2. CASE DrawCall
  <2>1. screen' \in [Cells -> Pixels] /\ alive' \in BOOLEAN
    <3>1. CASE fb_cls
      <4>1. 0 \in Pixels
        BY ColoursAssumption, SMT DEF Pixels
      <4> QED BY <3>1, <4>1 DEF fb_cls, Fault, FbTypeOK
    <3>2. CASE ~ fb_cls
      <4>1. PICK col \in Colours :
              \/ \E line \in Lines : fb_line(line[1], line[2], col)
              \/ \E block \in Blocks : fb_block(block[1], block[2], col)
              \/ \E circle \in Circles : fb_circle(circle[1], circle[2], col)
        BY <1>2, <3>2 DEF DrawCall
      <4>2. Entry(col) \in SUBSET Pixels
        BY EntryType
      <4> QED BY <4>1, <4>2, DrawType DEF fb_line, fb_block, fb_circle
    <3> QED BY <3>1, <3>2
  <2> QED BY <1>2, <2>1 DEF DrawCall, FbTypeOK
<1>3. CASE PointCall
  <2>1. PICK line \in Lines :
          fb_pointRGB(line[1]) \/ \E col \in Colours : fb_point(line[1], col)
    BY <1>3 DEF PointCall
  <2>2. \A col \in Colours : Entry(col) \in SUBSET Pixels
    BY EntryType
  <2>3. screen' \in [Cells -> Pixels] /\ alive' \in BOOLEAN
    BY <2>1, <2>2, DrawType DEF fb_point, fb_pointRGB
  <2> QED BY <1>3, <2>3 DEF PointCall, FbTypeOK
<1>4. ASSUME NEW axis \in {1, 2}, NEW octet \in 0 .. ByteSize - 1, WriteBase(axis, octet)
      PROVE  FbTypeOK'
  <2>1. base \in Words \X Words /\ cursor \in Words \X Words
    BY DEF FbTypeOK
  <2>2. base[axis] \in Words
    BY <2>1
  <2>3. PICK w \in Words : base' = [base EXCEPT ![axis] = w]
    <3>1. /\ High(base[axis]) * ByteSize + octet \in Words
          /\ octet * ByteSize + Low(base[axis]) \in Words
      BY <2>2, WordHasBytes, BytesMakeWord
    <3>2. \/ base' = [base EXCEPT ![axis] = High(base[axis]) * ByteSize + octet]
          \/ base' = [base EXCEPT ![axis] = octet * ByteSize + Low(base[axis])]
      BY <1>4 DEF WriteBase
    <3> QED BY <3>1, <3>2
  <2>4. base' \in Words \X Words /\ base'[axis] = w
    BY <2>1, <2>3
  <2>5. cursor' = [cursor EXCEPT ![axis] = w]
    BY <1>4, <2>4 DEF WriteBase
  <2>6. cursor' \in Words \X Words
    BY <2>1, <2>5
  <2> QED BY <1>4, <2>4, <2>6 DEF WriteBase, FbTypeOK
<1>5. ASSUME NEW col \in Colours,
             DrawAndMove(col) \/ MoveAndDraw(col) \/ SetBackground(col)
      PROVE  FbTypeOK'
  <2>1. Entry(col) \in SUBSET Pixels
    BY EntryType
  <2>2. CASE DrawAndMove(col)
    <3>1. screen' \in [Cells -> Pixels] /\ alive' \in BOOLEAN
      BY <2>1, <2>2, DrawType DEF DrawAndMove, fb_point
    <3>2. PICK d \in Int \X Int : cursor' = Plus(cursor, d)
      BY <2>2, SMT DEF DrawAndMove
    <3>3. cursor' \in Words \X Words
      BY <3>2, PlusType DEF FbTypeOK
    <3> QED BY <2>2, <3>1, <3>3 DEF DrawAndMove, FbTypeOK
  <2>3. CASE MoveAndDraw(col)
    <3>1. screen' \in [Cells -> Pixels] /\ alive' \in BOOLEAN
      BY <2>1, <2>3, DrawType DEF MoveAndDraw, fb_point
    <3>2. PICK d \in Int \X Int : base' = Plus(base, d)
      BY <2>3, SMT DEF MoveAndDraw
    <3>3. base' \in Words \X Words /\ cursor' = base'
      BY <2>3, <3>2, PlusType DEF FbTypeOK, MoveAndDraw
    <3> QED BY <2>3, <3>1, <3>3 DEF MoveAndDraw, FbTypeOK
  <2>4. CASE SetBackground(col)
    BY <2>4 DEF SetBackground, FbTypeOK
  <2> QED BY <1>5, <2>2, <2>3, <2>4
<1>6. CASE Pan
  <2>1. screen' \in [Cells -> Pixels] /\ alive' \in BOOLEAN
    <3>1. CASE Fault
      BY <3>1 DEF Fault, FbTypeOK
    <3>2. CASE ~ Fault
      BY <1>6, <3>2, ScrollType DEF Pan, PanRight, PanLeft, PanDown, PanUp
    <3> QED BY <3>1, <3>2
  <2> QED BY <1>6, <2>1 DEF Pan, FbTypeOK
<1>7. CASE UNCHANGED vars
  BY <1>7 DEF vars, FbTypeOK
<1> QED BY <1>1, <1>2, <1>3, <1>4, <1>5, <1>6, <1>7 DEF FbNext

\* The pixels, the coordinates and the background keep their types: the cursor
\* stays in its two bytes however it is moved (fb.c:192-233, fb.c:277-345).
THEOREM FbTypeCorrect == FbSpec => []FbTypeOK
<1>1. FbInit => FbTypeOK
  <2> SUFFICES ASSUME FbInit PROVE FbTypeOK
    OBVIOUS
  <2>1. 0 \in Words
    BY WordRangeType, SMT
  <2>2. 0 \in Pixels /\ 0 \in Colours
    BY ColoursAssumption, SMT DEF Pixels
  <2> QED BY <2>1, <2>2 DEF FbInit, FbTypeOK
<1> QED BY <1>1, FbTypeStep, PTL DEF FbSpec

-----------------------------------------------------------------------------
(***************************************************************************)
(* Faults.                                                                 *)
(***************************************************************************)
\* A success leaves a mapping; a failure that takes it away is reported.
MappedIfOk == inited = "ok" => fbbuffer = "mapped"

LEMMA MappedStep == MappedIfOk /\ [FbNext]_vars => MappedIfOk'
<1> SUFFICES ASSUME MappedIfOk, [FbNext]_vars PROVE MappedIfOk'
  OBVIOUS
<1>1. CASE InitCall
  BY <1>1 DEF InitCall, InitSucceeds, DeviceFails, MmapFails, MappedIfOk
<1>2. CASE UNCHANGED device
  BY <1>2 DEF device, MappedIfOk
<1>3. CASE DrawCall \/ PointCall \/ Pan
  BY <1>2, <1>3 DEF DrawCall, PointCall, Pan
<1>4. CASE \E axis \in {1, 2}, octet \in 0 .. ByteSize - 1 : WriteBase(axis, octet)
  BY <1>2, <1>4 DEF WriteBase
<1>5. CASE \E col \in Colours : DrawAndMove(col) \/ MoveAndDraw(col) \/ SetBackground(col)
  BY <1>2, <1>5 DEF DrawAndMove, MoveAndDraw, SetBackground
<1>6. CASE UNCHANGED vars
  BY <1>2, <1>6 DEF vars, device
<1> QED BY <1>1, <1>3, <1>4, <1>5, <1>6 DEF FbNext

\* Drawing faults only without a mapping.
LEMMA DrawFaults ==
  ASSUME alive, fbbuffer = "mapped", NEW S, NEW values, Draw(S, values)
  PROVE  alive'
BY DEF Draw

LEMMA FaultStep ==
  ASSUME fbbuffer = "mapped", [FbNext]_vars, alive, ~ alive'
  PROVE  PanLeft /\ VRows = YRes
<1>1. ~ InitCall
  BY DEF InitCall, InitSucceeds, DeviceFails, MmapFails
<1>2. ~ DrawCall
  BY DrawFaults DEF DrawCall, fb_cls, fb_line, fb_block, fb_circle
<1>3. ~ PointCall
  BY DrawFaults DEF PointCall, fb_point, fb_pointRGB
<1>4. ~ \E axis \in {1, 2}, octet \in 0 .. ByteSize - 1 : WriteBase(axis, octet)
  BY DEF WriteBase
<1>5. ~ \E col \in Colours : DrawAndMove(col) \/ MoveAndDraw(col) \/ SetBackground(col)
  BY DrawFaults DEF DrawAndMove, MoveAndDraw, SetBackground, fb_point
<1>6. ~ UNCHANGED vars
  BY DEF vars
<1>7. Pan
  BY <1>1, <1>2, <1>3, <1>4, <1>5, <1>6 DEF FbNext
<1>8. PanLeft
  BY <1>7 DEF Pan, PanRight, PanDown, PanUp, Scroll
<1>9. VRows = YRes
  BY <1>8 DEF PanLeft, Scroll
<1> QED BY <1>8, <1>9

\* A program whose last fb_init returned 0 never draws through a pointer that is
\* no mapping; only the pan to the left, over a memory without spare lines, may
\* fault (fb.c:378-435, fb.c:205-212).
THEOREM FaultsAreExplained == FbSpec => FaultsExplained
<1>1. FbInit => MappedIfOk
  BY DEF FbInit, MappedIfOk
<1>2. MappedIfOk /\ [FbNext]_vars
      => [alive /\ ~ alive' /\ inited = "ok" => PanLeft /\ VRows = YRes]_vars
  BY FaultStep DEF MappedIfOk
<1> QED BY <1>1, <1>2, MappedStep, PTL DEF FbSpec, FaultsExplained

-----------------------------------------------------------------------------
(***************************************************************************)
(* The arguments of the calls.  No two fields of a call overlap, so that a *)
(* wrapper's stores do not undo each other, and the two tables agree.      *)
(***************************************************************************)
Guest == DOMAIN GuestLayout

\* The fields of a layout follow each other.
InOrder(layout) ==
    /\ \A n \in DOMAIN layout : layout[n] \in (0 .. 8) \X {1, 2}
    /\ \A n, m \in DOMAIN layout :
         n # m => \/ layout[n][1] + layout[n][2] <= layout[m][1]
                  \/ layout[m][1] + layout[m][2] <= layout[n][1]

\* The shapes the layouts of the 17 calls have.
Shapes == {<<word(0)>>, <<word(0), word(2)>>, <<word(0), word(2), word(4)>>,
           <<word(0), word(2), byte(4)>>,
           <<word(0), word(2), byte(4), byte(5), byte(6)>>,
           <<word(0), word(2), word(4), byte(6)>>,
           <<word(0), word(2), word(4), word(6), byte(8)>>}

\* The layouts of the calls have no other shapes.
LEMMA LayoutShapes == \A c \in Guest : GuestLayout[c] \in Shapes
BY DEF Guest, GuestLayout, Shapes

\* In none of them do two fields overlap.
LEMMA ShapesInOrder == \A layout \in Shapes : InOrder(layout)
<1> SUFFICES ASSUME NEW layout \in Shapes PROVE InOrder(layout)
  OBVIOUS
<1>1. CASE layout = <<word(0)>>
  BY <1>1, SMT DEF InOrder, word
<1>2. CASE layout = <<word(0), word(2)>>
  BY <1>2, SMT DEF InOrder, word
<1>3. CASE layout = <<word(0), word(2), word(4)>>
  BY <1>3, SMT DEF InOrder, word
<1>4. CASE layout = <<word(0), word(2), byte(4)>>
  BY <1>4, SMT DEF InOrder, word, byte
<1>5. CASE layout = <<word(0), word(2), byte(4), byte(5), byte(6)>>
  BY <1>5, SMT DEF InOrder, word, byte
<1>6. CASE layout = <<word(0), word(2), word(4), byte(6)>>
  BY <1>6, SMT DEF InOrder, word, byte
<1>7. CASE layout = <<word(0), word(2), word(4), word(6), byte(8)>>
  BY <1>7, SMT DEF InOrder, word, byte
<1> QED BY <1>1, <1>2, <1>3, <1>4, <1>5, <1>6, <1>7 DEF Shapes

\* No byte of the buffer belongs to two fields of a call.
LEMMA FieldsApart ==
  ASSUME NEW c \in Guest, NEW n \in DOMAIN GuestLayout[c],
         NEW m \in DOMAIN GuestLayout[c],
         NEW i \in Extent(GuestLayout[c][n]), i \in Extent(GuestLayout[c][m])
  PROVE  n = m
<1>1. InOrder(GuestLayout[c])
  BY LayoutShapes, ShapesInOrder
<1> DEFINE f == GuestLayout[c][n]
           g == GuestLayout[c][m]
<1>2. f \in (0 .. 8) \X {1, 2} /\ g \in (0 .. 8) \X {1, 2}
  BY <1>1 DEF InOrder
<1>3. n # m => f[1] + f[2] <= g[1] \/ g[1] + g[2] <= f[1]
  BY <1>1 DEF InOrder
<1>4. i \in f[1] .. f[1] + f[2] - 1 /\ i \in g[1] .. g[1] + g[2] - 1
  BY DEF Extent
<1>5. f[1] \in Int /\ f[2] \in Int /\ g[1] \in Int /\ g[2] \in Int
  BY <1>2
<1> HIDE DEF f, g
<1> QED BY <1>3, <1>4, <1>5, SMT

\* Two tables, one layout: but for fb_pointRGB.
LEMMA TablesAgree ==
  \A c \in Guest \ {"fb_pointRGB"} : HostLayout(c) = GuestLayout[c]
<1> SUFFICES ASSUME NEW c \in Guest \ {"fb_pointRGB"}
             PROVE  HostLayout(c) = GuestLayout[c]
  OBVIOUS
<1>1. CASE c \in DOMAIN FbLayout
  <2>1. FbLayout[c] = GuestLayout[c]
    BY <1>1 DEF GuestLayout, FbLayout
  <2> QED BY <1>1, <2>1 DEF HostLayout
<1>2. CASE c \notin DOMAIN FbLayout
  <2>1. c \in DOMAIN LibCLayout
    BY <1>2 DEF Guest, GuestLayout, FbLayout, LibCLayout
  <2>2. LibCLayout[c] = GuestLayout[c]
    BY <2>1 DEF GuestLayout, LibCLayout
  <2> QED BY <1>2, <2>2 DEF HostLayout
<1> QED BY <1>1, <1>2

-----------------------------------------------------------------------------
\* What a wrapper has stored is in the buffer until it returns.
BufferFilled ==
    call # "none" =>
        /\ call \in Guest
        /\ args \in Arguments(call)
        /\ \A n \in DOMAIN GuestLayout[call] :
             \A i \in Extent(GuestLayout[call][n]) :
               call_buff[i] = Stored(args[n], GuestLayout[call][n], i)

\* The host has fetched it from there.
BufferFetched ==
    seen # <<>> =>
        /\ call # "none"
        /\ seen = [n \in DOMAIN HostLayout(call) |-> Fetched(HostLayout(call)[n])]

MarshalInv == /\ DOMAIN call_buff = 0 .. 39
              /\ BufferFilled /\ BufferFetched

\* A wrapper's stores leave each of its arguments in the field that is its own.
LEMMA WrapperStep ==
  ASSUME MarshalInv, NEW c \in Guest, Wrapper(c)
  PROVE  MarshalInv'
<1>1. PICK a \in Arguments(c) :
        /\ args' = a
        /\ call_buff' =
             [i \in DOMAIN call_buff |->
                IF \E n \in DOMAIN a : i \in Extent(GuestLayout[c][n])
                THEN LET n == CHOOSE n \in DOMAIN a : i \in Extent(GuestLayout[c][n])
                     IN  Stored(a[n], GuestLayout[c][n], i)
                ELSE call_buff[i]]
  BY DEF Wrapper
<1>2. DOMAIN a = DOMAIN GuestLayout[c]
  BY DEF Arguments
<1>3. call' = c /\ seen' = seen /\ call = "none"
  BY DEF Wrapper
<1>4. ASSUME NEW n \in DOMAIN GuestLayout[c], NEW i \in Extent(GuestLayout[c][n])
      PROVE  call_buff'[i] = Stored(args'[n], GuestLayout[c][n], i)
  <2>1. i \in 0 .. 39
    <3>1. GuestLayout[c][n] \in (0 .. 8) \X {1, 2}
      BY LayoutShapes, ShapesInOrder DEF InOrder
    <3> QED BY <3>1, SMT DEF Extent
  <2>2. \A m \in DOMAIN a : i \in Extent(GuestLayout[c][m]) => m = n
    BY <1>2, FieldsApart
  <2>3. (CHOOSE m \in DOMAIN a : i \in Extent(GuestLayout[c][m])) = n
    BY <1>2, <2>2
  <2>4. i \in DOMAIN call_buff
    BY <2>1 DEF MarshalInv
  <2> QED BY <1>1, <1>2, <2>3, <2>4
<1>5. BufferFilled'
  <2>1. call' \in Guest
    BY <1>3
  <2>2. args' \in Arguments(call')
    BY <1>1, <1>3
  <2>3. \A n \in DOMAIN GuestLayout[call'] :
          \A i \in Extent(GuestLayout[call'][n]) :
            call_buff'[i] = Stored(args'[n], GuestLayout[call'][n], i)
    BY <1>3, <1>4
  <2> QED BY <2>1, <2>2, <2>3, Zenon DEF BufferFilled
<1>6. DOMAIN call_buff' = 0 .. 39
  BY <1>1 DEF MarshalInv
<1>7. seen' = <<>>
  BY <1>3 DEF MarshalInv, BufferFetched
<1> QED BY <1>5, <1>6, <1>7 DEF MarshalInv, BufferFetched

\* A call leaves the buffer alone until it returns.
LEMMA MarshalStep == MarshalInv /\ [MarshalNext]_callVars => MarshalInv'
<1> SUFFICES ASSUME MarshalInv, [MarshalNext]_callVars PROVE MarshalInv'
  OBVIOUS
<1>1. CASE Serve
  <2>1. BufferFilled'
    BY <1>1 DEF Serve, MarshalInv, BufferFilled
  <2>2. BufferFetched'
    BY <1>1 DEF Serve, BufferFetched, Fetched
  <2> QED BY <1>1, <2>1, <2>2 DEF Serve, MarshalInv
<1>2. CASE Return
  BY <1>2 DEF Return, MarshalInv, BufferFilled, BufferFetched
<1>3. CASE \E c \in DOMAIN GuestLayout : Wrapper(c)
  BY <1>3, WrapperStep DEF Guest
<1>4. CASE UNCHANGED callVars
  BY <1>4 DEF callVars, MarshalInv, BufferFilled, BufferFetched, Fetched
<1> QED BY <1>1, <1>2, <1>3, <1>4 DEF MarshalNext

\* A field is fetched as it was stored: a word low byte first.
LEMMA RoundTrip ==
  ASSUME NEW field \in (0 .. 8) \X {1, 2}, NEW value \in ValuesOf(field),
         \A i \in Extent(field) : call_buff[i] = Stored(value, field, i)
  PROVE  Fetched(field) = value
<1>1. field[1] \in 0 .. 8 /\ field[2] \in {1, 2}
  OBVIOUS
<1>2. CASE field[2] = 2
  <2> value \in WordArgs
    BY <1>2, Zenon DEF ValuesOf
  <2>1. value \in Nat
    BY WordArgsAssumption, SMT
  <2>2. field[1] \in Extent(field) /\ field[1] + 1 \in Extent(field)
    BY <1>1, <1>2, SMT DEF Extent
  <2>3. call_buff[field[1]] = value % 256
    BY <2>2 DEF Stored
  <2>4. field[1] + 1 # field[1]
    BY <1>1, SMT
  <2>5. call_buff[field[1] + 1] = value \div 256
    BY <2>2, <2>4 DEF Stored
  <2>6. (value % 256) + 256 * (value \div 256) = value
    BY <2>1, SMT
  <2>7. Fetched(field) = call_buff[field[1]] + 256 * call_buff[field[1] + 1]
    BY <1>2, Zenon DEF Fetched
  <2> QED BY <2>3, <2>5, <2>6, <2>7, Zenon
<1>3. CASE field[2] = 1
  <2> field[2] # 2
    BY <1>3, SMT
  <2> value \in ByteArgs
    BY Zenon DEF ValuesOf
  <2>1. value \in 0 .. 255
    BY ByteArgsAssumption, Zenon
  <2>2. field[1] \in Extent(field)
    BY <1>1, <1>3, SMT DEF Extent
  <2>3. call_buff[field[1]] = value % 256
    BY <2>2 DEF Stored
  <2>4. value % 256 = value
    BY <2>1, SMT
  <2>5. Fetched(field) = call_buff[field[1]]
    BY Zenon DEF Fetched
  <2> QED BY <2>3, <2>4, <2>5, Zenon
<1> QED BY <1>1, <1>2, <1>3

\* The two sides having the same fields, the host fetches what was stored.
LEMMA InvArrives == MarshalInv => ArgumentsArrive
<1> SUFFICES ASSUME MarshalInv, seen # <<>>, call # "fb_pointRGB" PROVE seen = args
  BY DEF ArgumentsArrive
<1> DEFINE layout == GuestLayout[call]
<1>1. /\ call \in Guest /\ args \in Arguments(call)
      /\ \A n \in DOMAIN layout : \A i \in Extent(layout[n]) :
           call_buff[i] = Stored(args[n], layout[n], i)
  BY DEF MarshalInv, BufferFilled, BufferFetched
<1>2. seen = [n \in DOMAIN layout |-> Fetched(layout[n])]
  BY <1>1, TablesAgree DEF MarshalInv, BufferFetched
<1>3. /\ args \in [DOMAIN layout -> WordArgs \cup ByteArgs]
      /\ \A n \in DOMAIN layout : args[n] \in ValuesOf(layout[n])
  BY <1>1 DEF Arguments
<1>4. ASSUME NEW n \in DOMAIN layout PROVE Fetched(layout[n]) = args[n]
  <2>1. layout[n] \in (0 .. 8) \X {1, 2}
    BY <1>1, LayoutShapes, ShapesInOrder DEF InOrder
  <2> QED BY <1>1, <1>3, <2>1, RoundTrip
<1> HIDE DEF layout
<1> QED BY <1>2, <1>3, <1>4

\* Every call but fb_pointRGB reaches the host's function with the arguments the
\* program passed to its wrapper, for all values of a word and of a byte
\* (libC_assist.c:32-152, fb.c:453-561).
THEOREM AllArgumentsArrive == MarshalSpec => []ArgumentsArrive
<1>1. MarshalInit => MarshalInv
  BY DEF MarshalInit, MarshalInv, BufferFilled, BufferFetched
<1> QED BY <1>1, MarshalStep, InvArrives, PTL DEF MarshalSpec
=============================================================================
