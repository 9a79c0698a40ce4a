-------------------------------- MODULE ZText --------------------------------
(***************************************************************************)
(* The texts of the Z-machine: decode_zscii, which prints what the story   *)
(* holds as z-characters of five bits, and tokenizeUserInput, which cuts   *)
(* what the player types into words and looks them up in the story's       *)
(* dictionary (native/C/z-machine/mojozork.c, stories of version 3).       *)
(*                                                                         *)
(* A character is <<alphabet, z>>: the row of the alphabet table and the   *)
(* z-character that stands for it there.  Row 3 is for characters given by *)
(* their ZSCII code; the end of a line is one as well.                     *)
(***************************************************************************)
EXTENDS Integers, SequencesExt, FiniteSets

CONSTANTS Strings,        \* the z-characters of the texts the story prints
          Abbreviations,  \* those of its abbreviations, by index
          BufferSizes,    \* the room for what is decoded
          Lines,          \* what the player types
          ParseSizes,     \* the words the story has room for
          Separators,     \* the characters its dictionary names as separators
          Dictionary,     \* the words in it, in order
          Significant,    \* the z-characters of a dictionary entry: 6
          Room            \* those the tokenizer collects of a word: 12

ASSUME RoomAssumption == Significant \in Nat /\ Room \in Nat /\ Significant <= Room
ASSUME DictionaryAssumption == \A n \in DOMAIN Dictionary : Len(Dictionary[n]) > 0

VARIABLES call,   \* the instruction: <<"none">>, <<"print", ...>> or <<"read", ...>>
          result  \* what it has left in the buffer

vars == <<call, result>>

Space   == <<0, 0>>
EndLine == <<3, 0>>

-----------------------------------------------------------------------------
(***************************************************************************)
(* decode_zscii.                                                           *)
(***************************************************************************)
\* decode_zscii_char
Zscii(code) == IF code = 0 THEN <<>>
               ELSE IF code \in 32 .. 126 \cup {13} THEN << <<3, code>> >>
               ELSE << <<3, 63>> >>

Fresh(size) == [alphabet |-> 0, table |-> 0, collect |-> 0, code |-> 0,
                buf |-> <<>>, buflen |-> size, count |-> 0, died |-> FALSE]

\* A character counts even if the buffer is full.
Emit(d, chars) ==
    IF chars = <<>> THEN d
    ELSE [d EXCEPT !.count = @ + 1,
                   !.buf = IF d.buflen > 0 THEN @ \o chars ELSE @,
                   !.buflen = IF @ > 0 THEN @ - 1 ELSE 0]

\* The two halves of a ZSCII code.
Collected(d, z) ==
    LET code == IF d.collect = 2 THEN d.code + z * 32 ELSE d.code + z
    IN  IF d.collect = 2 THEN [d EXCEPT !.code = code, !.collect = 1]
        ELSE [Emit(d, Zscii(code)) EXCEPT !.code = 0, !.collect = 0, !.alphabet = 0]

\* What an abbreviation has left of the buffer.
Expanded(d, inner) ==
    [d EXCEPT !.buf = @ \o inner.buf,
              !.count = @ + inner.count,
              !.buflen = IF @ < inner.count THEN 0 ELSE @ - inner.count,
              !.table = 0, !.alphabet = 0, !.died = inner.died]

\* Mutant: a shift stays.
Plain_locked(d, z) ==
    CASE z = 0      -> Emit(d, <<Space>>)
      [] z \in 1..3 -> [d EXCEPT !.table = z, !.alphabet = 0]
      [] z \in 4..5 -> [d EXCEPT !.alphabet = z - 3]
      [] z = 6 /\ d.alphabet = 2 -> [d EXCEPT !.collect = 2, !.alphabet = 0]
      [] OTHER -> Emit(d, << <<d.alphabet, z>> >>)

\* A shift holds for one z-character, whatever it is.
Plain(d, z) ==
    CASE z = 0      -> [Emit(d, <<Space>>) EXCEPT !.alphabet = 0]
      [] z \in 1..3 -> [d EXCEPT !.table = z, !.alphabet = 0]
      [] z \in 4..5 -> [d EXCEPT !.alphabet = z - 3]
      [] z = 6 /\ d.alphabet = 2 -> [d EXCEPT !.collect = 2, !.alphabet = 0]
      [] OTHER -> [Emit(d, << <<d.alphabet, z>> >>) EXCEPT !.alphabet = 0]

RECURSIVE Decode(_, _, _)
Decode(string, abbr, size) ==
    FoldLeft(LAMBDA d, z :
               IF d.died THEN d
               ELSE IF d.collect > 0 THEN Collected(d, z)
               ELSE IF d.table > 0 THEN
                   IF abbr THEN [d EXCEPT !.died = TRUE]
                   ELSE Expanded(d, Decode(Abbreviations[32 * (d.table - 1) + z],
                                           TRUE, d.buflen))
               ELSE Plain(d, z),
             Fresh(size), string)

-----------------------------------------------------------------------------
(***************************************************************************)
(* tokenizeUserInput.                                                      *)
(***************************************************************************)
\* opcode_read: the line as it is handed on.
Lower(line) == [n \in DOMAIN line |->
                  IF line[n][1] = 1 THEN <<0, line[n][2]>> ELSE line[n]]

\* The z-characters of a character; nothing for one that is in no table.
Zchars(ch) == CASE ch[1] \in {0, 1} /\ ch[2] >= 6 -> <<ch[2]>>
                [] ch[1] = 2 /\ ch[2] >= 7        -> <<3, ch[2]>>
                [] OTHER                          -> <<>>

\* Mutant: a long word is skipped.
Collect_none(word) == IF Len(word) > Significant THEN <<>>
                      ELSE FlattenSeq([n \in DOMAIN word |-> Zchars(word[n])])

\* The array is looked at after each character, which may have stored two.
Collect(word) ==
    FoldLeft(LAMBDA zs, ch : IF Len(zs) >= Room THEN zs ELSE zs \o Zchars(ch),
             <<>>, word)

Padded(zs) == [n \in 1 .. Significant |-> IF n \in DOMAIN zs THEN zs[n] ELSE 5]

\* The entry a compiler makes of a word (external): 5 shifts to the third row.
Entry(word) ==
    Padded(FlattenSeq([n \in DOMAIN word |->
               IF word[n][1] = 2 THEN <<5, word[n][2]>> ELSE <<word[n][2]>>]))

\* The number of the first entry equal to an encoded word, 0 if there is none.
Lookup(encoded) ==
    LET found == {n \in DOMAIN Dictionary : Entry(Dictionary[n]) = encoded}
    IN  IF found = {} THEN 0 ELSE CHOOSE n \in found : \A k \in found : n <= k

IsSeparator(ch) == ch \in Separators \cup {Space, EndLine}

\* Mutant: the next word starts at the separator.
After_at(end) == end

\* Where the next word starts.
After(end) == end + 1

\* One character of the line, at index end: a separator ends the word since start.
\* If there is none, the rest of the line is given up.
Token(parselen, t, end, ch) ==
    LET word == SubSeq(t.line, t.start + 1, end)
    IN  IF t.done \/ ~ IsSeparator(ch) THEN t
        ELSE IF word = <<>> THEN [t EXCEPT !.done = TRUE]
        ELSE [t EXCEPT
                !.tokens = Append(@, [entry |-> Lookup(Padded(Collect(word))),
                                      length |-> Len(word), position |-> t.start + 1]),
                !.overrun = @ \/ Len(Collect(word)) > Room,
                !.start = After(end),
                !.done = Len(t.tokens) + 1 >= parselen]

Tokenize(line, parselen) ==
    LET text == Append(line, EndLine)
    IN  FoldLeft(LAMBDA t, n : Token(parselen, t, n - 1, text[n]),
                 [line |-> line, start |-> 0, tokens |-> <<>>, done |-> FALSE,
                  overrun |-> FALSE],
                 [n \in DOMAIN text |-> n])

-----------------------------------------------------------------------------
NoCall == <<"none">>

TextInit == call = NoCall /\ result = <<>>

\* print, print_obj, print_addr, print_paddr, and the status bar
PrintText(string, size) ==
    /\ call' = <<"print", string, size>>
    /\ result' = Decode(string, FALSE, size)

\* opcode_read, when the line has come and is no command to the interpreter
ReadLine(line, parselen) ==
    /\ call' = <<"read", line, parselen>>
    /\ result' = Tokenize(Lower(line), parselen)

NextInstruction ==
    /\ call # NoCall
    /\ call' = NoCall
    /\ result' = <<>>

TextNext ==
    \/ /\ call = NoCall
       /\ \/ \E string \in Strings, size \in BufferSizes : PrintText(string, size)
          \/ \E line \in Lines, parselen \in ParseSizes : ReadLine(line, parselen)
    \/ NextInstruction

TextSpec == TextInit /\ [][TextNext]_vars

-----------------------------------------------------------------------------
(***************************************************************************)
(* Reference: the text of a string, by what its z-characters mean.         *)
(***************************************************************************)
From(string, n) == SubSeq(string, n, Len(string))

RECURSIVE Meaning(_)
Meaning(string) ==
    IF string = <<>> THEN <<>>
    ELSE LET z == string[1]
             y == string[2]
         IN  CASE z = 0 -> <<Space>> \o Meaning(From(string, 2))
               [] z >= 6 -> << <<0, z>> >> \o Meaning(From(string, 2))
               [] z \in 1 .. 5 /\ Len(string) = 1 -> <<>>
               [] z \in 1 .. 3 /\ Len(string) > 1 ->
                    Meaning(Abbreviations[32 * (z - 1) + y]) \o Meaning(From(string, 3))
               [] z \in 4 .. 5 /\ Len(string) > 1 /\ y < 6 -> Meaning(From(string, 2))
               [] z = 5 /\ Len(string) > 1 /\ y = 6 ->
                    IF Len(string) < 4 THEN <<>>
                    ELSE Zscii(32 * string[3] + string[4]) \o Meaning(From(string, 5))
               [] OTHER -> << <<z - 3, y>> >> \o Meaning(From(string, 3))

\* The words of a line: the longest stretches without a separator.
WordsOf(line) ==
    LET text == Append(line, EndLine)
        ends == {n \in 1 .. Len(line) : ~ IsSeparator(line[n]) /\ IsSeparator(text[n + 1])}
        start(end) == CHOOSE m \in 1 .. end :
                        /\ m = 1 \/ IsSeparator(line[m - 1])
                        /\ \A k \in m .. end : ~ IsSeparator(line[k])
    IN  [k \in 1 .. Cardinality(ends) |->
            LET end == CHOOSE n \in ends : Cardinality({m \in ends : m <= n}) = k
            IN  [position |-> start(end), length |-> end - start(end) + 1]]

Shortest(a, b) == IF a < b THEN a ELSE b

\* Separators that do not stand alone, or come first.
Crowded(line) == \E n \in DOMAIN line : /\ IsSeparator(line[n])
                                        /\ n = 1 \/ IsSeparator(line[n - 1])

IsLetter(ch) == ch[1] = 0 /\ ch[2] >= 6

-----------------------------------------------------------------------------
(***************************************************************************)
(* Properties.                                                             *)
(***************************************************************************)
\* Whatever mixes of shifts, codes and abbreviations a string is made of, complete
\* or cut short at its end, the decoder finds its text, puts as much of it into
\* the buffer as fits, in the middle of an abbreviation too, and returns how long
\* it is, on which print_zscii relies when it makes room (mojozork.c:946-1095).
TextDecoded ==
    call[1] = "print" /\ ~ result.died =>
        LET text == Meaning(call[2])
        IN  /\ result.count = Len(text)
            /\ result.buf = SubSeq(text, 1, Shortest(call[3], Len(text)))

\* The tokens are the first words of the line, each with its place and length;
\* all of them that fit the story's buffer, unless a separator follows another
\* one, or comes first, where the tokenizer stops; and unless a word's z-characters
\* were written beyond their array, whose effect is undefined (mojozork.c:1205-1324).
TokensAreWords ==
    call[1] = "read" /\ ~ result.overrun =>
        LET line  == Lower(call[2])
            words == WordsOf(line)
            tokens == result.tokens
        IN  /\ Len(tokens) <= Shortest(call[3], Len(words))
            /\ \A n \in DOMAIN tokens : /\ tokens[n].position = words[n].position
                                        /\ tokens[n].length = words[n].length
            /\ ~ Crowded(line) => Len(tokens) = Shortest(call[3], Len(words))

\* A word of letters is found in the dictionary exactly if a word there has the
\* same first letters, as many as an entry holds, and reads back as they.  Words
\* with other characters are left out: they are encoded with a shift that the decoder
\* takes for an abbreviation (mojozork.c:1230-1307).
WordsRecognised ==
    call[1] = "read" /\ ~ result.overrun =>
        \A n \in DOMAIN result.tokens :
            LET token == result.tokens[n]
                word  == SubSeq(Lower(call[2]), token.position,
                                token.position + token.length - 1)
                known(k) == /\ \A i \in 1 .. Significant :
                                  (i \in DOMAIN Dictionary[k]) = (i \in DOMAIN word)
                            /\ \A i \in 1 .. Shortest(Significant, Len(word)) :
                                  Dictionary[k][i] = word[i]
            IN  (\A i \in DOMAIN word : IsLetter(word[i])) =>
                  /\ (token.entry # 0) = (\E k \in DOMAIN Dictionary : known(k))
                  /\ token.entry # 0 => known(token.entry)
                  /\ Meaning(Padded(Collect(word)))
                       = SubSeq(word, 1, Shortest(Significant, Len(word)))
=============================================================================
