------------------------------ MODULE MCZText ------------------------------
(***************************************************************************)
(* Every string of one or two words of three z-characters, among them a    *)
(* space, the shifts, an abbreviation and the start of a code; every line  *)
(* of up to five characters of each kind, with entries of two z-characters *)
(* instead of six and room for four instead of twelve, so that longer      *)
(* words occur.                                                            *)
(***************************************************************************)
EXTENDS ZText

UpTo(S, n) == UNION {[1 .. k -> S] : k \in 0 .. n}

MCStrings == UNION {[1 .. k -> {0, 1, 4, 5, 6, 7}] : k \in {3, 6}}
\* By 1 and a z-character: two letters and a shift, another abbreviation, a code
\* that lacks its second half, nothing.
MCAbbreviations == [index \in 0 .. 31 |->
    CASE index = 0 -> <<6, 7, 4>>
      [] index = 1 -> <<7, 1, 0>>
      [] index = 4 -> <<5, 6, 1>>
      [] OTHER     -> <<5, 7, 0>>]
MCBufferSizes == {0, 2, 9}

a == <<0, 6>>
b == <<0, 7>>
Capital == <<1, 6>>
Digit   == <<2, 9>>
Comma   == <<2, 19>>
MCLines == UpTo({a, b, Capital, Digit, Comma, Space, <<3, 64>>}, 5)
MCParseSizes == {1, 2, 5}
MCSeparators == {Comma}
MCDictionary == << <<a>>, <<a, b>>, <<b, a, a>>, <<Digit>> >>
MCSignificant == 2
MCRoom == 4
=============================================================================
