---------------------------- MODULE MCDuplicates ----------------------------
EXTENDS Duplicates

\* One file with two functions, two with one.
MCSiteFile == [s \in 1..4 |-> CASE s \in 1..2 -> "f" [] s = 3 -> "g" [] OTHER -> "h"]

\* The functions a file may have: a loop, its verbatim and its renamed copy,
\* one with a little more, one with much more, one without control flow.
MCUnit(kind) ==
  LET of(shape, raw, call, fps) ==
        [shape |-> shape, raw |-> raw, call |-> call, fps |-> fps, significant |-> fps # {}]
  IN CASE kind = "loop" -> of("l", "a", "c", {1, 2, 3})
       [] kind = "renamed" -> of("l", "b", "d", {1, 2, 3})
       [] kind = "more" -> of("m", "e", "c", {1, 2, 3, 4})
       [] kind = "much" -> of("n", "i", "none", {1, 2, 5, 6, 7})
       [] OTHER -> of("p", "p", "c", {})

\* A content names the function at each site of its file.
MCUnitOf(t, s) == MCUnit(IF s = 2 THEN t[2] ELSE t[1])
MCTextsOf(f) == CASE f = "f" -> {<<"loop", "renamed">>, <<"more", "plain">>}
                  [] f = "g" -> {<<"loop", "">>, <<"much", "">>}
                  [] OTHER -> {<<"loop", "">>}
MCTexts == UNION {MCTextsOf(f) : f \in SourceFiles}
=============================================================================
