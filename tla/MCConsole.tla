----------------------------- MODULE MCConsole -----------------------------
(***************************************************************************)
(* The names of the commands have one or two letters, and everything up to *)
(* the longest line may be typed.                                          *)
(***************************************************************************)
EXTENDS Console

Command(name, does) == [name |-> name, params |-> 0, does |-> does]

Alphabet == {"i", "e", "n", "f", "o", "x", " ", "NUL"}

\* A name may be the beginning of another's, and each has a letter in
\* common with another.
SmallCommands ==
  <<Command(<<"i", "i">>, "help"), Command(<<"i">>, "info"), Command(<<"e">>, "erase"),
    Command(<<"e", "i">>, "program"), Command(<<"e", "e">>, "status")>>

SmallLines == UNION {[1 .. n -> {"i", "e", " "}] : n \in 0 .. 3}

SmallStack == {[i \in 0 .. BufSize - 1 |-> ch] : ch \in {" ", "i"}}

\* In a session "i" and "ii" are records, and what begins with "ee" would
\* end the file, were it accepted.
SmallAccepts(line) == line \in {<<"i">>, <<"i", "i">>, <<"e", "e">>}
SmallEnds(line)    == Len(line) >= 2 /\ SubSeq(line, 1, 2) = <<"e", "e">>

\* What the refinement is proved under.
ASSUME SmallAssumption == NamesApart /\ FewWords
============================================================================
