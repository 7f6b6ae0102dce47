----------------------------- MODULE ConsoleText -----------------------------
(***************************************************************************)
(* What is typed into the console and what it writes.  A line is a         *)
(* sequence of characters; an answer is a sequence of pieces, each named   *)
(* by who writes it and its number.                                        *)
(***************************************************************************)
EXTENDS Integers, Sequences

CONSTANTS
  Character,   \* what a char of the buffer may hold
  Lines,       \* the lines the user may type
  Commands,    \* the registered commands, in order: [name, params, does]
  InfoPieces,  \* calls of cmd_info until it is done
  Pages,       \* pages of the application area
  Accepts(_),  \* whether a line is a record that hex_parser_feed accepts
  Ends(_)      \* whether it begins with :00000001FF

Handlers == {"help", "info", "erase", "program", "status"}

Space == " "
NUL   == "NUL"

ASSUME TextAssumption ==
  /\ NUL \in Character /\ Space \in Character
  /\ Lines \subseteq Seq(Character \ {NUL, "CR", "LF", "BS"})
  /\ Commands \in Seq([name : Seq(Character \ {NUL}), params : Nat, does : Handlers])
  /\ InfoPieces \in Nat \ {0} /\ Pages \in Nat

Chars == UNION {{l[i] : i \in DOMAIN l} : l \in Lines}

\* A text that can still become one of Lines.
CanBe(text) == \E l \in Lines : Len(text) <= Len(l) /\ SubSeq(l, 1, Len(text)) = text

Piece(what, k)  == [of |-> what, n |-> k]
Record(text)    == [of |-> "record", text |-> text]
Report(texts)   == [of |-> "report", text |-> texts]
Echo(ch)        == [of |-> "echo", ch |-> ch]
NewLine         == [of |-> "newline"]
Nothing         == [of |-> "nothing"]
Note(what, text) == [of |-> what, text |-> text]

\* Why on_flash_word may have refused a record, if it did.
Causes == {<<>>, <<Note("Flash error", <<>>)>>, <<Note("Access out of app", <<>>)>>}
=============================================================================
