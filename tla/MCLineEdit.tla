------------------------------ MODULE MCLineEdit ------------------------------
(* A small instance of LineEdit: a prompt of two characters, lines of up to   *)
(* five, and an entry of the history and a completion that the buffer cuts.   *)
EXTENDS LineEdit

TheHint == <<"h", "h">>
ThePrompt == <<">", " ">>
TheEntries == {<<"a", "b">>, <<"a", " ", "a", "b", "a", "a">>}
TheCompletions ==
  {<<>>, << <<"b">>, <<"a", "b", "b", "a">> >>, << <<"a", "b", "b", "a", "a">> >>}
=============================================================================
