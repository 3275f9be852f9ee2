----------------------------- MODULE MCLinenoise -----------------------------
(* Small instances of Linenoise for TLC. *)
EXTENDS Linenoise

\* With room for two characters: nothing, and a line that fills the buffer.
MCTyped == {<<>>, <<"a", "a">>}

\* A line longer than the buffer, with a '\r' in it.
MCGiven == {<<"a", "r", "a">>}
=============================================================================
