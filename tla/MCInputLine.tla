----------------------------- MODULE MCInputLine -----------------------------
(* TLC instance of InputLine.                                               *)
EXTENDS InputLine

\* A command with an argument of its own, and one whose name ends like it.
MCCommands == <<<<"n">>, <<"t", "n">>>>
MCThemed == {<<"n">>}
MCValues == <<<<"t">>>>
=============================================================================
