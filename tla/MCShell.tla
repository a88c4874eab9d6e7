------------------------------ MODULE MCShell --------------------------------
(* The lines of `help` in a buffer in which the longest of them just fits: *)
(* those with an argument with one of one character, the others with a     *)
(* space behind them; one with a space too many before and behind its      *)
(* word, and a line that does not fit.  Enter ends each of them anywhere.  *)
EXTENDS Shell

MCLines ==
  {h.verb \o (IF h.arg THEN <<" ", "1">> ELSE <<" ">>) : h \in Help}
  \cup {<<"e", "c", "h", "o", " ", "1", "2", "3", "4", "5">>,
        <<" ", "k", "i", "l", "l", " ", " ", "1">>,
        <<" ", " ", "p", "s", " ">>}
=============================================================================
