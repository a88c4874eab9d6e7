----------------------------- MODULE MCDesktop -------------------------------
EXTENDS Desktop

(* A pointer that inks three of the four places it covers                  *)
MCShape == {<<0, 0>>, <<1, 0>>, <<1, 1>>}

(* Over the header and the terminal; half on the terminal and half on the  *)
(* panel; at its last row, half on the taskbar; and cut off at the right   *)
(* edge, at the lower edge and at both.                                    *)
MCSpots == {<<0, 0>>, <<1, 1>>, <<2, 0>>, <<1, 3>>, <<3, 2>>, <<3, 3>>}
=============================================================================
