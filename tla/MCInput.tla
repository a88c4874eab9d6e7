------------------------------ MODULE MCInput --------------------------------
EXTENDS Input

(* A byte that cannot start a packet and is no scan code, and one that     *)
(* passes for both, and for a packet with the button down                  *)
MCBody == {[sync |-> FALSE, down |-> FALSE, char |-> FALSE],
           [sync |-> TRUE,  down |-> TRUE,  char |-> TRUE]}
=============================================================================
