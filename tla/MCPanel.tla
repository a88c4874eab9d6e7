------------------------------ MODULE MCPanel --------------------------------
EXTENDS Panel

(* The smallest screens whose squares have a size of their own, a wide one *)
(* and one high enough for the box under the squares                       *)
MCSizes == {<<142, 102>>, <<143, 197>>}

(* Steps that meet squares and gaps, and the bounds of the screen on every *)
(* side                                                                    *)
MCMoves == {-37, 0, 37}

(* A move too far for a signed byte                                        *)
MCFarMoves == {0, 200}
=============================================================================
