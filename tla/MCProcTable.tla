----------------------------- MODULE MCProcTable -----------------------------
(***************************************************************************)
(* The process table on small instances.  The words of flags are chosen by *)
(* what the arc makes of them.                                             *)
(***************************************************************************)
EXTENDS ProcTable

Trusted  == 1..7      \* 0x0FE  PERFECT
Settles  == 4..11     \* 0xFF0  RECOVERY, then SETTLED
Swings   == 0..3      \* 0x00F  FRICTION after eight evaluations
NoFlags  == {}        \* 0x000  EXCISED

MCFlags == {Settles, Swings, NoFlags}

(* A node that fails before one that does not: its entry is used again.    *)
MCNodes == [i \in 0..1 |-> IF i = 0 THEN NoFlags ELSE Trusted]
=============================================================================
