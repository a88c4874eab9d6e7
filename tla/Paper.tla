-------------------------------- MODULE Paper --------------------------------
(***************************************************************************)
(* What a console promises: it prints on a roll of paper that never ends.  *)
(* The screen shows the last rows of it.                                   *)
(***************************************************************************)
EXTENDS Integers, Sequences

CONSTANTS
  COLS,          (* characters in a row                                    *)
  EAGER,         (* whether a row that is full is left at once, or only    *)
                 (* when one more character comes                          *)
  CHARS,
  FEEDS          (* how many new lines a single command may print          *)

VARIABLES paper, head

BLANK    == " "
BlankRow == [c \in 0..COLS-1 |-> BLANK]

Init == paper = <<BlankRow>> /\ head = 0

Put(rows, col, c) == [rows EXCEPT ![Len(rows)] = [@ EXCEPT ![col] = c]]

Write(c) ==
  IF head = COLS
  THEN /\ paper' = Put(Append(paper, BlankRow), 0, c)
       /\ head' = 1
  ELSE IF EAGER /\ head = COLS - 1
  THEN /\ paper' = Append(Put(paper, head, c), BlankRow)
       /\ head' = 0
  ELSE /\ paper' = Put(paper, head, c)
       /\ head' = head + 1

(* What was printed in the row the head is in can be erased.               *)
Erase ==
  /\ head' = IF head > 0 THEN head - 1 ELSE 0
  /\ paper' = Put(paper, head', BLANK)

Feed(n) ==
  /\ paper' = paper \o [i \in 1..n |-> BlankRow]
  /\ head' = 0

Next ==
  \/ \E c \in CHARS : Write(c)
  \/ Erase
  \/ \E n \in FEEDS : Feed(n)

Spec == Init /\ [][Next]_<<paper, head>>
=============================================================================
