------------------------------- MODULE Player --------------------------------
(***************************************************************************)
(* What kernel/audio.c promises: notes are played one at a time in the     *)
(* order they were asked for, the speaker sounds only the note that is     *)
(* played, and of what is asked for as much is kept as there is room for,  *)
(* from its beginning.                                                     *)
(***************************************************************************)
EXTENDS Integers, Sequences

CONSTANTS
  CAPACITY,    (* how many notes can wait, the one that is played included *)
  Bursts       (* what one command may ask for: sequences of notes         *)

VARIABLES
  notes,       (* the notes that wait, the one that is played first        *)
  playing,     (* a note is played                                         *)
  speaker      (* what sounds, 0 for nothing                               *)

vars == <<notes, playing, speaker>>

Kept(s) == SubSeq(s, 1, IF Len(s) <= CAPACITY THEN Len(s) ELSE CAPACITY)

Init == notes = <<>> /\ playing = FALSE /\ speaker = 0

Ask(burst) ==
  /\ notes' = Kept(notes \o burst)
  /\ UNCHANGED <<playing, speaker>>

Replace(burst) ==
  /\ notes' = Kept(burst)
  /\ playing' = FALSE
  /\ speaker' = 0

(* A note is started; when nothing waits, the player may find one itself.  *)
Start ==
  /\ ~ playing
  /\ \/ notes # <<>> /\ notes' = notes
     \/ notes = <<>> /\ \E burst \in Bursts : notes' = Kept(burst)
  /\ notes' # <<>>
  /\ playing' = TRUE
  /\ speaker' = Head(notes').freq

(* The note that is played comes to its end; when it was the last, the     *)
(* player may find another.                                                *)
Finish ==
  /\ playing
  /\ \/ notes' = Tail(notes)
     \/ Tail(notes) = <<>> /\ \E burst \in Bursts : notes' = Kept(burst)
  /\ playing' = FALSE
  /\ speaker' = 0

Next == \/ \E burst \in Bursts : Ask(burst) \/ Replace(burst)
        \/ Start
        \/ Finish

Spec == Init /\ [][Next]_vars
=============================================================================
