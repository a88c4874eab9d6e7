------------------------------- MODULE Desktop -------------------------------
(***************************************************************************)
(* The pointer of the mouse on the framebuffer: fb_draw_cursor keeps what  *)
(* it draws over, and fb_erase_cursor puts it back.  Text that is printed, *)
(* and the panel and taskbar when they are drawn anew, take no notice of   *)
(* the pointer.                                                            *)
(***************************************************************************)
EXTENDS Console

CONSTANTS
  SHAPE,         (* the places, from its own <<0, 0>> on, the pointer inks *)
  CUR_H, CUR_W,  (* how high and wide it is                                *)
  SPOTS          (* bound: the places it is moved to                       *)

ASSUME DesktopAssumption ==
  /\ CUR_H \in Nat \ {0} /\ CUR_W \in Nat \ {0} /\ SPOTS \subseteq FbCells
  /\ SHAPE \subseteq ((0..CUR_H-1) \X (0..CUR_W-1))

VARIABLES
  shown,         (* the screen as it is; fb is what it would be without a  *)
                 (* pointer                                                *)
  cur_s,         (* where the pointer was drawn, or None                   *)
  cur_saved,     (* what was there                                         *)
  stained        (* history: a place under the pointer has changed, or the *)
                 (* pointer was scrolled                                   *)

vars == <<console_vars, shown, cur_s, cur_saved, stained>>

INK   == "ink"
None  == <<>>
Cover == (0..CUR_H-1) \X (0..CUR_W-1)

Init ==
  /\ ConsoleInit /\ shown = fb_init
  /\ cur_s = None /\ cur_saved = <<>>
  /\ stained = FALSE

-----------------------------------------------------------------------------
(* The places of the screen the pointer covers when it is drawn at p: at   *)
(* the right and lower edge a part of it is cut off.                       *)
At(p, places) ==
  {<<p[1] + o[1], p[2] + o[2]>> : o \in places} \cap FbCells

(* Mutant of fb_erase_cursor: only what the pointer has inked is put back, *)
(* one column short.                                                       *)
fb_erase_cursor_short(t) ==
  IF cur_s = None THEN t
  ELSE [t EXCEPT !.cells =
          [p \in FbCells |->
             IF p \in At(cur_s, {o \in SHAPE : o[2] < CUR_W - 1})
             THEN cur_saved[p] ELSE t.cells[p]]]

fb_erase_cursor(t) ==
  IF cur_s = None THEN t
  ELSE [t EXCEPT !.cells =
          [p \in FbCells |->
             IF p \in At(cur_s, Cover) THEN cur_saved[p] ELSE t.cells[p]]]

fb_draw_cursor(t, at) ==
  /\ cur_s' = at
  /\ cur_saved' = [p \in At(at, Cover) |-> t.cells[p]]
  /\ shown' = [t EXCEPT !.cells =
              [p \in FbCells |-> IF p \in At(at, SHAPE) THEN INK ELSE t.cells[p]]]

(* The loop finds that the pointer was moved, or draws it for the first    *)
(* time.                                                                   *)
move(at) ==
  /\ at # cur_s
  /\ LET t == fb_erase_cursor(shown) IN fb_draw_cursor(t, at)
  /\ UNCHANGED <<console_vars, stained>>

Under == IF cur_s = None THEN {} ELSE At(cur_s, Cover)

(* What is drawn is drawn on the screen as it is, and stains it when it    *)
(* changes what the pointer covers, or scrolls it.                         *)
Draw(new, scrolled) ==
  /\ shown' = new
  /\ stained' = (stained \/ (\E p \in Under : fb.cells[p] # fb'.cells[p])
                         \/ (scrolled /\ Under \cap Terminal # {}))
  /\ UNCHANGED <<cur_s, cur_saved>>

Scrolls(n) == fb.row + n >= fb_rows

(* Bound: the screen is followed until it is stained.                      *)
Next ==
  /\ ~ stained
  /\ \/ \E at \in SPOTS : move(at)
     \/ \E c \in CHARS :
          type(c) /\ Draw(fb_putc(shown, c), fb.col >= fb_cols /\ Scrolls(1))
     \/ erase /\ Draw(fb_erase(shown), FALSE)
     \/ newline /\ Draw(fb_putc(shown, LF), Scrolls(1))
     \/ cmd_clear /\ Draw(fb_feed(shown, CLEAR_LINES), Scrolls(CLEAR_LINES))
     \/ \E ink \in DESKS : refresh(ink) /\ Draw(Redrawn(shown, ink), FALSE)

Spec == Init /\ [][Next]_vars

-----------------------------------------------------------------------------
(***************************************************************************)
(* Properties.                                                             *)
(***************************************************************************)
(* As long as nothing has changed under the pointer, it can be lifted from *)
(* the screen without a trace, wherever it was moved before and however it *)
(* was cut off at the edges.                                               *)
Lifted == fb_erase_cursor(shown)

PointerLeavesNoTrace == ~ stained => Lifted = fb

-----------------------------------------------------------------------------
(* "cursor save-behind": what the pointer puts back when it is lifted is   *)
(* what is on the screen behind it.                                        *)
SavedIsBehind == Lifted = fb
=============================================================================
