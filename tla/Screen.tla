-------------------------------- MODULE Screen -------------------------------
(***************************************************************************)
(* How text gets on the screen: vga_putc of kernel/vga.c in text mode, and *)
(* fb_putc of kernel/fb.c, which draws it into the left part of the        *)
(* framebuffer.  A place <<row, column>> is a character wide and high.     *)
(*                                                                         *)
(* A screen is a record [cells, row, col, gone]: what is in each place,    *)
(* where the next character goes, and, as a history, the rows of text that *)
(* were scrolled off.                                                      *)
(***************************************************************************)
EXTENDS Integers, Sequences

CONSTANTS
  VGA_COLS, VGA_ROWS,    (* 80 and 25 in the code                          *)
  FB_W, FB_H,            (* the whole framebuffer                          *)
  fb_cols, fb_rows,      (* the terminal ends before this column and row   *)
  HEADER_ROWS,           (* and starts in this row, 2 in the code          *)
  CHARS                  (* what is typed                                  *)

(* fb_init: the terminal is the left half, above the taskbar.              *)
ASSUME ScreenAssumption ==
  /\ VGA_COLS \in Nat /\ VGA_COLS >= 2 /\ VGA_ROWS \in Nat \ {0}
  /\ FB_W \in Nat /\ fb_cols = FB_W \div 2 /\ fb_cols >= 2
  /\ FB_H \in Nat /\ fb_rows \in 0..FB_H-1 /\ HEADER_ROWS \in 0..fb_rows-1

BLANK == " "
LF    == "LF"
BS    == "BS"

ASSUME CharsAssumption ==
  CHARS \subseteq STRING \ {LF, BS}

VgaCells == (0..VGA_ROWS-1) \X (0..VGA_COLS-1)
FbCells  == (0..FB_H-1) \X (0..FB_W-1)
Terminal == (HEADER_ROWS..fb_rows-1) \X (0..fb_cols-1)

Put(t, c) == [t.cells EXCEPT ![<<t.row, t.col>>] = c]

RowOf(t, row, cols) == [c \in 0..cols-1 |-> t.cells[<<row, c>>]]

-----------------------------------------------------------------------------
(***************************************************************************)
(* kernel/vga.c                                                            *)
(***************************************************************************)
vga_init ==
  [cells |-> [p \in VgaCells |-> BLANK], row |-> 0, col |-> 0, gone |-> <<>>]

scroll(t) ==
  [t EXCEPT !.cells = [p \in VgaCells |->
                         IF p[1] < VGA_ROWS - 1
                         THEN t.cells[<<p[1] + 1, p[2]>>] ELSE BLANK],
            !.row = VGA_ROWS - 1,
            !.gone = Append(t.gone, RowOf(t, 0, VGA_COLS))]

(* Mutant of vga_next: a row is not left when it is full.                  *)
vga_next_stays(t, c) ==
  IF c = LF THEN [t EXCEPT !.col = 0, !.row = t.row + 1]
  ELSE IF c = BS THEN [t EXCEPT !.col = IF t.col > 0 THEN t.col - 1 ELSE 0]
  ELSE LET full == t.col + 1 >= VGA_COLS
       IN  [t EXCEPT !.cells = Put(t, c),
                     !.col = IF full THEN t.col ELSE t.col + 1]

(* Where a character leaves the screen before it is scrolled               *)
vga_next(t, c) ==
  IF c = LF THEN [t EXCEPT !.col = 0, !.row = t.row + 1]
  ELSE IF c = BS THEN [t EXCEPT !.col = IF t.col > 0 THEN t.col - 1 ELSE 0]
  ELSE LET full == t.col + 1 >= VGA_COLS
       IN  [t EXCEPT !.cells = Put(t, c),
                     !.col = IF full THEN 0 ELSE t.col + 1,
                     !.row = IF full THEN t.row + 1 ELSE t.row]

vga_putc(t, c) ==
  LET next == vga_next(t, c)
  IN  IF next.row >= VGA_ROWS THEN scroll(next) ELSE next

-----------------------------------------------------------------------------
(***************************************************************************)
(* kernel/fb.c                                                             *)
(***************************************************************************)
(* fb_init; what is drawn outside the terminal is not text.                *)
fb_init ==
  [cells |-> [p \in FbCells |-> IF p \in Terminal THEN BLANK ELSE "desk"],
   row |-> HEADER_ROWS, col |-> 0, gone |-> <<>>]

(* Mutant of fb_scroll: whole rows of the screen are moved.                *)
fb_scroll_wide(t) ==
  [t EXCEPT !.cells = [p \in FbCells |->
                         IF p[1] \in HEADER_ROWS..fb_rows-1
                         THEN IF p[1] < fb_rows - 1
                              THEN t.cells[<<p[1] + 1, p[2]>>] ELSE BLANK
                         ELSE t.cells[p]],
            !.row = fb_rows - 1,
            !.gone = Append(t.gone, RowOf(t, HEADER_ROWS, fb_cols))]

(* Mutant of fb_scroll: the last row is not cleared.                       *)
fb_scroll_unblanked(t) ==
  [t EXCEPT !.cells = [p \in FbCells |->
                         IF p \in Terminal /\ p[1] < fb_rows - 1
                         THEN t.cells[<<p[1] + 1, p[2]>>] ELSE t.cells[p]],
            !.row = fb_rows - 1,
            !.gone = Append(t.gone, RowOf(t, HEADER_ROWS, fb_cols))]

fb_scroll(t) ==
  [t EXCEPT !.cells = [p \in FbCells |->
                         IF p \in Terminal
                         THEN IF p[1] < fb_rows - 1
                              THEN t.cells[<<p[1] + 1, p[2]>>] ELSE BLANK
                         ELSE t.cells[p]],
            !.row = fb_rows - 1,
            !.gone = Append(t.gone, RowOf(t, HEADER_ROWS, fb_cols))]

fb_newline(t) ==
  IF t.row + 1 >= fb_rows THEN [fb_scroll(t) EXCEPT !.col = 0]
                          ELSE [t EXCEPT !.row = t.row + 1, !.col = 0]

(* A full row is left when one more character comes.                       *)
fb_putc(t, c) ==
  IF c = LF THEN fb_newline(t)
  ELSE IF c = BS
  THEN IF t.col > 0
       THEN LET back == [t EXCEPT !.col = t.col - 1]
            IN  [back EXCEPT !.cells = Put(back, BLANK)]
       ELSE t
  ELSE LET at == IF t.col >= fb_cols THEN fb_newline(t) ELSE t
       IN  [at EXCEPT !.cells = Put(at, c), !.col = at.col + 1]

(* fb_draw_taskbar, fb_draw_node_grid and fb_draw_node_detail fill what is  *)
(* neither terminal nor header.                                            *)
Around(p) == p[1] >= HEADER_ROWS /\ p \notin Terminal

Redrawn(t, ink) ==
  [t EXCEPT !.cells =
     [p \in FbCells |-> IF Around(p) THEN ink ELSE t.cells[p]]]

-----------------------------------------------------------------------------
(* "\b \b", which the shell prints when a character is erased              *)
fb_erase(t) ==
  LET back  == fb_putc(t, BS)
      space == fb_putc(back, BLANK)
  IN  fb_putc(space, BS)

vga_erase(t) ==
  LET back  == vga_putc(t, BS)
      space == vga_putc(back, BLANK)
  IN  vga_putc(space, BS)

(* n new lines                                                             *)
fb_feed(t, n) ==
  LET f[i \in 0..n] == IF i = 0 THEN t ELSE LET u == f[i-1] IN fb_putc(u, LF)
  IN  f[n]

vga_feed(t, n) ==
  LET f[i \in 0..n] == IF i = 0 THEN t ELSE LET u == f[i-1] IN vga_putc(u, LF)
  IN  f[n]
=============================================================================
