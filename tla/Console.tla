------------------------------- MODULE Console -------------------------------
(***************************************************************************)
(* serial_putc of kernel/serial.c prints every character on both screens;  *)
(* what the shell prints is what is typed, what is erased, new lines, and  *)
(* the forty new lines of `clear`.  After a command and after a click the  *)
(* shell draws panel and taskbar, beside the terminal.                     *)
(***************************************************************************)
EXTENDS Screen

CONSTANTS
  CLEAR_LINES,   (* 40 in the code: more than VGA_ROWS, and less than the  *)
                 (* rows of a terminal on a framebuffer of 600 lines       *)
  MaxPrinted     (* bound: how often something is printed                  *)

ASSUME ConsoleAssumption ==
  /\ CLEAR_LINES \in Nat \ {0} /\ CLEAR_LINES >= VGA_ROWS
  /\ MaxPrinted \in Nat

VARIABLES
  vga, fb,       (* the two screens                                        *)
  desk,          (* what panel and taskbar show                            *)
  printed,       (* history: how often something was printed               *)
  cleared        (* history: `clear` came last                             *)

console_vars == <<vga, fb, desk, printed, cleared>>

DESKS == {"desk", "desk2"}

ConsoleInit ==
  /\ vga = vga_init /\ fb = fb_init /\ desk = "desk"
  /\ printed = 0 /\ cleared = FALSE

print ==
  printed < MaxPrinted /\ printed' = printed + 1 /\ UNCHANGED desk

type(c) ==
  /\ print
  /\ vga' = vga_putc(vga, c) /\ fb' = fb_putc(fb, c) /\ cleared' = FALSE

erase ==
  /\ print
  /\ vga' = vga_erase(vga) /\ fb' = fb_erase(fb) /\ cleared' = FALSE

newline ==
  /\ print
  /\ vga' = vga_putc(vga, LF) /\ fb' = fb_putc(fb, LF) /\ cleared' = FALSE

cmd_clear ==
  /\ print
  /\ vga' = vga_feed(vga, CLEAR_LINES) /\ fb' = fb_feed(fb, CLEAR_LINES)
  /\ cleared' = TRUE

refresh(ink) ==
  /\ fb' = Redrawn(fb, ink) /\ desk' = ink
  /\ UNCHANGED <<vga, printed, cleared>>

-----------------------------------------------------------------------------
(***************************************************************************)
(* Properties.                                                             *)
(***************************************************************************)
(* Whatever is printed, the terminal leaves the header, the panel of nodes *)
(* and the taskbar alone.                                                  *)
TerminalKeepsToItself ==
  \A p \in FbCells \ Terminal :
    fb.cells[p] = IF Around(p) THEN desk ELSE "desk"

(* Both screens show the end of what was printed: no row is lost, printed  *)
(* over or shown twice when the screen scrolls or the panel is drawn, and  *)
(* what is below the last row is blank.                                    *)
Shown(t, top, cols) ==
  t.gone \o [i \in 1..t.row - top + 1 |-> RowOf(t, top + i - 1, cols)]

Feeds == {1, CLEAR_LINES}

OnVga == INSTANCE Paper WITH
  COLS <- VGA_COLS, EAGER <- TRUE, FEEDS <- Feeds,
  paper <- Shown(vga, 0, VGA_COLS), head <- vga.col

OnFb == INSTANCE Paper WITH
  COLS <- fb_cols, EAGER <- FALSE, FEEDS <- Feeds,
  paper <- Shown(fb, HEADER_ROWS, fb_cols), head <- fb.col

VgaIsPaper == OnVga!Spec
FbIsPaper  == OnFb!Spec

-----------------------------------------------------------------------------
(* "clear             clear terminal": after `clear` the terminal on the   *)
(* framebuffer is blank.                                                   *)
ClearClearsTerminal ==
  cleared => \A p \in Terminal : fb.cells[p] = BLANK
=============================================================================
