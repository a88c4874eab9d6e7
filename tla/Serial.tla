-------------------------------- MODULE Serial -------------------------------
(***************************************************************************)
(* The serial port that kernel/serial.c prints to, for the modules that    *)
(* print.  What is printed matters as a number of characters only.  The    *)
(* port is external: it takes one character and sends it in its own time.  *)
(***************************************************************************)
EXTENDS Naturals

VARIABLES
  left,          (* characters of the text that are still to be printed    *)
  held           (* characters the transmitter holds, none or one          *)

line == <<left, held>>

LineInit == left = 0 /\ held = 0

(* Nothing goes on before a text is printed to its end.                    *)
Printed == left = 0

(* serial_puts is called; of the last text a character may still be held.  *)
serial_puts(n) ==
  /\ Printed
  /\ left' = n /\ UNCHANGED held

(* A character goes to the port when bit 5 of its status, 0x20, is set:    *)
(* the wait for it has no limit.                                           *)
serial_putc ==
  /\ ~ Printed /\ held = 0
  /\ left' = left - 1 /\ held' = 1

transmit == held = 1 /\ held' = 0 /\ UNCHANGED left
=============================================================================
