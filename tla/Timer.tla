------------------------------- MODULE Timer ---------------------------------
(***************************************************************************)
(* The timer of kernel/timer.c: nothing interrupts the kernel, so time is  *)
(* counted by looking at channel 0 of the PIT whenever somebody polls.     *)
(*                                                                         *)
(* The PIT is external.  It is programmed for mode 3, a square wave: the   *)
(* counter goes down by two with every pulse and is reloaded at the end of *)
(* each half of the period, which is a millisecond.                        *)
(***************************************************************************)
EXTENDS Integers

CONSTANTS
  RELOAD,        (* what the counter is reloaded with, 1193 in the code,   *)
                 (* of which mode 3 counts the even part                   *)
  MaxPulses,     (* bound: pulses between two polls                        *)
  MaxWraps       (* bound: reloads that are followed                       *)

ASSUME TimerAssumption ==
  /\ RELOAD \in Nat /\ RELOAD >= 4 /\ RELOAD < 65535 /\ RELOAD % 2 = 0
  /\ MaxPulses \in Nat /\ MaxWraps \in Nat

VARIABLES
  count,         (* the counter of channel 0                               *)
  pit_last,
  pit_ticks,
  pulses,        (* history: pulses since the last poll                    *)
  reloads,       (* history: reloads since the last poll                   *)
  wraps,         (* history: reloads between the first poll and the last   *)
  prompt         (* history: no two polls were half a period apart         *)

vars == <<count, pit_last, pit_ticks, pulses, reloads, wraps, prompt>>

Never == 65535   (* 0xFFFF, what pit_last is before the first poll         *)

Polled == pit_last # Never

TypeOK ==
  /\ count \in 1..RELOAD
  /\ pit_last \in 1..RELOAD \cup {Never}
  /\ pit_ticks \in Nat
  /\ pulses \in Nat /\ reloads \in Nat /\ wraps \in Nat
  /\ prompt \in BOOLEAN

(* timer_init                                                              *)
Init ==
  /\ count = RELOAD
  /\ pit_last = Never
  /\ pit_ticks = 0
  /\ pulses = 0 /\ reloads = 0 /\ wraps = 0
  /\ prompt = TRUE

pulse ==
  /\ pulses < MaxPulses /\ wraps + reloads < MaxWraps
  /\ pulses' = pulses + 1
  /\ IF count > 2 THEN count' = count - 2 /\ UNCHANGED reloads
                  ELSE count' = RELOAD /\ reloads' = reloads + 1
  /\ UNCHANGED <<pit_last, pit_ticks, wraps, prompt>>

(* Mutant of wrapped: equal counts are taken for a wrap.                   *)
wrapped_or_equal(now) == now >= pit_last

(* Mutant of wrapped: the counter is taken to count up.                    *)
wrapped_up(now) == now < pit_last

wrapped(now) == now > pit_last

(* What is polled is the counter as it was latched: both of its bytes are  *)
(* of one moment.                                                          *)
timer_poll ==
  /\ pit_ticks' = IF wrapped(count) THEN pit_ticks + 1 ELSE pit_ticks
  /\ pit_last' = count
  /\ pulses' = 0 /\ reloads' = 0
  /\ wraps' = IF Polled THEN wraps + reloads ELSE 0
  /\ prompt' = (prompt /\ (Polled => 2 * pulses < RELOAD))
  /\ UNCHANGED count

Next == pulse \/ timer_poll

Spec == Init /\ [][Next]_vars

-----------------------------------------------------------------------------
(* A tick is never counted that was not a reload of the counter, however   *)
(* late and however often the timer is polled.                             *)
NoTickInvented == pit_ticks <= wraps

(* And none is lost as long as nobody waits for half a period before       *)
(* polling again: the turns of the shell's loop must not take longer.      *)
NoTickLostWhenPrompt == prompt => pit_ticks = wraps

-----------------------------------------------------------------------------
(* "returns ms tick count": what is counted since the first poll is the    *)
(* milliseconds that passed, two halves of a period each, give or take     *)
(* one.                                                                    *)
TicksAreMilliseconds ==
  prompt => LET ms == (wraps + reloads) \div 2
            IN  pit_ticks \in ms - 1 .. ms + 1
=============================================================================
