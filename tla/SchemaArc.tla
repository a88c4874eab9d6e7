------------------------------ MODULE SchemaArc ------------------------------
(***************************************************************************)
(* The arc loop of kernel/shell.c (run_arc, and the same loop written out  *)
(* in cmd_spawn and in do_restart), one evaluation per step, for one       *)
(* instance and one word of flags.  Schema!run_arc and Schema!ArcOutcome,  *)
(* which the process table is built from, are checked against it.          *)
(***************************************************************************)
EXTENDS Schema

CONSTANTS
  WORDS,      (* the words of condition flags the arc may be run with      *)
  PID         (* the pid of the instance                                   *)

ASSUME ArcAssumption == WORDS \subseteq SUBSET Bits /\ PID \in Nat

(* Mutant of ITERS_MAX: `++iters < 8`, seven evaluations.                  *)
ITERS_seven == 7

ITERS_MAX == 8    (* `iters++ < 8`                                         *)

VARIABLES
  arc_inst,   (* the instance                                              *)
  arc_flags,  (* the argument of the loop, fixed                           *)
  iters,      (* the loop counter                                          *)
  looping     (* FALSE once the loop is left                               *)

arc_vars == <<arc_inst, arc_flags, iters, looping>>

ArcInit ==
  /\ arc_inst = schema_init(PID)
  /\ arc_flags \in WORDS
  /\ iters = 0
  /\ looping = TRUE

(* Mutant of Evaluate: the counter is looked at but not advanced.          *)
Evaluate_uncounted ==
  /\ looping
  /\ iters < ITERS_MAX
  /\ arc_inst.state \in InArc
  /\ arc_inst' = schema_eval(arc_inst, arc_flags)
  /\ UNCHANGED <<arc_flags, iters, looping>>

(* The condition of the while holds and the state is one the arc evaluates *)
Evaluate ==
  /\ looping
  /\ iters < ITERS_MAX
  /\ arc_inst.state \in InArc
  /\ arc_inst' = schema_eval(arc_inst, arc_flags)
  /\ iters' = iters + 1
  /\ UNCHANGED <<arc_flags, looping>>

(* The break, or the condition is false: iters++ has its effect even so.   *)
Leave ==
  /\ looping
  /\ iters < ITERS_MAX => arc_inst.state \notin InArc
  /\ looping' = FALSE
  /\ iters' = iters + 1
  /\ UNCHANGED <<arc_inst, arc_flags>>

ArcNext == Evaluate \/ Leave

ArcSpec == ArcInit /\ [][ArcNext]_arc_vars /\ WF_arc_vars(ArcNext)

-----------------------------------------------------------------------------
(* When the loop is left, it has computed what the eight passes of         *)
(* Schema!run_arc compute and ended in the state Schema!ArcOutcome states. *)
LoopComputesArc ==
  ~ looping => /\ arc_inst = run_arc(schema_init(PID), arc_flags)
               /\ arc_inst.state = ArcOutcome(arc_flags)

(* The limit of eight evaluations cuts off no arc that would still settle: *)
(* an arc comes to rest within three evaluations, or swings between        *)
(* RECOVERY and FRICTION until the limit and is left in FRICTION.          *)
SettlesEarlyOrSwings ==
  ~ looping =>
    \/ arc_inst.state \notin InArc /\ iters <= 4
    \/ arc_inst.state = STATE_FRICTION /\ iters = ITERS_MAX + 1

(* The loop ends for every word of flags.                                  *)
ArcEnds == <>(~ looping)

-----------------------------------------------------------------------------
(* "Weight maxima per state": what the weight is shown against while the   *)
(* arc runs, as in `weight=4/12`, is the most the state can weigh.         *)
WeightWithinMaximum ==
  /\ arc_inst.state = STATE_NEW_PROCESS => arc_inst.weight <= STATE_8_MAX
  /\ arc_inst.state = STATE_RECOVERY    => arc_inst.weight <= STATE_9_MAX
  /\ arc_inst.state = STATE_FRICTION    => arc_inst.weight <= STATE_6_MAX
=============================================================================
