------------------------------- MODULE Schema -------------------------------
(***************************************************************************)
(* The schema state machine of kernel/schema.c: what one evaluation of a   *)
(* process instance against a word of condition flags does to it, and the  *)
(* arc, the loop of at most eight evaluations that kernel/shell.c runs a   *)
(* new or a restarted instance through.                                    *)
(*                                                                         *)
(* A 32-bit word of condition flags is the set of the positions of its     *)
(* bits that are 1, so a mask is a set of positions, & is \cap and         *)
(* popcount is Cardinality.  target_c is left out: every caller passes     *)
(* STATE_PERFECT and nothing reads it.                                     *)
(***************************************************************************)
EXTENDS Naturals, FiniteSets

STATE_FUNDAMENTAL == "FUNDAMENTAL"
STATE_FRICTION    == "FRICTION"
STATE_SETTLED     == "SETTLED"
STATE_NEW_PROCESS == "NEW_PROCESS"
STATE_RECOVERY    == "RECOVERY"
STATE_FULL_TRUST  == "FULL_TRUST"
STATE_PERFECT     == "PERFECT"
STATE_EXCISED     == "EXCISED"

(* What state_name answers for a number that is no state: the zero of an   *)
(* entry of the process table that was never used.                         *)
STATE_UNKNOWN     == "UNKNOWN"

States == {STATE_FUNDAMENTAL, STATE_FRICTION, STATE_SETTLED,
           STATE_NEW_PROCESS, STATE_RECOVERY, STATE_FULL_TRUST,
           STATE_PERFECT, STATE_EXCISED, STATE_UNKNOWN}

Bits    == 0..31
F8_MASK == 0..7
F9_MASK == 0..11
F6_MASK == 0..5

SHIFT_THRESHOLD_8 == 5
SHIFT_THRESHOLD_9 == 8
SHIFT_THRESHOLD_6 == 3

(* "Weight maxima per state"                                               *)
STATE_8_MAX == 8
STATE_9_MAX == 12
STATE_6_MAX == 6

popcount(flags) == Cardinality(flags)

-----------------------------------------------------------------------------
(***************************************************************************)
(* Instances.                                                              *)
(***************************************************************************)
Instances == [pid : Nat, state : States, weight : 0..STATE_9_MAX,
              prev_state : States, flags : SUBSET Bits]

schema_init(pid) ==
  [pid |-> pid, state |-> STATE_NEW_PROCESS, weight |-> 0,
   prev_state |-> STATE_SETTLED, flags |-> {}]

(* Mutant of weigh: the weight is not recorded.                            *)
weigh_unrecorded(inst, flags, mask, threshold, passed, failed) ==
  [inst EXCEPT !.flags = flags,
               !.state = IF popcount(flags \cap mask) >= threshold
                         THEN passed ELSE failed]

(* The body three of the four cases of the switch share: weigh the flags   *)
(* the mask selects, record the weight, and branch on the threshold.       *)
weigh(inst, flags, mask, threshold, passed, failed) ==
  LET w == popcount(flags \cap mask)
  IN  [inst EXCEPT !.flags  = flags,
                   !.weight = w,
                   !.state  = IF w >= threshold THEN passed ELSE failed]

schema_eval(inst, flags) ==
  CASE inst.state = STATE_NEW_PROCESS ->
         [weigh(inst, flags, F8_MASK, SHIFT_THRESHOLD_8,
                STATE_FULL_TRUST, STATE_RECOVERY)
            EXCEPT !.prev_state = STATE_NEW_PROCESS]
    [] inst.state = STATE_RECOVERY ->
         weigh(inst, flags, F9_MASK, SHIFT_THRESHOLD_9,
               STATE_SETTLED, STATE_FRICTION)
    [] inst.state = STATE_FRICTION ->
         weigh(inst, flags, F6_MASK, SHIFT_THRESHOLD_6,
               STATE_RECOVERY, STATE_EXCISED)
    [] inst.state = STATE_FULL_TRUST ->
         [inst EXCEPT !.flags = flags,
                      !.state = IF F8_MASK \subseteq flags
                                THEN STATE_FUNDAMENTAL
                                ELSE IF flags # {} THEN STATE_PERFECT
                                                   ELSE STATE_EXCISED]
    [] OTHER -> [inst EXCEPT !.flags = flags]

-----------------------------------------------------------------------------
(***************************************************************************)
(* The arc: `while (iters++ < 8)` around an evaluation, left as soon as    *)
(* the instance is in none of the four states below.  cmd_spawn, run_arc   *)
(* and do_restart each contain this loop.  A pass after the break changes  *)
(* nothing, so the loop is eight passes in a row.                          *)
(***************************************************************************)
InArc == {STATE_NEW_PROCESS, STATE_FULL_TRUST, STATE_RECOVERY, STATE_FRICTION}

arc_pass(flags) ==
  [inst \in Instances |->
     IF inst.state \in InArc THEN schema_eval(inst, flags) ELSE inst]

run_arc(inst, flags) ==
  LET pass == arc_pass(flags)
  IN  pass[pass[pass[pass[pass[pass[pass[pass[inst]]]]]]]]

(* What the arc of a new instance comes to, stated without the loop.       *)
(* FRICTION is where an instance that swings between RECOVERY and FRICTION *)
(* for ever is left by the eighth pass.                                    *)
ArcOutcome(flags) ==
  CASE F8_MASK \subseteq flags ->
         STATE_FUNDAMENTAL
    [] /\ ~ (F8_MASK \subseteq flags)
       /\ popcount(flags \cap F8_MASK) >= SHIFT_THRESHOLD_8 ->
         STATE_PERFECT
    [] /\ popcount(flags \cap F8_MASK) < SHIFT_THRESHOLD_8
       /\ popcount(flags \cap F9_MASK) >= SHIFT_THRESHOLD_9 ->
         STATE_SETTLED
    [] /\ popcount(flags \cap F8_MASK) < SHIFT_THRESHOLD_8
       /\ popcount(flags \cap F9_MASK) < SHIFT_THRESHOLD_9
       /\ popcount(flags \cap F6_MASK) >= SHIFT_THRESHOLD_6 ->
         STATE_FRICTION
    [] OTHER -> STATE_EXCISED
=============================================================================
