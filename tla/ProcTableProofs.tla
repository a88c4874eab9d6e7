--------------------------- MODULE ProcTableProofs ---------------------------
(***************************************************************************)
(* The schema state machine and the arc, for every word of flags and every *)
(* pid, and the loop that SchemaArc takes step by step; then the safety of *)
(* the process table, for tables of every size, every word of flags and    *)
(* every order of commands.                                                *)
(***************************************************************************)
EXTENDS ProcTable, SchemaArc, FiniteSetTheorems, TLAPS

(***************************************************************************)
(* An evaluation and the arc, which is unrolled pass by pass.              *)
(***************************************************************************)
(* Counting the flags under a mask of n+1 low bits gives at most n+1.      *)
LEMMA PopcountBound ==
  ASSUME NEW flags \in SUBSET Bits, NEW n \in Nat
  PROVE  popcount(flags \cap (0..n)) \in 0..n+1
<1>1. IsFiniteSet(0..n) /\ Cardinality(0..n) = n + 1
  BY FS_Interval
<1>2. /\ IsFiniteSet(flags \cap (0..n))
      /\ Cardinality(flags \cap (0..n)) <= n + 1
  BY <1>1, FS_Subset
<1> QED
  BY <1>2, FS_CardinalityType DEF popcount

LEMMA Weights ==
  ASSUME NEW flags \in SUBSET Bits
  PROVE  /\ popcount(flags \cap F8_MASK) \in 0..8
         /\ popcount(flags \cap F9_MASK) \in 0..12
         /\ popcount(flags \cap F6_MASK) \in 0..6
<1>1. popcount(flags \cap (0..7)) \in 0..7+1
  BY PopcountBound, 7 \in Nat
<1>2. popcount(flags \cap (0..11)) \in 0..11+1
  BY PopcountBound, 11 \in Nat
<1>3. popcount(flags \cap (0..5)) \in 0..5+1
  BY PopcountBound, 5 \in Nat
<1> QED
  BY <1>1, <1>2, <1>3 DEF F8_MASK, F9_MASK, F6_MASK

LEMMA MaskOfEight == IsFiniteSet(F8_MASK) /\ Cardinality(F8_MASK) = 8
<1>1. /\ IsFiniteSet(0..7)
      /\ Cardinality(0..7) = IF 0 > 7 THEN 0 ELSE 7 - 0 + 1
  BY FS_Interval, 0 \in Int, 7 \in Int
<1> QED
  BY <1>1 DEF F8_MASK

(* All eight flags of the I vector weigh 8.                                *)
LEMMA FullWeight ==
  ASSUME NEW flags \in SUBSET Bits, F8_MASK \subseteq flags
  PROVE  popcount(flags \cap F8_MASK) = 8
<1>1. flags \cap F8_MASK = F8_MASK
  OBVIOUS
<1> QED
  BY <1>1, MaskOfEight DEF popcount

(* Short of all eight, at most seven count.                                *)
LEMMA PartWeight ==
  ASSUME NEW flags \in SUBSET Bits, ~ (F8_MASK \subseteq flags)
  PROVE  popcount(flags \cap F8_MASK) \in 0..7
<1>1. flags \cap F8_MASK \in SUBSET F8_MASK
  OBVIOUS
<1>2. flags \cap F8_MASK # F8_MASK
  OBVIOUS
<1>3. Cardinality(F8_MASK) # Cardinality(flags \cap F8_MASK)
  BY <1>1, <1>2, MaskOfEight, FS_Subset
<1>4. popcount(flags \cap F8_MASK) # 8
  BY <1>3, MaskOfEight DEF popcount
<1>5. popcount(flags \cap F8_MASK) \in 0..8
  BY Weights
<1> QED
  BY <1>4, <1>5

(* No flag weighs nothing.                                                 *)
LEMMA NoWeight ==
  ASSUME NEW flags \in SUBSET Bits, popcount(flags \cap F8_MASK) > 0
  PROVE  flags # {}
<1>1. SUFFICES ASSUME flags = {} PROVE FALSE
  OBVIOUS
<1>2. flags \cap F8_MASK = {}
  BY <1>1
<1> QED
  BY <1>2, FS_EmptySet DEF popcount

-----------------------------------------------------------------------------
USE DEF STATE_FUNDAMENTAL, STATE_FRICTION, STATE_SETTLED, STATE_NEW_PROCESS,
        STATE_RECOVERY, STATE_FULL_TRUST, STATE_PERFECT, STATE_EXCISED,
        STATE_UNKNOWN

LEMMA InitType ==
  ASSUME NEW pid \in Nat
  PROVE  /\ schema_init(pid) \in Instances
         /\ schema_init(pid).pid = pid
         /\ schema_init(pid).state = STATE_NEW_PROCESS
BY DEF schema_init, Instances, States, STATE_9_MAX

(* An evaluation, field by field, for each state the instance is in.       *)
LEMMA WithinTwelve == 0..8 \subseteq 0..12 /\ 0..6 \subseteq 0..12
OBVIOUS

LEMMA EvalNew ==
  ASSUME NEW inst \in Instances, NEW flags \in SUBSET Bits,
         inst.state = STATE_NEW_PROCESS
  PROVE  /\ schema_eval(inst, flags) \in Instances
         /\ schema_eval(inst, flags).pid = inst.pid
         /\ schema_eval(inst, flags).weight = popcount(flags \cap F8_MASK)
         /\ schema_eval(inst, flags).state =
              IF popcount(flags \cap F8_MASK) >= 5
              THEN STATE_FULL_TRUST ELSE STATE_RECOVERY
<1> DEFINE w == popcount(flags \cap F8_MASK)
<1>1. schema_eval(inst, flags) =
        [inst EXCEPT !.flags = flags, !.weight = w,
                     !.state = IF w >= 5 THEN STATE_FULL_TRUST
                                         ELSE STATE_RECOVERY,
                     !.prev_state = STATE_NEW_PROCESS]
  BY DEF schema_eval, weigh, Instances, SHIFT_THRESHOLD_8
<1>2. w \in 0..12
  BY Weights, WithinTwelve
<1> HIDE DEF w
<1>3. schema_eval(inst, flags) \in Instances
  BY <1>1, <1>2 DEF Instances, States, STATE_9_MAX
<1> QED
  BY <1>1, <1>3 DEF Instances, w

LEMMA EvalRecovery ==
  ASSUME NEW inst \in Instances, NEW flags \in SUBSET Bits,
         inst.state = STATE_RECOVERY
  PROVE  /\ schema_eval(inst, flags) \in Instances
         /\ schema_eval(inst, flags).pid = inst.pid
         /\ schema_eval(inst, flags).weight = popcount(flags \cap F9_MASK)
         /\ schema_eval(inst, flags).state =
              IF popcount(flags \cap F9_MASK) >= 8
              THEN STATE_SETTLED ELSE STATE_FRICTION
<1> DEFINE w == popcount(flags \cap F9_MASK)
<1>1. schema_eval(inst, flags) =
        [inst EXCEPT !.flags = flags, !.weight = w,
                     !.state = IF w >= 8 THEN STATE_SETTLED
                                         ELSE STATE_FRICTION]
  BY DEF schema_eval, weigh, Instances, SHIFT_THRESHOLD_9
<1>2. w \in 0..12
  BY Weights, WithinTwelve
<1> HIDE DEF w
<1>3. schema_eval(inst, flags) \in Instances
  BY <1>1, <1>2 DEF Instances, States, STATE_9_MAX
<1> QED
  BY <1>1, <1>3 DEF Instances, w

LEMMA EvalFriction ==
  ASSUME NEW inst \in Instances, NEW flags \in SUBSET Bits,
         inst.state = STATE_FRICTION
  PROVE  /\ schema_eval(inst, flags) \in Instances
         /\ schema_eval(inst, flags).pid = inst.pid
         /\ schema_eval(inst, flags).weight = popcount(flags \cap F6_MASK)
         /\ schema_eval(inst, flags).state =
              IF popcount(flags \cap F6_MASK) >= 3
              THEN STATE_RECOVERY ELSE STATE_EXCISED
<1> DEFINE w == popcount(flags \cap F6_MASK)
<1>1. schema_eval(inst, flags) =
        [inst EXCEPT !.flags = flags, !.weight = w,
                     !.state = IF w >= 3 THEN STATE_RECOVERY
                                         ELSE STATE_EXCISED]
  BY DEF schema_eval, weigh, Instances, SHIFT_THRESHOLD_6
<1>2. w \in 0..12
  BY Weights, WithinTwelve
<1> HIDE DEF w
<1>3. schema_eval(inst, flags) \in Instances
  BY <1>1, <1>2 DEF Instances, States, STATE_9_MAX
<1> QED
  BY <1>1, <1>3 DEF Instances, w

LEMMA EvalTrusted ==
  ASSUME NEW inst \in Instances, NEW flags \in SUBSET Bits,
         inst.state = STATE_FULL_TRUST
  PROVE  /\ schema_eval(inst, flags) \in Instances
         /\ schema_eval(inst, flags).pid = inst.pid
         /\ schema_eval(inst, flags).weight = inst.weight
         /\ schema_eval(inst, flags).state =
              IF F8_MASK \subseteq flags THEN STATE_FUNDAMENTAL
              ELSE IF flags # {} THEN STATE_PERFECT ELSE STATE_EXCISED
BY DEF schema_eval, Instances, States

LEMMA EvalAtRest ==
  ASSUME NEW inst \in Instances, NEW flags \in SUBSET Bits,
         inst.state \notin InArc
  PROVE  /\ schema_eval(inst, flags) \in Instances
         /\ schema_eval(inst, flags).pid = inst.pid
         /\ schema_eval(inst, flags).weight = inst.weight
         /\ schema_eval(inst, flags).state = inst.state
BY DEF schema_eval, Instances, States, InArc

LEMMA EvalType ==
  ASSUME NEW inst \in Instances, NEW flags \in SUBSET Bits
  PROVE  /\ schema_eval(inst, flags) \in Instances
         /\ schema_eval(inst, flags).pid = inst.pid
<1>1. CASE inst.state = STATE_NEW_PROCESS   BY <1>1, EvalNew
<1>2. CASE inst.state = STATE_RECOVERY      BY <1>2, EvalRecovery
<1>3. CASE inst.state = STATE_FRICTION      BY <1>3, EvalFriction
<1>4. CASE inst.state = STATE_FULL_TRUST    BY <1>4, EvalTrusted
<1>5. CASE inst.state \notin InArc          BY <1>5, EvalAtRest
<1> QED
  BY <1>1, <1>2, <1>3, <1>4, <1>5 DEF InArc

(* A pass is an evaluation, or nothing once the arc is left.               *)
LEMMA PassType ==
  ASSUME NEW inst \in Instances, NEW flags \in SUBSET Bits
  PROVE  /\ arc_pass(flags)[inst] = IF inst.state \in InArc
                                    THEN schema_eval(inst, flags) ELSE inst
         /\ arc_pass(flags)[inst] \in Instances
         /\ arc_pass(flags)[inst].pid = inst.pid
BY EvalType DEF arc_pass

(* The weight an instance at rest in a state can have                      *)
WeightFor(st, w) ==
  /\ st = STATE_FUNDAMENTAL => w = 8
  /\ st = STATE_PERFECT     => w \in 5..7
  /\ st = STATE_SETTLED     => w \in 8..12
  /\ st = STATE_FRICTION    => w \in 0..7
  /\ st = STATE_RECOVERY    => w \in 3..6

(* Three passes decide: an arc is then at rest, or back in RECOVERY.       *)
LEMMA ThreePasses ==
  ASSUME NEW pid \in Nat, NEW flags \in SUBSET Bits,
         NEW i1, NEW i2, NEW i3,
         i1 = arc_pass(flags)[schema_init(pid)],
         i2 = arc_pass(flags)[i1],
         i3 = arc_pass(flags)[i2]
  PROVE  /\ i3 \in Instances
         /\ i3.pid = pid
         /\ IF ArcOutcome(flags) = STATE_FRICTION
            THEN /\ i3.state = STATE_RECOVERY
                 /\ popcount(flags \cap F9_MASK) \in 0..7
                 /\ popcount(flags \cap F6_MASK) \in 3..6
            ELSE /\ i3.state = ArcOutcome(flags)
                 /\ i3.state \in {STATE_FUNDAMENTAL, STATE_PERFECT,
                                  STATE_SETTLED, STATE_EXCISED}
                 /\ WeightFor(i3.state, i3.weight)
<1> DEFINE c8 == popcount(flags \cap F8_MASK)
           c9 == popcount(flags \cap F9_MASK)
           c6 == popcount(flags \cap F6_MASK)
           i0 == schema_init(pid)
<1>0. i0 \in Instances /\ i0.pid = pid /\ i0.state = STATE_NEW_PROCESS
  BY InitType
<1>w. c8 \in 0..8 /\ c9 \in 0..12 /\ c6 \in 0..6
  BY Weights
<1> HIDE DEF i0
<1>1. /\ i1 \in Instances /\ i1.pid = pid /\ i1.weight = c8
      /\ i1.state = IF c8 >= 5 THEN STATE_FULL_TRUST ELSE STATE_RECOVERY
  <2>1. i1 = schema_eval(i0, flags)
    BY <1>0, PassType DEF InArc, i0
  <2> QED
    BY <1>0, <2>1, EvalNew
<1> HIDE DEF c8, c9, c6
<1>2. ASSUME c8 >= 5
      PROVE  /\ i3 \in Instances /\ i3.pid = pid /\ i3.weight = c8
             /\ i3.state = IF F8_MASK \subseteq flags
                           THEN STATE_FUNDAMENTAL ELSE STATE_PERFECT
  <2>1. i1.state = STATE_FULL_TRUST
    BY <1>1, <1>2
  <2>2. i2 = schema_eval(i1, flags)
    BY <1>1, <2>1, PassType DEF InArc
  <2>3. flags # {}
    <3>1. popcount(flags \cap F8_MASK) > 0
      BY <1>2, <1>w DEF c8
    <3> QED BY <3>1, NoWeight
  <2>4. /\ i2 \in Instances /\ i2.pid = pid /\ i2.weight = c8
        /\ i2.state = IF F8_MASK \subseteq flags
                      THEN STATE_FUNDAMENTAL ELSE STATE_PERFECT
    BY <1>1, <2>1, <2>2, <2>3, EvalTrusted
  <2>5. i3 = i2
    BY <2>4, PassType DEF InArc
  <2> QED BY <2>4, <2>5
<1>3. ASSUME c8 < 5
      PROVE  /\ i2 \in Instances /\ i2.pid = pid /\ i2.weight = c9
             /\ i2.state = IF c9 >= 8 THEN STATE_SETTLED ELSE STATE_FRICTION
  <2>1. i1.state = STATE_RECOVERY
    BY <1>1, <1>3, <1>w
  <2>2. i2 = schema_eval(i1, flags)
    BY <1>1, <2>1, PassType DEF InArc
  <2> QED BY <1>1, <2>1, <2>2, EvalRecovery DEF c9
<1>4. ASSUME c8 < 5, c9 >= 8
      PROVE  i3 = i2
  BY <1>3, <1>4, PassType DEF InArc
<1>5. ASSUME c8 < 5, c9 < 8
      PROVE  /\ i3 \in Instances /\ i3.pid = pid /\ i3.weight = c6
             /\ i3.state = IF c6 >= 3 THEN STATE_RECOVERY ELSE STATE_EXCISED
  <2>1. i2 \in Instances /\ i2.pid = pid /\ i2.state = STATE_FRICTION
    BY <1>3, <1>5, <1>w
  <2>2. i3 = schema_eval(i2, flags)
    BY <2>1, PassType DEF InArc
  <2> QED BY <2>1, <2>2, EvalFriction DEF c6
<1>6. ArcOutcome(flags) =
        IF c8 >= 5
        THEN IF F8_MASK \subseteq flags THEN STATE_FUNDAMENTAL
                                        ELSE STATE_PERFECT
        ELSE IF c9 >= 8 THEN STATE_SETTLED
        ELSE IF c6 >= 3 THEN STATE_FRICTION ELSE STATE_EXCISED
  <2>1. F8_MASK \subseteq flags => c8 = 8
    BY FullWeight DEF c8
  <2> QED
    BY <1>w, <2>1 DEF ArcOutcome, c8, c9, c6, SHIFT_THRESHOLD_8,
                      SHIFT_THRESHOLD_9, SHIFT_THRESHOLD_6
<1>7. CASE c8 >= 5 /\ F8_MASK \subseteq flags
  <2>1. c8 = 8
    BY <1>7, FullWeight DEF c8
  <2> QED BY <1>2, <1>6, <1>7, <2>1 DEF WeightFor
<1>8. CASE c8 >= 5 /\ ~ (F8_MASK \subseteq flags)
  <2>1. c8 \in 0..7
    BY <1>8, PartWeight DEF c8
  <2> QED BY <1>2, <1>6, <1>8, <2>1 DEF WeightFor
<1>9. CASE c8 < 5 /\ c9 >= 8
  BY <1>3, <1>4, <1>6, <1>9, <1>w DEF WeightFor
<1>10. CASE c8 < 5 /\ c9 < 8
  <2>1. /\ i3 \in Instances /\ i3.pid = pid /\ i3.weight = c6
        /\ i3.state = IF c6 >= 3 THEN STATE_RECOVERY ELSE STATE_EXCISED
    BY <1>5, <1>10
  <2>2. ArcOutcome(flags) = IF c6 >= 3 THEN STATE_FRICTION ELSE STATE_EXCISED
    BY <1>6, <1>10, <1>w
  <2>3. CASE c6 >= 3
    <3>1. ArcOutcome(flags) = STATE_FRICTION /\ i3.state = STATE_RECOVERY
      BY <2>1, <2>2, <2>3
    <3>2. c9 \in 0..7 /\ c6 \in 3..6
      BY <1>10, <2>3, <1>w
    <3> QED BY <2>1, <3>1, <3>2 DEF c9, c6
  <2>4. CASE ~ (c6 >= 3)
    <3>1. ArcOutcome(flags) = STATE_EXCISED /\ i3.state = STATE_EXCISED
      BY <2>1, <2>2, <2>4
    <3>2. i3.weight \in 0..2
      BY <2>1, <2>4, <1>w
    <3> QED BY <2>1, <3>1, <3>2 DEF WeightFor
  <2> QED BY <2>3, <2>4
<1>11. \/ c8 >= 5 /\ F8_MASK \subseteq flags
       \/ c8 >= 5 /\ ~ (F8_MASK \subseteq flags)
       \/ c8 < 5 /\ c9 >= 8
       \/ c8 < 5 /\ c9 < 8
  BY <1>w
<1> QED
  BY <1>7, <1>8, <1>9, <1>10, <1>11, Zenon

(* A pass changes nothing once the arc is left.                            *)
LEMMA PassAtRest ==
  ASSUME NEW inst \in Instances, NEW flags \in SUBSET Bits,
         inst.state \notin InArc
  PROVE  arc_pass(flags)[inst] = inst
BY PassType

(* Two passes take an instance that swings from RECOVERY to FRICTION and   *)
(* back.                                                                   *)
LEMMA Swing ==
  ASSUME NEW inst \in Instances, NEW flags \in SUBSET Bits,
         inst.state = STATE_RECOVERY,
         popcount(flags \cap F9_MASK) \in 0..7,
         popcount(flags \cap F6_MASK) \in 3..6,
         NEW i1, i1 = arc_pass(flags)[inst],
         NEW i2, i2 = arc_pass(flags)[i1]
  PROVE  /\ i1 \in Instances /\ i1.pid = inst.pid
         /\ i1.state = STATE_FRICTION
         /\ i1.weight = popcount(flags \cap F9_MASK)
         /\ i2 \in Instances /\ i2.pid = inst.pid
         /\ i2.state = STATE_RECOVERY
<1>1. i1 = schema_eval(inst, flags)
  BY PassType DEF InArc
<1>2. /\ i1 \in Instances /\ i1.pid = inst.pid
      /\ i1.state = STATE_FRICTION
      /\ i1.weight = popcount(flags \cap F9_MASK)
  <2>1. ~ (popcount(flags \cap F9_MASK) >= 8)
    OBVIOUS
  <2> QED BY <1>1, <2>1, EvalRecovery
<1>3. i2 = schema_eval(i1, flags)
  BY <1>2, PassType DEF InArc
<1>4. i2 \in Instances /\ i2.pid = inst.pid /\ i2.state = STATE_RECOVERY
  <2>1. popcount(flags \cap F6_MASK) >= 3
    OBVIOUS
  <2> QED BY <1>2, <1>3, <2>1, EvalFriction
<1> QED
  BY <1>2, <1>4

(* The arc of a new instance keeps its pid and ends as ArcOutcome says,    *)
(* with a weight that leads there.                                         *)
THEOREM ArcComputesOutcome ==
  ASSUME NEW pid \in Nat, NEW flags \in SUBSET Bits
  PROVE  LET e == run_arc(schema_init(pid), flags)
         IN  /\ e \in Instances
             /\ e.pid = pid
             /\ e.state = ArcOutcome(flags)
             /\ e.state \in {STATE_FUNDAMENTAL, STATE_PERFECT, STATE_SETTLED,
                             STATE_FRICTION, STATE_EXCISED}
             /\ WeightFor(e.state, e.weight)
<1> DEFINE pass == arc_pass(flags)
           i3 == pass[pass[pass[schema_init(pid)]]]
           i5 == pass[pass[i3]]
           i7 == pass[pass[i5]]
           e  == pass[i7]
<1>1. run_arc(schema_init(pid), flags) = e
  BY DEF run_arc
<1>2. /\ i3 \in Instances
      /\ i3.pid = pid
      /\ IF ArcOutcome(flags) = STATE_FRICTION
         THEN /\ i3.state = STATE_RECOVERY
              /\ popcount(flags \cap F9_MASK) \in 0..7
              /\ popcount(flags \cap F6_MASK) \in 3..6
         ELSE /\ i3.state = ArcOutcome(flags)
              /\ i3.state \in {STATE_FUNDAMENTAL, STATE_PERFECT,
                               STATE_SETTLED, STATE_EXCISED}
              /\ WeightFor(i3.state, i3.weight)
  BY ThreePasses
<1> HIDE DEF i3
<1>3. CASE ArcOutcome(flags) # STATE_FRICTION
  <2>1. pass[i3] = i3
    BY <1>2, <1>3, PassAtRest DEF InArc
  <2>2. e = i3
    BY <2>1
  <2> QED BY <1>1, <1>2, <1>3, <2>2
<1>4. CASE ArcOutcome(flags) = STATE_FRICTION
  <2>1. i5 \in Instances /\ i5.pid = pid /\ i5.state = STATE_RECOVERY
    BY <1>2, <1>4, Swing
  <2> HIDE DEF i5
  <2>2. i7 \in Instances /\ i7.pid = pid /\ i7.state = STATE_RECOVERY
    BY <1>2, <1>4, <2>1, Swing
  <2> HIDE DEF i7
  <2>3. /\ e \in Instances /\ e.pid = pid /\ e.state = STATE_FRICTION
        /\ e.weight = popcount(flags \cap F9_MASK)
    BY <1>2, <1>4, <2>2, Swing
  <2> QED BY <1>1, <1>2, <1>4, <2>3 DEF WeightFor
<1> QED
  BY <1>3, <1>4

-----------------------------------------------------------------------------
(***************************************************************************)
(* The loop.  As long as it goes on its instance is the new one after as   *)
(* many passes as the counter says, in all of which it was in the arc.     *)
(***************************************************************************)
Passed(flags, n) ==
  LET pass == arc_pass(flags)
      i3   == pass[pass[pass[schema_init(PID)]]]
  IN  CASE n = 0 -> schema_init(PID)
        [] n = 1 -> pass[schema_init(PID)]
        [] n = 2 -> pass[pass[schema_init(PID)]]
        [] n = 3 -> i3
        [] n = 4 -> pass[i3]
        [] n = 5 -> pass[pass[i3]]
        [] n = 6 -> pass[pass[pass[i3]]]
        [] n = 7 -> pass[pass[pass[pass[i3]]]]
        [] n = 8 -> pass[pass[pass[pass[pass[i3]]]]]

LEMMA OnePassMore ==
  ASSUME NEW flags
  PROVE  /\ Passed(flags, 0) = schema_init(PID)
         /\ \A n \in 0..7 :
              Passed(flags, n + 1) = arc_pass(flags)[Passed(flags, n)]
         /\ Passed(flags, 8) = run_arc(schema_init(PID), flags)
<1> DEFINE pass == arc_pass(flags)
           P(n) == Passed(flags, n)
<1>1. /\ P(0) = schema_init(PID)
      /\ P(1) = pass[P(0)] /\ P(2) = pass[P(1)] /\ P(3) = pass[P(2)]
      /\ P(4) = pass[P(3)] /\ P(5) = pass[P(4)] /\ P(6) = pass[P(5)]
      /\ P(7) = pass[P(6)] /\ P(8) = pass[P(7)]
  BY DEF Passed
<1>2. P(8) = run_arc(schema_init(PID), flags)
  BY DEF Passed, run_arc
<1> HIDE DEF P, pass
<1>3. ASSUME NEW n \in 0..7 PROVE P(n + 1) = pass[P(n)]
  <2>1. n = 0 \/ n = 1 \/ n = 2 \/ n = 3 \/ n = 4 \/ n = 5 \/ n = 6 \/ n = 7
    OBVIOUS
  <2> QED BY <1>1, <2>1
<1> QED
  BY <1>1, <1>2, <1>3 DEF P, pass

(* The arcs that come to rest do so by the third pass; the others are in   *)
(* the arc throughout.                                                     *)
LEMMA RestOrSwing ==
  ASSUME NEW flags \in SUBSET Bits
  PROVE  /\ \A n \in 0..8 : Passed(flags, n) \in Instances
         /\ \A n \in 0..7 :
              Passed(flags, n).state \notin InArc
                => Passed(flags, n + 1) = Passed(flags, n)
         /\ \/ Passed(flags, 3).state \notin InArc
            \/ /\ \A n \in 0..7 : Passed(flags, n).state \in InArc
               /\ Passed(flags, 8).state = STATE_FRICTION
<1> DEFINE P(n) == Passed(flags, n)
           pass == arc_pass(flags)
<1>0. PID \in Nat
  BY ArcAssumption
<1>1. /\ P(0) = schema_init(PID)
      /\ P(1) = pass[P(0)] /\ P(2) = pass[P(1)] /\ P(3) = pass[P(2)]
      /\ P(4) = pass[P(3)] /\ P(5) = pass[P(4)] /\ P(6) = pass[P(5)]
      /\ P(7) = pass[P(6)] /\ P(8) = pass[P(7)]
  BY DEF Passed
<1>2. /\ P(3) \in Instances
      /\ IF ArcOutcome(flags) = STATE_FRICTION
         THEN /\ P(3).state = STATE_RECOVERY
              /\ popcount(flags \cap F9_MASK) \in 0..7
              /\ popcount(flags \cap F6_MASK) \in 3..6
         ELSE P(3).state \in {STATE_FUNDAMENTAL, STATE_PERFECT,
                              STATE_SETTLED, STATE_EXCISED}
  <2> HIDE DEF P
  <2> QED BY <1>0, <1>1, ThreePasses
<1>3. P(0) \in Instances
  BY <1>0, <1>1, InitType
<1> HIDE DEF P
<1>4. P(1) \in Instances /\ P(2) \in Instances
  BY <1>1, <1>3, PassType
<1>5. /\ P(4) \in Instances /\ P(5) \in Instances /\ P(6) \in Instances
      /\ P(7) \in Instances /\ P(8) \in Instances
  BY <1>1, <1>2, PassType
<1>6. ASSUME NEW n \in 0..8 PROVE P(n) \in Instances
  <2>1. \/ n = 0 \/ n = 1 \/ n = 2 \/ n = 3 \/ n = 4
        \/ n = 5 \/ n = 6 \/ n = 7 \/ n = 8
    OBVIOUS
  <2> QED BY <1>2, <1>3, <1>4, <1>5, <2>1
<1>7. ASSUME NEW n \in 0..7, P(n).state \notin InArc
      PROVE  P(n + 1) = P(n)
  <2>1. P(n + 1) = pass[P(n)]
    BY OnePassMore DEF P
  <2>2. P(n) \in Instances
    BY <1>6
  <2> QED BY <1>7, <2>1, <2>2, PassAtRest
<1>8. ASSUME ArcOutcome(flags) # STATE_FRICTION
      PROVE  P(3).state \notin InArc
  BY <1>2, <1>8 DEF InArc
<1>9. ASSUME ArcOutcome(flags) = STATE_FRICTION
      PROVE  /\ \A n \in 0..7 : P(n).state \in InArc
             /\ P(8).state = STATE_FRICTION
  <2>1. /\ P(3).state = STATE_RECOVERY
        /\ popcount(flags \cap F9_MASK) \in 0..7
        /\ popcount(flags \cap F6_MASK) \in 3..6
    BY <1>2, <1>9
  <2>2. P(4).state = STATE_FRICTION /\ P(5).state = STATE_RECOVERY
    BY <1>1, <1>2, <2>1, Swing
  <2>3. P(6).state = STATE_FRICTION /\ P(7).state = STATE_RECOVERY
    BY <1>1, <1>5, <2>1, <2>2, Swing
  <2>4. P(8).state = STATE_FRICTION
    BY <1>1, <1>5, <2>1, <2>3, Swing
  <2>5. P(2).state \in InArc
    BY <1>1, <1>4, <2>1, PassAtRest DEF InArc
  <2>6. P(1).state \in InArc
    BY <1>1, <1>4, <2>5, PassAtRest DEF InArc
  <2>7. P(0).state \in InArc
    BY <1>0, <1>1, InitType DEF InArc
  <2>8. ASSUME NEW n \in 0..7 PROVE P(n).state \in InArc
    <3>1. n = 0 \/ n = 1 \/ n = 2 \/ n = 3 \/ n = 4 \/ n = 5 \/ n = 6 \/ n = 7
      OBVIOUS
    <3> QED
      BY <2>1, <2>2, <2>3, <2>5, <2>6, <2>7, <3>1 DEF InArc
  <2> QED BY <2>4, <2>8
<1> QED
  BY <1>6, <1>7, <1>8, <1>9 DEF P

(* What a pass leaves alone, the passes that follow leave alone.           *)
LEMMA RestLasts ==
  ASSUME NEW flags \in SUBSET Bits, NEW n \in 0..8,
         Passed(flags, n).state \notin InArc
  PROVE  Passed(flags, 8) = Passed(flags, n)
<1> DEFINE P(m) == Passed(flags, m)
<1>1. \A m \in 0..7 : P(m).state \notin InArc => P(m + 1) = P(m)
  BY RestOrSwing
<1> HIDE DEF P
<1>2. /\ P(7).state \notin InArc => P(8) = P(7)
      /\ P(6).state \notin InArc => P(7) = P(6)
      /\ P(5).state \notin InArc => P(6) = P(5)
      /\ P(4).state \notin InArc => P(5) = P(4)
      /\ P(3).state \notin InArc => P(4) = P(3)
      /\ P(2).state \notin InArc => P(3) = P(2)
      /\ P(1).state \notin InArc => P(2) = P(1)
      /\ P(0).state \notin InArc => P(1) = P(0)
  BY <1>1
<1>3. \/ n = 0 \/ n = 1 \/ n = 2 \/ n = 3 \/ n = 4
      \/ n = 5 \/ n = 6 \/ n = 7 \/ n = 8
  OBVIOUS
<1>4. P(n).state \notin InArc
  BY DEF P
<1> QED
  BY <1>2, <1>3, <1>4 DEF P

ArcInv ==
  /\ arc_flags \in SUBSET Bits
  /\ looping =>
       /\ iters \in 0..ITERS_MAX
       /\ arc_inst = Passed(arc_flags, iters)
       /\ \A m \in 0..iters-1 : Passed(arc_flags, m).state \in InArc
  /\ ~ looping => arc_inst = Passed(arc_flags, ITERS_MAX)
  /\ SettlesEarlyOrSwings

LEMMA ArcInvInit == ArcInit => ArcInv
BY ArcAssumption, OnePassMore
   DEF ArcInit, ArcInv, SettlesEarlyOrSwings, ITERS_MAX

LEMMA ArcInvStep == ArcInv /\ [ArcNext]_arc_vars => ArcInv'
<1> SUFFICES ASSUME ArcInv, [ArcNext]_arc_vars PROVE ArcInv'
  OBVIOUS
<1> USE DEF ITERS_MAX
<1>1. CASE Evaluate
  <2>1. /\ looping /\ looping' = looping /\ arc_flags' = arc_flags
        /\ iters \in 0..7 /\ iters' = iters + 1
        /\ arc_inst = Passed(arc_flags, iters)
        /\ arc_inst.state \in InArc
        /\ arc_inst' = schema_eval(arc_inst, arc_flags)
        /\ \A m \in 0..iters-1 : Passed(arc_flags, m).state \in InArc
        /\ arc_flags \in SUBSET Bits
    BY <1>1 DEF Evaluate, ArcInv
  <2>2. arc_inst \in Instances
    BY <2>1, RestOrSwing
  <2>3. arc_inst' = arc_pass(arc_flags)[arc_inst]
    BY <2>1, <2>2, PassType
  <2>4. arc_inst' = Passed(arc_flags, iters + 1)
    BY <2>1, <2>3, OnePassMore
  <2>5. \A m \in 0..iters'-1 : m \in 0..iters-1 \/ m = iters
    BY <2>1
  <2>6. \A m \in 0..iters'-1 : Passed(arc_flags, m).state \in InArc
    BY <2>1, <2>5
  <2>7. iters' \in 0..8
    BY <2>1
  <2> QED
    BY <2>1, <2>4, <2>6, <2>7 DEF ArcInv, SettlesEarlyOrSwings
<1>2. CASE Leave
  <2>1. /\ looping /\ ~ looping' /\ arc_flags' = arc_flags
        /\ arc_inst' = arc_inst
        /\ iters \in 0..8 /\ iters' = iters + 1
        /\ iters < 8 => arc_inst.state \notin InArc
        /\ arc_inst = Passed(arc_flags, iters)
        /\ \A m \in 0..iters-1 : Passed(arc_flags, m).state \in InArc
        /\ arc_flags \in SUBSET Bits
    BY <1>2 DEF Leave, ArcInv
  <2>2. arc_inst = Passed(arc_flags, 8)
    <3>1. CASE iters = 8
      BY <2>1, <3>1
    <3>2. CASE iters < 8
      BY <2>1, <3>2, RestLasts
    <3> QED BY <2>1, <3>1, <3>2
  <2>3. \/ Passed(arc_flags, 3).state \notin InArc
        \/ /\ \A n \in 0..7 : Passed(arc_flags, n).state \in InArc
           /\ Passed(arc_flags, 8).state = STATE_FRICTION
    BY <2>1, RestOrSwing
  <2>4. CASE Passed(arc_flags, 3).state \notin InArc
    <3>1. ~ (3 \in 0..iters-1)
      BY <2>1, <2>4
    <3>2. iters <= 3
      BY <2>1, <3>1
    <3>3. arc_inst'.state \notin InArc /\ iters' <= 4
      BY <2>1, <3>2
    <3> QED
      BY <2>1, <2>2, <3>3 DEF ArcInv, SettlesEarlyOrSwings
  <2>5. CASE /\ \A n \in 0..7 : Passed(arc_flags, n).state \in InArc
             /\ Passed(arc_flags, 8).state = STATE_FRICTION
    <3>1. iters = 8
      <4>1. iters < 8 => iters \in 0..7
        BY <2>1
      <4> QED BY <2>1, <2>5, <4>1
    <3>2. arc_inst'.state = STATE_FRICTION /\ iters' = 9
      BY <2>1, <2>2, <2>5, <3>1
    <3> QED
      BY <2>1, <2>2, <3>2 DEF ArcInv, SettlesEarlyOrSwings
  <2> QED BY <2>3, <2>4, <2>5
<1>3. CASE UNCHANGED arc_vars
  BY <1>3 DEF arc_vars, ArcInv, SettlesEarlyOrSwings
<1> QED
  BY <1>1, <1>2, <1>3 DEF ArcNext

(* For every word of flags: a loop that is left has computed run_arc and   *)
(* ended in the state ArcOutcome states.                                   *)
THEOREM LoopIsArc == ArcSpec => []LoopComputesArc
<1>1. ArcInv => LoopComputesArc
  <2> SUFFICES ASSUME ArcInv, ~ looping
               PROVE  /\ arc_inst = run_arc(schema_init(PID), arc_flags)
                      /\ arc_inst.state = ArcOutcome(arc_flags)
    BY DEF LoopComputesArc
  <2>1. arc_flags \in SUBSET Bits /\ PID \in Nat
    BY ArcAssumption DEF ArcInv
  <2>2. arc_inst = run_arc(schema_init(PID), arc_flags)
    BY OnePassMore DEF ArcInv, ITERS_MAX
  <2>3. run_arc(schema_init(PID), arc_flags).state = ArcOutcome(arc_flags)
    BY <2>1, ArcComputesOutcome
  <2> QED BY <2>2, <2>3
<1> QED
  BY <1>1, ArcInvInit, ArcInvStep, PTL DEF ArcSpec

(* For every word of flags: the limit of eight evaluations cuts off no arc *)
(* that would still come to rest.                                          *)
THEOREM LimitCutsNothing == ArcSpec => []SettlesEarlyOrSwings
<1>1. ArcInv => SettlesEarlyOrSwings
  BY DEF ArcInv
<1> QED
  BY <1>1, ArcInvInit, ArcInvStep, PTL DEF ArcSpec

-----------------------------------------------------------------------------
(***************************************************************************)
(* The process table.                                                      *)
(***************************************************************************)
Rest == {STATE_FUNDAMENTAL, STATE_PERFECT, STATE_SETTLED, STATE_FRICTION,
         STATE_EXCISED}

(* What the arc makes of an entry.                                         *)
LEMMA ThroughArc ==
  ASSUME NEW p \in Entries, NEW pid \in Nat, NEW flags \in SUBSET Bits
  PROVE  LET q == through_arc(p, pid, flags)
         IN  /\ q \in Entries
             /\ q.inst.pid = pid
             /\ q.inst.state = ArcOutcome(flags)
             /\ q.inst.state \in Rest
             /\ WeightFor(q.inst.state, q.inst.weight)
             /\ q.active <=> ArcOutcome(flags) # STATE_EXCISED
             /\ q.restartable = p.restartable
             /\ q.restart_count = p.restart_count
             /\ q.initial_flags = p.initial_flags
<1> DEFINE e == run_arc(schema_init(pid), flags)
           q == through_arc(p, pid, flags)
<1>1. /\ e \in Instances /\ e.pid = pid /\ e.state = ArcOutcome(flags)
      /\ e.state \in Rest
      /\ WeightFor(e.state, e.weight)
  BY ArcComputesOutcome DEF Rest
<1>2. q = [p EXCEPT !.inst = e, !.active = e.state # STATE_EXCISED]
  BY DEF through_arc
<1> HIDE DEF e, q
<1>3. q \in Entries /\ q.inst = e
  BY <1>1, <1>2 DEF Entries
<1>4. /\ q.active = (e.state # STATE_EXCISED)
      /\ q.restartable = p.restartable
      /\ q.restart_count = p.restart_count
      /\ q.initial_flags = p.initial_flags
  BY <1>2 DEF Entries
<1> QED
  BY <1>1, <1>3, <1>4 DEF q

(* One turn of the restart loop.                                           *)
LEMMA RestartTurn ==
  ASSUME NEW p \in Entries, NEW q, q = restart_turn[p]
  PROVE  /\ q \in Entries
         /\ q.inst.pid = p.inst.pid
         /\ q.restartable = p.restartable
         /\ q.initial_flags = p.initial_flags
         /\ p.active \/ p.restart_count = MAX_RESTARTS => q = p
         /\ ~ p.active /\ p.restart_count # MAX_RESTARTS =>
              /\ q.restart_count = p.restart_count + 1
              /\ q.inst.state = ArcOutcome(p.initial_flags)
              /\ q.inst.state \in Rest
              /\ WeightFor(q.inst.state, q.inst.weight)
              /\ q.active <=> ArcOutcome(p.initial_flags) # STATE_EXCISED
<1>1. p.restart_count \in 0..3 /\ p.inst.pid \in Nat
      /\ p.initial_flags \in SUBSET Bits
  BY DEF Entries, Instances, MAX_RESTARTS
<1>2. CASE p.active \/ p.restart_count = MAX_RESTARTS
  BY <1>1, <1>2 DEF restart_turn, MAX_RESTARTS
<1>3. CASE ~ p.active /\ p.restart_count # MAX_RESTARTS
  <2> DEFINE r == [p EXCEPT !.restart_count = @ + 1]
  <2>1. r \in Entries /\ r.restart_count = p.restart_count + 1
        /\ r.restartable = p.restartable /\ r.initial_flags = p.initial_flags
    BY <1>1, <1>3 DEF Entries, MAX_RESTARTS
  <2>2. q = through_arc(r, p.inst.pid, p.initial_flags)
    BY <1>1, <1>3 DEF restart_turn, MAX_RESTARTS
  <2> HIDE DEF r
  <2> QED
    BY <1>1, <1>3, <2>1, <2>2, ThroughArc
<1> QED
  BY <1>2, <1>3

(* The whole loop: an entry whose flags do not carry it through the arc    *)
(* uses up every turn and stays down; any other is up after one turn.      *)
LEMMA DoRestart ==
  ASSUME NEW p \in Entries, ~ p.active, NEW q, q = do_restart(p)
  PROVE  /\ q \in Entries
         /\ q.inst.pid = p.inst.pid
         /\ q.restartable = p.restartable
         /\ q.initial_flags = p.initial_flags
         /\ ArcOutcome(p.initial_flags) = STATE_EXCISED =>
              ~ q.active /\ q.restart_count = MAX_RESTARTS
         /\ q.active =>
              /\ q.inst.state = ArcOutcome(p.initial_flags)
              /\ q.inst.state \in Rest \ {STATE_EXCISED}
              /\ WeightFor(q.inst.state, q.inst.weight)
              /\ q.restart_count \in 1..MAX_RESTARTS
<1> DEFINE p1 == restart_turn[p]
           p2 == restart_turn[p1]
           p3 == restart_turn[p2]
<1>0. q = p3
  BY DEF do_restart
<1>1. p.restart_count \in 0..3
  BY DEF Entries, MAX_RESTARTS
<1> HIDE DEF p1, p2, p3
<1>2. p1 = restart_turn[p] /\ p2 = restart_turn[p1] /\ p3 = restart_turn[p2]
  BY DEF p1, p2, p3
<1> DEFINE x == ArcOutcome(p.initial_flags)
<1> DEFINE Step(a, b) ==
             /\ b \in Entries /\ b.inst.pid = a.inst.pid
             /\ b.restartable = a.restartable
             /\ b.initial_flags = a.initial_flags
             /\ a.active \/ a.restart_count = 3 => b = a
             /\ ~ a.active /\ a.restart_count # 3 =>
                  /\ b.restart_count = a.restart_count + 1
                  /\ b.inst.state = ArcOutcome(a.initial_flags)
                  /\ b.inst.state \in Rest
                  /\ WeightFor(b.inst.state, b.inst.weight)
                  /\ b.active <=> ArcOutcome(a.initial_flags) # STATE_EXCISED
<1>3. Step(p, p1)
  BY <1>2, RestartTurn DEF MAX_RESTARTS
<1>4. Step(p1, p2)
  BY <1>2, <1>3, RestartTurn DEF MAX_RESTARTS
<1>5. Step(p2, p3)
  BY <1>2, <1>4, RestartTurn DEF MAX_RESTARTS
<1>6. /\ p3 \in Entries /\ p3.inst.pid = p.inst.pid
      /\ p3.restartable = p.restartable
      /\ p3.initial_flags = p.initial_flags
  BY <1>3, <1>4, <1>5
<1>7. CASE p.restart_count = 3
  <2>1. p3 = p
    BY <1>3, <1>4, <1>5, <1>7
  <2> QED BY <1>0, <1>6, <1>7, <2>1 DEF MAX_RESTARTS
<1>8. CASE p.restart_count # 3 /\ x # STATE_EXCISED
  <2>1. p3 = p1 /\ p1.active
    BY <1>3, <1>4, <1>5, <1>8
  <2> QED BY <1>0, <1>1, <1>3, <1>6, <1>8, <2>1 DEF MAX_RESTARTS
<1>9. CASE p.restart_count # 3 /\ x = STATE_EXCISED
  <2>1. ~ p1.active /\ p1.restart_count = p.restart_count + 1
        /\ p1.initial_flags = p.initial_flags
    BY <1>3, <1>9
  <2>2. ~ p2.active /\ p2.initial_flags = p.initial_flags
        /\ p2.restart_count = IF p1.restart_count = 3 THEN 3
                              ELSE p1.restart_count + 1
    BY <1>4, <1>9, <2>1
  <2>3. ~ p3.active
        /\ p3.restart_count = IF p2.restart_count = 3 THEN 3
                              ELSE p2.restart_count + 1
    BY <1>5, <1>9, <2>2
  <2>4. p3.restart_count = 3
    BY <1>1, <1>9, <2>1, <2>2, <2>3
  <2> QED BY <1>0, <1>6, <1>9, <2>3, <2>4 DEF MAX_RESTARTS
<1> QED
  BY <1>7, <1>8, <1>9

-----------------------------------------------------------------------------
(* What holds of an entry at all times, and of an entry filled by a spawn  *)
Sound(p) ==
  /\ p.active => /\ p.inst.state \in Final \cup {STATE_RECOVERY, STATE_FRICTION}
                 /\ WeightFor(p.inst.state, p.inst.weight)
                 /\ p.inst.pid # 0
  /\ p.inst.pid = 0 => p.initial_flags = {}

Budgeted(p) ==
  p.restart_count > 0 /\ ArcOutcome(p.initial_flags) = STATE_EXCISED
    => ~ p.active /\ p.restart_count = MAX_RESTARTS

(* The word of zeroes is excised: this is what keeps pid 0 from running.   *)
LEMMA NoFlagsExcised == ArcOutcome({}) = STATE_EXCISED
<1>1. \A m : popcount({} \cap m) = 0
  BY FS_EmptySet DEF popcount
<1>2. ~ (F8_MASK \subseteq {})
  BY DEF F8_MASK
<1> QED
  BY <1>1, <1>2 DEF ArcOutcome, SHIFT_THRESHOLD_8, SHIFT_THRESHOLD_9,
                    SHIFT_THRESHOLD_6

(* A restart leaves a sound entry, whatever the entry was.                 *)
LEMMA RestartSound ==
  ASSUME NEW p \in Entries, ~ p.active,
         p.inst.pid = 0 => p.initial_flags = {},
         NEW q, q = do_restart(p)
  PROVE  q \in Entries /\ q.inst.pid = p.inst.pid /\ Sound(q) /\ Budgeted(q)
<1>1. /\ q \in Entries
      /\ q.inst.pid = p.inst.pid
      /\ q.initial_flags = p.initial_flags
      /\ ArcOutcome(p.initial_flags) = STATE_EXCISED =>
           ~ q.active /\ q.restart_count = MAX_RESTARTS
      /\ q.active =>
           /\ q.inst.state \in Rest \ {STATE_EXCISED}
           /\ WeightFor(q.inst.state, q.inst.weight)
  BY DoRestart
<1>2. q.active => q.inst.pid # 0
  BY <1>1, NoFlagsExcised
<1> QED
  BY <1>1, <1>2 DEF Sound, Budgeted, Final, Rest

(* The end of spawn and eval leaves a sound entry, within its budget if no *)
(* part of that was used in vain before.                                   *)
LEMMA AfterEvalSound ==
  ASSUME NEW p \in Entries,
         p.inst.state # STATE_EXCISED => Sound(p),
         p.inst.pid = 0 => p.initial_flags = {},
         NEW q, q = after_eval(p)
  PROVE  /\ q \in Entries /\ q.inst.pid = p.inst.pid /\ Sound(q)
         /\ ~ (p.restart_count > 0
                 /\ ArcOutcome(p.initial_flags) = STATE_EXCISED) => Budgeted(q)
<1>1. CASE p.inst.state # STATE_EXCISED
  BY <1>1 DEF after_eval, Budgeted
<1>2. CASE p.inst.state = STATE_EXCISED
  <2> DEFINE r == [p EXCEPT !.active = FALSE]
  <2>1. /\ r \in Entries /\ ~ r.active /\ r.inst = p.inst
        /\ r.initial_flags = p.initial_flags
        /\ r.restart_count = p.restart_count
    BY DEF Entries
  <2>2. q = IF p.restartable THEN do_restart(r) ELSE r
    BY <1>2 DEF after_eval
  <2> HIDE DEF r
  <2>3. CASE p.restartable
    BY <2>1, <2>2, <2>3, RestartSound
  <2>4. CASE ~ p.restartable
    BY <2>1, <2>2, <2>4 DEF Sound, Budgeted
  <2> QED BY <2>3, <2>4
<1> QED
  BY <1>1, <1>2

-----------------------------------------------------------------------------
(***************************************************************************)
(* The inductive invariant.  PidsUniqueInEpoch and BudgetSpent need the    *)
(* pids and the flags of entries that do not run, because a restart may    *)
(* make them run again.                                                    *)
(***************************************************************************)
IInv ==
  /\ TypeOK
  /\ \A s \in Slots : Sound(procs[s])
  /\ \A s \in Slots : born[s].by \in {"spawn", "rspawn"} => Budgeted(procs[s])
  /\ \A s \in Slots : born[s].epoch <= epoch
  /\ PidsUniqueInEpoch
  /\ BootFindsSlot

LEMMA InitIInv == Init => IInv
<1> SUFFICES ASSUME Init PROVE IInv
  OBVIOUS
<1>1. virgin \in Entries /\ Sound(virgin)
  BY DEF virgin, Entries, Instances, States, Sound, STATE_9_MAX, MAX_RESTARTS
<1>2. TypeOK
  <2>1. procs \in [Slots -> Entries]
    BY <1>1 DEF Init
  <2> QED
    BY <2>1, ProcAssumption DEF Init, TypeOK, Origins
<1>3. \A s \in Slots : procs[s] = virgin /\ born[s] = [epoch |-> 0, by |-> "none"]
  BY DEF Init
<1>4. PidsUniqueInEpoch
  BY <1>3 DEF PidsUniqueInEpoch, BornNow
<1>5. BootFindsSlot
  BY ProcAssumption DEF Init, BootFindsSlot, Booting
<1> QED
  BY <1>1, <1>2, <1>3, <1>4, <1>5 DEF IInv, Init

(* A command that changes one entry and leaves its pid: eval, kill and     *)
(* restart.                                                                *)
LEMMA SamePid ==
  ASSUME IInv, NEW s \in Slots, NEW q \in Entries, ~ Booting,
         q.inst.pid = procs[s].inst.pid, Sound(q),
         born[s].by \in {"spawn", "rspawn"} => Budgeted(q),
         procs' = [procs EXCEPT ![s] = q],
         UNCHANGED <<next_pid, node, epoch, born>>
  PROVE  IInv'
<1> USE DEF IInv
<1>1. TypeOK'
  BY DEF TypeOK
<1>2. \A t \in Slots : /\ procs'[t] = IF t = s THEN q ELSE procs[t]
                       /\ procs'[t].inst.pid = procs[t].inst.pid
  BY DEF TypeOK
<1>3. PidsUniqueInEpoch'
  BY <1>2 DEF PidsUniqueInEpoch, BornNow
<1>4. BootFindsSlot'
  BY DEF BootFindsSlot, Booting
<1> QED
  BY <1>1, <1>2, <1>3, <1>4

(* A command that gives an entry a process with the next pid: spawn, and   *)
(* one turn of bootleg.                                                    *)
LEMMA NextPid ==
  ASSUME IInv, NEW s \in Slots, NEW q \in Entries,
         NEW by \in {"spawn", "rspawn", "bootleg"},
         q.inst.pid = next_pid, Sound(q), by # "bootleg" => Budgeted(q),
         procs' = [procs EXCEPT ![s] = q],
         born' = [born EXCEPT ![s] = [epoch |-> epoch, by |-> by]],
         next_pid' = next_pid + 1, node' \in 0..MAX_PROCS, epoch' = epoch,
         BootFindsSlot'
  PROVE  IInv'
<1> USE DEF IInv
<1>1. TypeOK'
  BY DEF TypeOK, Origins
<1>2. \A t \in Slots :
        /\ procs'[t] = IF t = s THEN q ELSE procs[t]
        /\ born'[t] = IF t = s THEN [epoch |-> epoch, by |-> by] ELSE born[t]
  BY DEF TypeOK
<1>3. \A t \in Slots : t # s => (BornNow(t)' <=> BornNow(t))
  BY <1>2 DEF BornNow
<1>4. PidsUniqueInEpoch'
  <2>1. \A t \in Slots : t # s /\ BornNow(t)'
          => procs'[t].inst.pid \in 1..next_pid - 1
    BY <1>2, <1>3 DEF PidsUniqueInEpoch
  <2>2. next_pid \in Nat \ {0}
    BY DEF TypeOK
  <2>3. \A t \in Slots : BornNow(t)' => procs'[t].inst.pid \in 1..next_pid' - 1
    BY <1>2, <2>1, <2>2
  <2>4. \A t, u \in Slots :
          BornNow(t)' /\ BornNow(u)' /\ procs'[t].inst.pid = procs'[u].inst.pid
            => t = u
    BY <1>2, <1>3, <2>1, <2>2 DEF PidsUniqueInEpoch
  <2> QED BY <2>3, <2>4 DEF PidsUniqueInEpoch
<1>5. \A t \in Slots : Sound(procs'[t])
  BY <1>2
<1>6. \A t \in Slots : born'[t].by \in {"spawn", "rspawn"} => Budgeted(procs'[t])
  BY <1>2
<1>7. \A t \in Slots : born'[t].epoch <= epoch'
  BY <1>2 DEF TypeOK
<1> QED
  BY <1>1, <1>4, <1>5, <1>6, <1>7

-----------------------------------------------------------------------------
(***************************************************************************)
(* One step of each command.                                               *)
(***************************************************************************)
LEMMA SpawnStep ==
  ASSUME IInv, NEW flags \in FLAGS, NEW restartable \in BOOLEAN,
         cmd_spawn(flags, restartable)
  PROVE  IInv'
<1>1. PICK s \in Slots :
        /\ FirstFree(s)
        /\ procs' = [procs EXCEPT ![s] = after_eval(through_arc(
                       [procs[s] EXCEPT !.restartable = restartable,
                                        !.initial_flags = flags,
                                        !.restart_count = 0],
                       next_pid, flags))]
        /\ born' = [born EXCEPT ![s] =
             [epoch |-> epoch,
              by    |-> IF restartable THEN "rspawn" ELSE "spawn"]]
  BY DEF cmd_spawn
<1> DEFINE p == [procs[s] EXCEPT !.restartable = restartable,
                                 !.initial_flags = flags,
                                 !.restart_count = 0]
           r == through_arc(p, next_pid, flags)
           q == after_eval(r)
           by == IF restartable THEN "rspawn" ELSE "spawn"
<1>2. procs[s] \in Entries /\ flags \in SUBSET Bits /\ next_pid \in Nat \ {0}
  BY ProcAssumption DEF IInv, TypeOK
<1>3. p \in Entries /\ p.restart_count = 0
  <2>1. 0 \in 0..MAX_RESTARTS
    BY DEF MAX_RESTARTS
  <2> QED BY <1>2, <2>1, Zenon DEF Entries
<1> HIDE DEF p
<1>4. /\ r \in Entries
      /\ r.inst.pid = next_pid
      /\ r.inst.state = ArcOutcome(flags)
      /\ r.inst.state \in Rest
      /\ WeightFor(r.inst.state, r.inst.weight)
      /\ r.active <=> ArcOutcome(flags) # STATE_EXCISED
      /\ r.restart_count = 0
  BY <1>2, <1>3, ThroughArc
<1> HIDE DEF r
<1>5. Sound(r)
  BY <1>2, <1>4 DEF Sound, Rest, Final
<1>6. q \in Entries /\ q.inst.pid = next_pid /\ Sound(q) /\ Budgeted(q)
  BY <1>2, <1>4, <1>5, AfterEvalSound
<1>7. procs' = [procs EXCEPT ![s] = q]
  BY <1>1 DEF r, p
<1>8. born' = [born EXCEPT ![s] = [epoch |-> epoch, by |-> by]]
  BY <1>1
<1>9. BootFindsSlot' /\ node' \in 0..MAX_PROCS
  BY DEF cmd_spawn, IInv, TypeOK, BootFindsSlot, Booting
<1>10. next_pid' = next_pid + 1 /\ epoch' = epoch
  BY DEF cmd_spawn
<1>11. by \in {"spawn", "rspawn", "bootleg"}
  OBVIOUS
<1> HIDE DEF q, by
<1> QED
  BY <1>6, <1>7, <1>8, <1>9, <1>10, <1>11, NextPid

LEMMA EvalStep ==
  ASSUME IInv, NEW pid \in Pids, NEW flags \in FLAGS, cmd_eval(pid, flags)
  PROVE  IInv'
<1>1. PICK s \in Slots :
        /\ procs[s].active
        /\ procs' = [procs EXCEPT ![s] =
             after_eval([procs[s] EXCEPT
               !.inst = schema_eval(procs[s].inst, flags)])]
  BY DEF cmd_eval, FirstRunning
<1> DEFINE i == procs[s].inst
           e == schema_eval(i, flags)
           p == [procs[s] EXCEPT !.inst = e]
           q == after_eval(p)
<1>2. procs[s] \in Entries /\ i \in Instances /\ flags \in SUBSET Bits
  BY ProcAssumption DEF IInv, TypeOK, Entries
<1>3. /\ i.state \in Final \cup {STATE_RECOVERY, STATE_FRICTION}
      /\ WeightFor(i.state, i.weight)
      /\ i.pid # 0
  BY <1>1 DEF IInv, Sound
<1> HIDE DEF i
<1>4. /\ e \in Instances /\ e.pid = i.pid
      /\ e.state # STATE_EXCISED =>
           /\ e.state \in Final \cup {STATE_RECOVERY, STATE_FRICTION}
           /\ WeightFor(e.state, e.weight)
  <2>1. CASE i.state = STATE_RECOVERY
    <3> DEFINE w == popcount(flags \cap F9_MASK)
    <3>1. w \in 0..12
      BY <1>2, Weights
    <3>2. /\ e \in Instances /\ e.pid = i.pid /\ e.weight = w
          /\ e.state = IF w >= 8 THEN STATE_SETTLED ELSE STATE_FRICTION
      BY <1>2, <2>1, EvalRecovery
    <3> HIDE DEF w, e
    <3> QED BY <3>1, <3>2 DEF Final, WeightFor
  <2>2. CASE i.state = STATE_FRICTION
    <3> DEFINE w == popcount(flags \cap F6_MASK)
    <3>1. w \in 0..6
      BY <1>2, Weights
    <3>2. /\ e \in Instances /\ e.pid = i.pid /\ e.weight = w
          /\ e.state = IF w >= 3 THEN STATE_RECOVERY ELSE STATE_EXCISED
      BY <1>2, <2>2, EvalFriction
    <3> HIDE DEF w, e
    <3> QED BY <3>1, <3>2 DEF Final, WeightFor
  <2>3. CASE i.state \in Final
    <3>1. i.state \notin InArc
      BY <2>3 DEF InArc, Final
    <3>2. /\ e \in Instances /\ e.pid = i.pid
          /\ e.weight = i.weight /\ e.state = i.state
      BY <1>2, <3>1, EvalAtRest
    <3> QED BY <1>3, <3>2
  <2> QED BY <1>3, <2>1, <2>2, <2>3
<1> HIDE DEF e
<1>5. /\ p \in Entries /\ p.inst = e /\ p.active
      /\ p.initial_flags = procs[s].initial_flags
      /\ p.restart_count = procs[s].restart_count
  BY <1>1, <1>2, <1>4 DEF Entries
<1> HIDE DEF p
<1>6. p.inst.state # STATE_EXCISED => Sound(p)
  BY <1>3, <1>4, <1>5 DEF Sound
<1>7. /\ q \in Entries /\ q.inst.pid = p.inst.pid /\ Sound(q)
      /\ ~ (p.restart_count > 0
              /\ ArcOutcome(p.initial_flags) = STATE_EXCISED) => Budgeted(q)
  BY <1>3, <1>4, <1>5, <1>6, AfterEvalSound
<1>8. born[s].by \in {"spawn", "rspawn"} => Budgeted(q)
  BY <1>1, <1>5, <1>7 DEF IInv, Budgeted
<1>9. procs' = [procs EXCEPT ![s] = q]
  BY <1>1 DEF p, e, i
<1>10. q.inst.pid = procs[s].inst.pid
  BY <1>4, <1>5, <1>7 DEF i
<1> HIDE DEF q
<1> QED
  BY <1>7, <1>8, <1>9, <1>10, SamePid DEF cmd_eval

LEMMA KillStep ==
  ASSUME IInv, NEW pid \in Pids, cmd_kill(pid)
  PROVE  IInv'
<1>1. PICK s \in Slots :
        /\ procs[s].active
        /\ procs' = [procs EXCEPT ![s].inst.state  = STATE_EXCISED,
                                  ![s].inst.weight = 0,
                                  ![s].active      = FALSE]
  BY DEF cmd_kill, FirstRunning
<1> DEFINE i == [procs[s].inst EXCEPT !.state = STATE_EXCISED, !.weight = 0]
           q == [procs[s] EXCEPT !.inst = i, !.active = FALSE]
<1>2. procs[s] \in Entries /\ procs[s].inst \in Instances
  BY DEF IInv, TypeOK, Entries
<1>3. /\ q \in Entries /\ ~ q.active /\ q.inst.pid = procs[s].inst.pid
      /\ q.initial_flags = procs[s].initial_flags
      /\ q.restart_count = procs[s].restart_count
  <2>1. i \in Instances /\ i.pid = procs[s].inst.pid
    <3>1. 0 \in 0..STATE_9_MAX
      BY DEF STATE_9_MAX
    <3>2. STATE_EXCISED \in States
      BY DEF States
    <3> QED BY <1>2, <3>1, <3>2 DEF Instances
  <2> HIDE DEF i
  <2> QED BY <1>2, <2>1 DEF Entries
<1>4. procs' = [procs EXCEPT ![s] = q]
  BY <1>1, <1>2 DEF IInv, TypeOK, Entries, Instances
<1> HIDE DEF q
<1>5. Sound(q)
  BY <1>3 DEF IInv, Sound
<1>6. born[s].by \in {"spawn", "rspawn"} => Budgeted(q)
  BY <1>1, <1>3 DEF IInv, Budgeted
<1> QED
  BY <1>3, <1>4, <1>5, <1>6, SamePid DEF cmd_kill

LEMMA RestartStep ==
  ASSUME IInv, NEW pid \in Pids, cmd_restart(pid)
  PROVE  IInv'
<1>1. PICK s \in Slots :
        /\ ~ procs[s].active
        /\ procs' = [procs EXCEPT
             ![s] = do_restart([procs[s] EXCEPT !.restart_count = 0])]
  BY DEF cmd_restart
<1> DEFINE p == [procs[s] EXCEPT !.restart_count = 0]
           q == do_restart(p)
<1>2. procs[s] \in Entries
  BY DEF IInv, TypeOK
<1>3. /\ p \in Entries /\ ~ p.active /\ p.inst = procs[s].inst
      /\ p.initial_flags = procs[s].initial_flags
  BY <1>1, <1>2 DEF Entries, MAX_RESTARTS
<1> HIDE DEF p
<1>4. q \in Entries /\ q.inst.pid = p.inst.pid /\ Sound(q) /\ Budgeted(q)
  BY <1>3, RestartSound DEF IInv, Sound
<1>5. procs' = [procs EXCEPT ![s] = q]
  BY <1>1 DEF p
<1> HIDE DEF q
<1> QED
  BY <1>3, <1>4, <1>5, SamePid DEF cmd_restart

LEMMA ClearStep ==
  ASSUME IInv, clear_table, node' \in {0, MAX_PROCS}
  PROVE  IInv'
<1> USE DEF IInv, clear_table
<1> DEFINE q(s) == [procs[s] EXCEPT !.active = FALSE]
<1>1. \A s \in Slots :
        /\ procs[s] \in Entries /\ q(s) \in Entries /\ ~ q(s).active
        /\ q(s).inst = procs[s].inst
        /\ q(s).initial_flags = procs[s].initial_flags
        /\ q(s).restart_count = procs[s].restart_count
  BY DEF TypeOK, Entries
<1>2. \A s \in Slots : procs'[s] = q(s) /\ born'[s] = born[s]
  OBVIOUS
<1> HIDE DEF q
<1>3. TypeOK'
  <2>1. procs' \in [Slots -> Entries]
    BY <1>1 DEF q
  <2> QED BY <2>1, ProcAssumption DEF TypeOK
<1>4. ASSUME NEW s \in Slots PROVE Sound(procs'[s])
  <2>1. Sound(procs[s])
    OBVIOUS
  <2>2. procs'[s] = q(s)
    BY <1>2
  <2> QED BY <1>1, <2>1, <2>2 DEF Sound
<1>5. ASSUME NEW s \in Slots, born'[s].by \in {"spawn", "rspawn"}
      PROVE  Budgeted(procs'[s])
  <2>1. Budgeted(procs[s])
    BY <1>2, <1>5
  <2>2. procs'[s] = q(s)
    BY <1>2
  <2> QED BY <1>1, <2>1, <2>2 DEF Budgeted
<1>6. \A s \in Slots : born'[s].epoch <= epoch' /\ born'[s].epoch # epoch'
  BY <1>2 DEF TypeOK, Origins
<1>7. PidsUniqueInEpoch'
  BY <1>6 DEF PidsUniqueInEpoch, BornNow
<1>8. BootFindsSlot'
  BY <1>1, <1>2 DEF BootFindsSlot, Running
<1> QED
  BY <1>3, <1>4, <1>5, <1>6, <1>7, <1>8

LEMMA BootStep ==
  ASSUME IInv, boot_node
  PROVE  IInv'
<1>1. PICK s \in Slots :
        /\ FirstFree(s)
        /\ procs' = [procs EXCEPT
             ![s] = through_arc(procs[s], next_pid, NodeFlags[node])]
        /\ born' = [born EXCEPT ![s] = [epoch |-> epoch, by |-> "bootleg"]]
  BY DEF boot_node
<1> DEFINE q == through_arc(procs[s], next_pid, NodeFlags[node])
<1>2. /\ procs[s] \in Entries /\ next_pid \in Nat \ {0}
      /\ node \in 0..MAX_PROCS - 1 /\ node \in Slots /\ MAX_PROCS \in Nat
      /\ NodeFlags[node] \in SUBSET Bits
  BY ProcAssumption DEF IInv, TypeOK, boot_node, Booting, Slots
<1>3. /\ q \in Entries /\ q.inst.pid = next_pid
      /\ q.inst.state = ArcOutcome(NodeFlags[node])
      /\ q.inst.state \in Rest
      /\ WeightFor(q.inst.state, q.inst.weight)
      /\ q.active <=> ArcOutcome(NodeFlags[node]) # STATE_EXCISED
  <2> DEFINE flags == NodeFlags[node]
  <2>1. procs[s] \in Entries /\ next_pid \in Nat /\ flags \in SUBSET Bits
    BY <1>2
  <2> HIDE DEF flags
  <2>2. /\ through_arc(procs[s], next_pid, flags) \in Entries
        /\ through_arc(procs[s], next_pid, flags).inst.pid = next_pid
        /\ through_arc(procs[s], next_pid, flags).inst.state
             = ArcOutcome(flags)
        /\ through_arc(procs[s], next_pid, flags).inst.state \in Rest
        /\ WeightFor(through_arc(procs[s], next_pid, flags).inst.state,
                     through_arc(procs[s], next_pid, flags).inst.weight)
        /\ through_arc(procs[s], next_pid, flags).active
             <=> ArcOutcome(flags) # STATE_EXCISED
    BY <2>1, ThroughArc
  <2> QED BY <2>2 DEF flags
<1>4. procs' = [procs EXCEPT ![s] = q]
  BY <1>1
<1> HIDE DEF q
<1>5. Sound(q)
  BY <1>2, <1>3 DEF Sound, Rest, Final
<1>6. BootFindsSlot'
  <2>1. Running \subseteq 0..node - 1
    BY DEF IInv, BootFindsSlot, boot_node
  <2>2. ~ procs[node].active
    BY <1>2, <2>1 DEF Running
  <2>3. s <= node
    BY <1>1, <1>2, <2>2 DEF FirstFree, Slots
  <2>4. Running' \subseteq Running \cup {s}
    BY <1>4 DEF Running, IInv, TypeOK
  <2>5. Running' \subseteq 0..node
    BY <1>2, <2>1, <2>3, <2>4 DEF Slots
  <2>6. node' - 1 = node
    BY <1>2 DEF boot_node
  <2> QED BY <2>5, <2>6 DEF BootFindsSlot
<1>7. next_pid' = next_pid + 1 /\ epoch' = epoch /\ node' \in 0..MAX_PROCS
  BY <1>2 DEF boot_node
<1> QED
  BY <1>1, <1>3, <1>4, <1>5, <1>6, <1>7, NextPid

-----------------------------------------------------------------------------
LEMMA NextIInv == IInv /\ [Next]_vars => IInv'
<1> SUFFICES ASSUME IInv, [Next]_vars PROVE IInv'
  OBVIOUS
<1>1. ASSUME NEW flags \in FLAGS, NEW restartable \in BOOLEAN,
             cmd_spawn(flags, restartable)
      PROVE  IInv'
  BY <1>1, SpawnStep
<1>2. ASSUME NEW pid \in Pids, NEW flags \in FLAGS, cmd_eval(pid, flags)
      PROVE  IInv'
  BY <1>2, EvalStep
<1>3. ASSUME NEW pid \in Pids, cmd_kill(pid)
      PROVE  IInv'
  BY <1>3, KillStep
<1>4. ASSUME NEW pid \in Pids, cmd_restart(pid)
      PROVE  IInv'
  BY <1>4, RestartStep
<1>5. CASE cmd_reset
  <2>1. node' \in {0, MAX_PROCS}
    BY <1>5, ProcAssumption DEF cmd_reset, clear_table, Booting, IInv, TypeOK
  <2> QED BY <1>5, <2>1, ClearStep DEF cmd_reset
<1>6. CASE cmd_bootleg
  BY <1>6, ClearStep DEF cmd_bootleg
<1>7. CASE boot_node
  BY <1>7, BootStep
<1>8. CASE UNCHANGED vars
  BY <1>8 DEF vars, IInv, TypeOK, PidsUniqueInEpoch, BornNow, BootFindsSlot,
              Booting, Running
<1> QED
  BY <1>1, <1>2, <1>3, <1>4, <1>5, <1>6, <1>7, <1>8 DEF Next

(* The inductive invariant holds of every behaviour of the process table.  *)
THEOREM Invariance == Spec => []IInv
BY InitIInv, NextIInv, PTL DEF Spec

(* Every entry of the table, and every counter, has its type: a restart    *)
(* count never leaves 0..3 and an evaluation never leaves the states.      *)
THEOREM TypeCorrect == Spec => []TypeOK
<1>1. IInv => TypeOK
  BY DEF IInv
<1> QED
  BY <1>1, Invariance, PTL

(* Two processes created since the last clearing never share a pid.        *)
THEOREM PidsAreUnique == Spec => []PidsUniqueInEpoch
<1>1. IInv => PidsUniqueInEpoch
  BY DEF IInv
<1> QED
  BY <1>1, Invariance, PTL

(* A running process is at rest, or swings between RECOVERY and FRICTION.  *)
THEOREM ActiveIsSettled == Spec => []ActiveSettled
<1>1. IInv => ActiveSettled
  BY DEF IInv, Sound, ActiveSettled, Running
<1> QED
  BY <1>1, Invariance, PTL

(* The entries that were never used are never made to run.                 *)
THEOREM NullPidIsDead == Spec => []NullPidNeverRuns
<1>1. IInv => NullPidNeverRuns
  BY DEF IInv, Sound, NullPidNeverRuns, Running
<1> QED
  BY <1>1, Invariance, PTL

(* A process that cannot survive its flags is not kept alive by restarts.  *)
THEOREM BudgetIsSpent == Spec => []BudgetSpent
<1>1. IInv => BudgetSpent
  BY DEF IInv, Budgeted, BudgetSpent
<1> QED
  BY <1>1, Invariance, PTL

(* The weight of a running process is one that leads to its state.         *)
THEOREM WeightIsJustified == Spec => []WeightJustifiesState
<1>1. IInv => WeightJustifiesState
  <2> SUFFICES ASSUME IInv, NEW s \in Running PROVE
        LET w  == procs[s].inst.weight
            st == procs[s].inst.state
        IN  /\ st = STATE_FUNDAMENTAL => w = STATE_8_MAX
            /\ st = STATE_PERFECT     => w \in SHIFT_THRESHOLD_8 .. STATE_8_MAX - 1
            /\ st = STATE_SETTLED     => w \in SHIFT_THRESHOLD_9 .. STATE_9_MAX
            /\ st = STATE_FRICTION    => w < SHIFT_THRESHOLD_9
            /\ st = STATE_RECOVERY    => w \in SHIFT_THRESHOLD_6 .. STATE_6_MAX
    BY DEF WeightJustifiesState
  <2>1. WeightFor(procs[s].inst.state, procs[s].inst.weight)
    BY DEF IInv, Sound, Running
  <2> QED
    BY <2>1 DEF WeightFor, STATE_8_MAX, STATE_9_MAX, STATE_6_MAX,
                SHIFT_THRESHOLD_8, SHIFT_THRESHOLD_9, SHIFT_THRESHOLD_6
<1> QED
  BY <1>1, Invariance, PTL

(* Bootleg finds a free entry for each of its nodes.                       *)
THEOREM BootAlwaysFindsSlot == Spec => []BootFindsSlot
<1>1. IInv => BootFindsSlot
  BY DEF IInv
<1> QED
  BY <1>1, Invariance, PTL

-----------------------------------------------------------------------------
(***************************************************************************)
(* The action properties.                                                  *)
(***************************************************************************)
(* A step that changes no entry but s, which does not run before it.       *)
OnlyFree(s) ==
  /\ ~ procs[s].active
  /\ \A t \in Slots : t # s => procs'[t] = procs[t]

LEMMA SpawnWakes ==
  ASSUME IInv, NEW flags \in FLAGS, NEW restartable \in BOOLEAN,
         cmd_spawn(flags, restartable)
  PROVE  \E s \in Slots : OnlyFree(s) /\ procs'[s].inst.pid = next_pid
<1>1. PICK s \in Slots :
        /\ FirstFree(s)
        /\ procs' = [procs EXCEPT ![s] = after_eval(through_arc(
                       [procs[s] EXCEPT !.restartable = restartable,
                                        !.initial_flags = flags,
                                        !.restart_count = 0],
                       next_pid, flags))]
  BY DEF cmd_spawn
<1> DEFINE p == [procs[s] EXCEPT !.restartable = restartable,
                                 !.initial_flags = flags,
                                 !.restart_count = 0]
           r == through_arc(p, next_pid, flags)
           q == after_eval(r)
<1>2. procs[s] \in Entries /\ flags \in SUBSET Bits /\ next_pid \in Nat \ {0}
  BY ProcAssumption DEF IInv, TypeOK
<1>3. p \in Entries
  <2>1. 0 \in 0..MAX_RESTARTS
    BY DEF MAX_RESTARTS
  <2> QED BY <1>2, <2>1, Zenon DEF Entries
<1> HIDE DEF p
<1>4. /\ r \in Entries
      /\ r.inst.pid = next_pid
      /\ r.inst.state \in Rest
      /\ WeightFor(r.inst.state, r.inst.weight)
  BY <1>2, <1>3, ThroughArc
<1> HIDE DEF r
<1>5. r.inst.state # STATE_EXCISED => Sound(r)
  BY <1>2, <1>4 DEF Sound, Rest, Final
<1>6. q.inst.pid = next_pid
  BY <1>2, <1>4, <1>5, AfterEvalSound
<1>7. procs' = [procs EXCEPT ![s] = q]
  BY <1>1 DEF r, p
<1> HIDE DEF q
<1>8. procs'[s] = q /\ \A t \in Slots : t # s => procs'[t] = procs[t]
  BY <1>7 DEF IInv, TypeOK
<1> QED
  BY <1>1, <1>6, <1>8 DEF OnlyFree, FirstFree

LEMMA BootWakes ==
  ASSUME IInv, boot_node
  PROVE  \E s \in Slots : OnlyFree(s) /\ procs'[s].inst.pid = next_pid
<1>1. PICK s \in Slots :
        /\ FirstFree(s)
        /\ procs' = [procs EXCEPT
             ![s] = through_arc(procs[s], next_pid, NodeFlags[node])]
  BY DEF boot_node
<1> DEFINE flags == NodeFlags[node]
           q == through_arc(procs[s], next_pid, flags)
<1>2. procs[s] \in Entries /\ next_pid \in Nat /\ flags \in SUBSET Bits
  BY ProcAssumption DEF IInv, TypeOK, boot_node, Booting, Slots
<1> HIDE DEF flags
<1>3. q.inst.pid = next_pid
  BY <1>2, ThroughArc
<1>4. procs' = [procs EXCEPT ![s] = q]
  BY <1>1 DEF flags
<1> HIDE DEF q
<1>5. procs'[s] = q /\ \A t \in Slots : t # s => procs'[t] = procs[t]
  BY <1>4 DEF IInv, TypeOK
<1> QED
  BY <1>1, <1>3, <1>5 DEF OnlyFree, FirstFree

LEMMA RestartWakes ==
  ASSUME IInv, NEW pid \in Pids, cmd_restart(pid)
  PROVE  \E s \in Slots :
           /\ OnlyFree(s)
           /\ procs'[s].active =>
                /\ procs'[s].inst.pid = procs[s].inst.pid
                /\ procs'[s].inst.state = ArcOutcome(procs[s].initial_flags)
                /\ procs'[s].restart_count \in 1..MAX_RESTARTS
<1>1. PICK s \in Slots :
        /\ ~ procs[s].active
        /\ procs' = [procs EXCEPT
             ![s] = do_restart([procs[s] EXCEPT !.restart_count = 0])]
  BY DEF cmd_restart
<1> DEFINE p == [procs[s] EXCEPT !.restart_count = 0]
           q == do_restart(p)
<1>2. procs[s] \in Entries
  BY DEF IInv, TypeOK
<1>3. /\ p \in Entries /\ ~ p.active /\ p.inst = procs[s].inst
      /\ p.initial_flags = procs[s].initial_flags
  BY <1>1, <1>2 DEF Entries, MAX_RESTARTS
<1> HIDE DEF p
<1>4. q.active =>
        /\ q.inst.pid = p.inst.pid
        /\ q.inst.state = ArcOutcome(p.initial_flags)
        /\ q.restart_count \in 1..MAX_RESTARTS
  BY <1>3, DoRestart
<1>5. procs' = [procs EXCEPT ![s] = q]
  BY <1>1 DEF p
<1> HIDE DEF q
<1>6. procs'[s] = q /\ \A t \in Slots : t # s => procs'[t] = procs[t]
  BY <1>5 DEF IInv, TypeOK
<1> QED
  BY <1>1, <1>3, <1>4, <1>6 DEF OnlyFree

LEMMA EvalKeepsFinal ==
  ASSUME IInv, NEW pid \in Pids, NEW flags \in FLAGS, cmd_eval(pid, flags)
  PROVE  \E s \in Slots :
           /\ procs[s].active
           /\ \A t \in Slots : t # s => procs'[t] = procs[t]
           /\ procs[s].inst.state \in Final =>
                /\ procs'[s].inst.state = procs[s].inst.state
                /\ procs'[s].inst.pid = procs[s].inst.pid
                /\ procs'[s].inst.weight = procs[s].inst.weight
<1>1. PICK s \in Slots :
        /\ procs[s].active
        /\ procs' = [procs EXCEPT ![s] =
             after_eval([procs[s] EXCEPT
               !.inst = schema_eval(procs[s].inst, flags)])]
  BY DEF cmd_eval, FirstRunning
<1> DEFINE i == procs[s].inst
           e == schema_eval(i, flags)
           p == [procs[s] EXCEPT !.inst = e]
           q == after_eval(p)
<1>2. procs[s] \in Entries /\ i \in Instances /\ flags \in SUBSET Bits
  BY ProcAssumption DEF IInv, TypeOK, Entries
<1>3. procs' = [procs EXCEPT ![s] = q]
  BY <1>1
<1>4. ASSUME i.state \in Final
      PROVE  q.inst.state = i.state /\ q.inst.pid = i.pid
             /\ q.inst.weight = i.weight
  <2>1. i.state \notin InArc
    BY <1>4 DEF InArc, Final
  <2>2. e.pid = i.pid /\ e.weight = i.weight /\ e.state = i.state
    BY <1>2, <2>1, EvalAtRest
  <2> HIDE DEF e
  <2>3. p.inst = e
    BY <1>2 DEF Entries
  <2>4. q = p
    BY <1>4, <2>2, <2>3 DEF after_eval, Final
  <2> QED BY <2>2, <2>3, <2>4
<1> HIDE DEF q
<1>5. procs'[s] = q /\ \A t \in Slots : t # s => procs'[t] = procs[t]
  BY <1>3 DEF IInv, TypeOK
<1> QED
  BY <1>1, <1>4, <1>5

LEMMA StepProperties ==
  ASSUME IInv, [Next]_vars
  PROVE  WakeUpStep /\ FinalStep
<1> USE DEF WakeUpStep, FinalStep, Running, Wakes, OnlyFree
<1>1. ASSUME NEW flags \in FLAGS, NEW restartable \in BOOLEAN,
             cmd_spawn(flags, restartable)
      PROVE  WakeUpStep /\ FinalStep
  <2>1. next_pid' = next_pid + 1
    BY <1>1 DEF cmd_spawn
  <2> QED BY <1>1, <2>1, SpawnWakes
<1>2. ASSUME NEW pid \in Pids, NEW flags \in FLAGS, cmd_eval(pid, flags)
      PROVE  WakeUpStep /\ FinalStep
  BY <1>2, EvalKeepsFinal
<1>3. ASSUME NEW pid \in Pids, cmd_kill(pid)
      PROVE  WakeUpStep /\ FinalStep
  <2>1. PICK s \in Slots :
          procs' = [procs EXCEPT ![s].inst.state  = STATE_EXCISED,
                                 ![s].inst.weight = 0,
                                 ![s].active      = FALSE]
    BY <1>3 DEF cmd_kill
  <2>2. /\ ~ procs'[s].active
        /\ \A t \in Slots : t # s => procs'[t] = procs[t]
    BY <2>1 DEF IInv, TypeOK, Entries
  <2> QED BY <2>2
<1>4. ASSUME NEW pid \in Pids, cmd_restart(pid)
      PROVE  WakeUpStep /\ FinalStep
  BY <1>4, RestartWakes
<1>5. ASSUME clear_table
      PROVE  WakeUpStep /\ FinalStep
  <2>1. \A s \in Slots : ~ procs'[s].active
    BY <1>5 DEF clear_table, IInv, TypeOK, Entries
  <2> QED BY <2>1
<1>6. CASE boot_node
  <2>1. next_pid' = next_pid + 1
    BY <1>6 DEF boot_node
  <2> QED BY <1>6, <2>1, BootWakes
<1>7. CASE UNCHANGED vars
  BY <1>7 DEF vars
<1> QED
  BY <1>1, <1>2, <1>3, <1>4, <1>5, <1>6, <1>7 DEF Next, cmd_reset, cmd_bootleg

(* An entry wakes up only with a fresh pid or by a counted restart.        *)
THEOREM WakesAreCounted == Spec => NoSilentWakeUp
BY Invariance, StepProperties, PTL DEF Spec, NoSilentWakeUp

-----------------------------------------------------------------------------
(***************************************************************************)
(* Which entry a command reaches.                                          *)
(***************************************************************************)
LEMMA AfterEvalPid ==
  ASSUME NEW p \in Entries
  PROVE  after_eval(p).inst.pid = p.inst.pid
<1> DEFINE r == [p EXCEPT !.active = FALSE]
<1>1. r \in Entries /\ ~ r.active /\ r.inst = p.inst
  BY DEF Entries
<1> HIDE DEF r
<1>2. do_restart(r).inst.pid = r.inst.pid
  BY <1>1, DoRestart
<1>3. after_eval(p) = IF p.inst.state # STATE_EXCISED THEN p
                      ELSE IF p.restartable THEN do_restart(r) ELSE r
  BY DEF after_eval, r
<1> QED
  BY <1>1, <1>2, <1>3

(* A step that changes no entry but s, which has the pid before and after  *)
OnlyOf(pid) ==
  \E s \in Slots :
    /\ procs[s].inst.pid = pid /\ procs'[s].inst.pid = pid
    /\ \A t \in Slots : t # s => procs'[t] = procs[t]

LEMMA EvalReaches ==
  ASSUME IInv, NEW pid, NEW flags \in FLAGS, cmd_eval(pid, flags)
  PROVE  OnlyOf(pid)
<1>1. PICK s \in Slots :
        /\ procs[s].inst.pid = pid
        /\ procs' = [procs EXCEPT ![s] =
             after_eval([procs[s] EXCEPT
               !.inst = schema_eval(procs[s].inst, flags)])]
  BY DEF cmd_eval, FirstRunning
<1> DEFINE e == schema_eval(procs[s].inst, flags)
           p == [procs[s] EXCEPT !.inst = e]
           q == after_eval(p)
<1>2. /\ procs[s] \in Entries /\ procs[s].inst \in Instances
      /\ flags \in SUBSET Bits
  BY ProcAssumption DEF IInv, TypeOK, Entries
<1>3. e \in Instances /\ e.pid = pid
  BY <1>1, <1>2, EvalType
<1>4. procs' = [procs EXCEPT ![s] = q]
  BY <1>1
<1> HIDE DEF e
<1>5. p \in Entries /\ p.inst = e
  BY <1>2, <1>3 DEF Entries
<1> HIDE DEF p
<1>6. q.inst.pid = pid
  BY <1>3, <1>5, AfterEvalPid
<1> HIDE DEF q
<1>7. procs'[s] = q /\ \A t \in Slots : t # s => procs'[t] = procs[t]
  BY <1>4 DEF IInv, TypeOK
<1> QED
  BY <1>1, <1>6, <1>7 DEF OnlyOf

LEMMA KillReaches ==
  ASSUME IInv, NEW pid, cmd_kill(pid)
  PROVE  OnlyOf(pid)
<1>1. PICK s \in Slots :
        /\ procs[s].inst.pid = pid
        /\ procs' = [procs EXCEPT ![s].inst.state  = STATE_EXCISED,
                                  ![s].inst.weight = 0,
                                  ![s].active      = FALSE]
  BY DEF cmd_kill, FirstRunning
<1>2. procs[s] \in Entries /\ procs[s].inst \in Instances
  BY DEF IInv, TypeOK, Entries
<1>3. /\ procs'[s].inst.pid = procs[s].inst.pid
      /\ \A t \in Slots : t # s => procs'[t] = procs[t]
  BY <1>1, <1>2 DEF IInv, TypeOK, Entries, Instances
<1> QED
  BY <1>1, <1>3 DEF OnlyOf

LEMMA RestartReaches ==
  ASSUME IInv, NEW pid, cmd_restart(pid)
  PROVE  OnlyOf(pid)
<1>1. PICK s \in Slots :
        /\ procs[s].inst.pid = pid /\ ~ procs[s].active
        /\ procs' = [procs EXCEPT
             ![s] = do_restart([procs[s] EXCEPT !.restart_count = 0])]
  BY DEF cmd_restart, FirstWithPid
<1> DEFINE p == [procs[s] EXCEPT !.restart_count = 0]
           q == do_restart(p)
<1>2. procs[s] \in Entries
  BY DEF IInv, TypeOK
<1>3. p \in Entries /\ ~ p.active /\ p.inst = procs[s].inst
  BY <1>1, <1>2 DEF Entries, MAX_RESTARTS
<1>4. procs' = [procs EXCEPT ![s] = q]
  BY <1>1
<1> HIDE DEF p
<1>5. q.inst.pid = pid
  BY <1>1, <1>3, DoRestart
<1> HIDE DEF q
<1>6. procs'[s] = q /\ \A t \in Slots : t # s => procs'[t] = procs[t]
  BY <1>4 DEF IInv, TypeOK
<1> QED
  BY <1>1, <1>5, <1>6 DEF OnlyOf

LEMMA CommandReaches ==
  ASSUME IInv, NEW pid, Commands(pid)
  PROVE  OnlyOf(pid)
BY EvalReaches, KillReaches, RestartReaches DEF Commands

(* What OwnStep says of the running entries that are disturbed             *)
RunningStep ==
  /\ epoch' = epoch => \A s, t \in Disturbed : s = t
  /\ \A s \in Disturbed \cap Running :
       \/ /\ procs'[s].inst.pid = procs[s].inst.pid
          /\ Commands(procs[s].inst.pid)
       \/ /\ procs'[s] = [procs[s] EXCEPT !.active = FALSE]
          /\ epoch' = epoch + 1

LEMMA RunningSteps ==
  ASSUME IInv, [Next]_vars
  PROVE  RunningStep
<1>1. ASSUME NEW pid, Commands(pid) PROVE RunningStep
  <2>1. PICK s \in Slots :
          /\ procs[s].inst.pid = pid /\ procs'[s].inst.pid = pid
          /\ \A t \in Slots : t # s => procs'[t] = procs[t]
    BY <1>1, CommandReaches DEF OnlyOf
  <2>2. \A t \in Disturbed : t = s
    BY <2>1 DEF Disturbed
  <2> QED
    BY <1>1, <2>1, <2>2 DEF RunningStep
<1>2. ASSUME \E s \in Slots : OnlyFree(s) PROVE RunningStep
  <2>1. PICK s \in Slots : OnlyFree(s)
    BY <1>2
  <2>2. \A t \in Disturbed : t = s
    BY <2>1 DEF Disturbed, OnlyFree
  <2>3. s \notin Running
    BY <2>1 DEF OnlyFree, Running
  <2> QED
    BY <2>2, <2>3 DEF RunningStep
<1>3. ASSUME clear_table PROVE RunningStep
  <2>1. epoch' = epoch + 1 /\ epoch' # epoch
    BY <1>3 DEF clear_table, IInv, TypeOK
  <2>2. \A s \in Slots : procs'[s] = [procs[s] EXCEPT !.active = FALSE]
    BY <1>3 DEF clear_table
  <2>3. Disturbed \subseteq Slots
    BY DEF Disturbed
  <2> QED
    BY <2>1, <2>2, <2>3 DEF RunningStep
<1>4. CASE UNCHANGED vars
  <2>1. Disturbed = {}
    BY <1>4 DEF Disturbed, vars
  <2> QED
    BY <2>1 DEF RunningStep
<1>5. ASSUME NEW pid \in Pids, NEW flags \in FLAGS, cmd_eval(pid, flags)
      PROVE  RunningStep
  BY <1>1, <1>5 DEF Commands
<1>6. ASSUME NEW pid \in Pids, cmd_kill(pid) \/ cmd_restart(pid)
      PROVE  RunningStep
  BY <1>1, <1>6 DEF Commands
<1>7. ASSUME NEW flags \in FLAGS, NEW restartable \in BOOLEAN,
             cmd_spawn(flags, restartable)
      PROVE  RunningStep
  BY <1>2, <1>7, SpawnWakes
<1>8. CASE boot_node
  BY <1>2, <1>8, BootWakes
<1> QED
  BY <1>3, <1>4, <1>5, <1>6, <1>7, <1>8 DEF Next, cmd_reset, cmd_bootleg

LEMMA OwnSteps ==
  ASSUME IInv, [Next]_vars
  PROVE  OwnStep
<1>1. ASSUME NEW pid \in Pids, Commands(pid), NEW s \in Disturbed
      PROVE  procs[s].inst.pid = pid
  <2>1. OnlyOf(pid)
    BY <1>1, CommandReaches
  <2> QED
    BY <2>1 DEF OnlyOf, Disturbed
<1>2. RunningStep
  BY RunningSteps
<1>3. FinalStep
  BY StepProperties
<1> QED
  BY <1>1, <1>2, <1>3 DEF OwnStep, RunningStep

(* No command disturbs a process but the one it is for, whatever the order *)
(* of commands before it, and none moves a running process out of a final  *)
(* state: the loops over the table in kill, eval and restart stop at one   *)
(* entry, and spawn and bootleg take free ones.                            *)
THEOREM OthersAreLeftAlone == Spec => DisturbsOnlyItsOwn
<1>1. IInv /\ [Next]_vars => OwnStep
  BY OwnSteps
<1> QED
  BY <1>1, Invariance, PTL DEF Spec, DisturbsOnlyItsOwn

-----------------------------------------------------------------------------
(***************************************************************************)
(* Where bootleg puts its nodes.  The entries that run while it boots are  *)
(* exactly the first ones, as many as nodes have survived so far; so the   *)
(* first free entry is the one SlotOf gives the next survivor.             *)
(***************************************************************************)
Survivors(n) == {j \in 0..n-1 : Survives(j)}

LEMMA SlotOfNext ==
  ASSUME NEW n \in Nat
  PROVE  /\ IsFiniteSet(Survivors(n))
         /\ SlotOf(n) \in Nat
         /\ SlotOf(n) = Cardinality(Survivors(n))
         /\ SlotOf(n + 1) = IF Survives(n) THEN SlotOf(n) + 1 ELSE SlotOf(n)
<1>1. IsFiniteSet(0..n-1)
  BY FS_Interval
<1>2. IsFiniteSet(Survivors(n))
  BY <1>1, FS_Subset DEF Survivors
<1>3. n \notin Survivors(n)
  BY DEF Survivors
<1>4. Survivors(n + 1) = IF Survives(n) THEN Survivors(n) \cup {n}
                         ELSE Survivors(n)
  <2>1. \A j : j \in 0..(n + 1) - 1 <=> j \in 0..n-1 \/ j = n
    OBVIOUS
  <2> QED BY <2>1 DEF Survivors
<1>5. Cardinality(Survivors(n)) \in Nat
      /\ Cardinality(Survivors(n) \cup {n}) = Cardinality(Survivors(n)) + 1
  BY <1>2, <1>3, FS_AddElement, FS_CardinalityType
<1>6. SlotOf(n) = Cardinality(Survivors(n))
      /\ SlotOf(n + 1) = Cardinality(Survivors(n + 1))
  BY DEF SlotOf, Survivors
<1> QED
  BY <1>2, <1>4, <1>5, <1>6

LEMMA SlotOfNone == SlotOf(0) = 0
<1>1. {j \in 0..0-1 : Survives(j)} = {}
  OBVIOUS
<1> QED
  BY <1>1, FS_EmptySet DEF SlotOf

(* Two survivors never share an entry.                                     *)
LEMMA SlotBelow ==
  ASSUME NEW n \in Nat, NEW i \in 0..n-1, Survives(i)
  PROVE  SlotOf(i) < SlotOf(n)
<1>1. i \in Nat /\ i + 1 \in Nat
  OBVIOUS
<1>2. Survivors(i + 1) \subseteq Survivors(n)
  BY DEF Survivors
<1>3. /\ IsFiniteSet(Survivors(n))
      /\ SlotOf(n) = Cardinality(Survivors(n))
      /\ SlotOf(n) \in Nat
  BY SlotOfNext
<1>4. SlotOf(i) \in Nat /\ SlotOf(i + 1) = SlotOf(i) + 1
  BY <1>1, SlotOfNext
<1>5. SlotOf(i + 1) = Cardinality(Survivors(i + 1))
  BY <1>1, SlotOfNext
<1>6. SlotOf(i + 1) <= SlotOf(n)
  BY <1>2, <1>3, <1>5, FS_Subset
<1> QED
  BY <1>3, <1>4, <1>6

Placed ==
  /\ next_pid = node + 1
  /\ Running = 0..SlotOf(node) - 1
  /\ NodesPlaced

LEMMA BootPlacesNode ==
  ASSUME IInv, Placed, boot_node
  PROVE  Placed'
<1> DEFINE k == SlotOf(node)
           lives == Survives(node)
<1>1. /\ node \in Nat /\ node \in 0..MAX_PROCS-1 /\ MAX_PROCS \in Nat
      /\ next_pid = node + 1
      /\ NodeFlags[node] \in SUBSET Bits
      /\ node' = node + 1 /\ next_pid' = next_pid + 1
  BY ProcAssumption DEF IInv, TypeOK, boot_node, Booting, Placed
<1>2. k \in Nat /\ SlotOf(node + 1) = IF lives THEN k + 1 ELSE k
  BY <1>1, SlotOfNext
<1>3. PICK s \in Slots :
        /\ FirstFree(s)
        /\ procs' = [procs EXCEPT
             ![s] = through_arc(procs[s], next_pid, NodeFlags[node])]
  BY DEF boot_node
<1> DEFINE flags == NodeFlags[node]
           q == through_arc(procs[s], next_pid, flags)
<1>4. /\ q.inst.pid = node + 1
      /\ q.inst.state = ArcOutcome(flags)
      /\ q.active <=> lives
  <2>1. procs[s] \in Entries /\ next_pid \in Nat /\ flags \in SUBSET Bits
    BY <1>1 DEF IInv, TypeOK
  <2>2. lives <=> ArcOutcome(flags) # STATE_EXCISED
    BY DEF Survives
  <2> HIDE DEF flags
  <2>3. /\ q.inst.pid = next_pid
        /\ q.inst.state = ArcOutcome(flags)
        /\ q.active <=> ArcOutcome(flags) # STATE_EXCISED
    BY <2>1, ThroughArc
  <2>4. next_pid = node + 1
    BY <1>1
  <2> HIDE DEF q, lives
  <2> QED BY <2>2, <2>3, <2>4
<1>5. /\ procs'[s] = q
      /\ \A t \in Slots : t # s => procs'[t] = procs[t]
  BY <1>3 DEF IInv, TypeOK
<1>6. ~ procs[s].active /\ \A t \in Slots : t < s => procs[t].active
  BY <1>3 DEF FirstFree
<1>7. \A i \in 0..node-1 : Survives(i) => SlotOf(i) < k
  BY <1>1, SlotBelow
<1>8. \A t \in Slots : procs[t].active <=> t \in 0..k-1
  BY DEF Placed, Running
<1> DEFINE Put(P, t, i) == /\ Survives(i) /\ SlotOf(i) = t
                           /\ P[t].inst.pid = i + 1
                           /\ P[t].inst.state = ArcOutcome(NodeFlags[i])
<1>9. \A t \in Slots : procs[t].active <=> \E i \in 0..node-1 : Put(procs, t, i)
  BY DEF Placed, NodesPlaced
<1>10. Put(procs', s, node) <=>
         /\ lives /\ k = s /\ procs'[s].inst.pid = node + 1
         /\ procs'[s].inst.state = ArcOutcome(flags)
  OBVIOUS
<1>11. \A t \in Slots : \A i \in 0..node : Put(procs', t, i)
         => Survives(i) /\ SlotOf(i) = t
  OBVIOUS
<1>12. \A t \in Slots, i \in 0..node :
         t # s => (Put(procs', t, i) <=> Put(procs, t, i))
  BY <1>5
<1>13. Put(procs, s, node) => k = s
  OBVIOUS
<1>14. \A t \in Slots : Put(procs, t, node) => k = t
  OBVIOUS
<1> DEFINE Below(i, t) == Survives(i) /\ SlotOf(i) = t
<1>15. \A i \in 0..node-1, t \in Slots : Below(i, t) => t < k
  BY <1>7
<1>16. \A t \in Slots : \A i \in 0..node : Put(procs', t, i) => Below(i, t)
  BY <1>11
<1>17. Below(node, s) => lives
  OBVIOUS
<1> HIDE DEF Below, Put, q, k, lives
<1>18. s = k
  <2>1. s \in Nat /\ MAX_PROCS \in Nat
    BY <1>1 DEF Slots
  <2>2. s >= k
    BY <1>2, <1>6, <1>8, <2>1
  <2>3. ASSUME k < s PROVE FALSE
    <3>1. k \in Slots
      BY <1>2, <2>1, <2>3 DEF Slots
    <3> QED BY <1>2, <1>6, <1>8, <2>3, <3>1
  <2> QED BY <1>2, <2>1, <2>2, <2>3
<1>19. 0..node' - 1 = 0..node
  BY <1>1
<1>20. ASSUME NEW t \in Slots
       PROVE  procs'[t].active <=> \E i \in 0..node : Put(procs', t, i)
  <2>1. CASE t = s
    <3>1. ASSUME lives PROVE Put(procs', s, node)
      BY <1>4, <1>5, <1>10, <1>18, <3>1
    <3>2. ASSUME NEW i \in 0..node, Put(procs', s, i) PROVE lives
      <4>1. Below(i, s)
        BY <1>16, <3>2
      <4>2. i = node
        BY <1>1, <1>2, <1>15, <1>18, <4>1
      <4> QED BY <1>17, <4>1, <4>2
    <3>3. node \in 0..node
      BY <1>1
    <3> QED BY <1>4, <1>5, <2>1, <3>1, <3>2, <3>3
  <2>2. CASE t # s
    <3>1. ~ Put(procs, t, node)
      BY <1>14, <1>18, <2>2
    <3>2. \A i \in 0..node : i \in 0..node-1 \/ i = node
      BY <1>1
    <3>3. \A i \in 0..node-1 : i \in 0..node
      BY <1>1
    <3> QED BY <1>5, <1>9, <1>12, <2>2, <3>1, <3>2, <3>3
  <2> QED BY <2>1, <2>2
<1>21. NodesPlaced'
  <2>1. \A t \in Slots :
          procs'[t].active <=> \E i \in 0..node'-1 : Put(procs', t, i)
    BY <1>19, <1>20
  <2> QED BY <2>1 DEF NodesPlaced, Put
<1>22. Running' = 0..SlotOf(node + 1) - 1
  <2>1. \A t \in Slots : procs'[t].active <=> t \in 0..k-1 \/ (t = s /\ lives)
    BY <1>2, <1>4, <1>5, <1>8, <1>18
  <2>2. 0..k-1 \subseteq Slots
    BY DEF Placed, Running, k
  <2>3. \A t : t \in 0..SlotOf(node + 1) - 1 <=> t \in 0..k-1 \/ (t = s /\ lives)
    BY <1>2, <1>18
  <2>4. \A t : t \in Running' <=> t \in 0..k-1 \/ (t = s /\ lives)
    BY <2>1, <2>2 DEF Running
  <2> QED BY <2>3, <2>4
<1> QED
  BY <1>1, <1>21, <1>22 DEF Placed

LEMMA ClearPlaces ==
  ASSUME IInv, cmd_bootleg
  PROVE  Placed'
<1>1. node' = 0 /\ next_pid' = 1 /\ \A s \in Slots : ~ procs'[s].active
  BY DEF cmd_bootleg, clear_table, IInv, TypeOK, Entries
<1>2. 0..node' - 1 = {}
  BY <1>1
<1>3. Running' = 0..SlotOf(node') - 1
  BY <1>1, SlotOfNone DEF Running
<1> QED
  BY <1>1, <1>2, <1>3 DEF Placed, NodesPlaced

(* The invariant bootleg keeps, and each of its steps.                     *)
BootInv == Booting => Placed

LEMMA BootInvStep ==
  ASSUME IInv, BootInv, [Next]_vars
  PROVE  BootInv' /\ (Booting => NodesPlaced')
<1>1. CASE boot_node
  BY <1>1, BootPlacesNode DEF boot_node, BootInv, Placed
<1>2. CASE cmd_bootleg
  BY <1>2, ClearPlaces DEF cmd_bootleg, clear_table, BootInv
<1>3. ASSUME ~ Booting, node' = node
      PROVE  BootInv' /\ (Booting => NodesPlaced')
  BY <1>3 DEF BootInv, Booting
<1>4. CASE UNCHANGED vars
  <2>1. UNCHANGED <<procs, next_pid, node>>
    BY <1>4 DEF vars
  <2>2. Placed => Placed'
    BY <2>1 DEF Placed, NodesPlaced, Running
  <2>3. Booting' <=> Booting
    BY <2>1 DEF Booting
  <2> QED BY <2>2, <2>3 DEF BootInv, Placed
<1>5. cmd_reset => ~ Booting /\ node' = node
  BY DEF cmd_reset, clear_table
<1>6. \A flags \in FLAGS, restartable \in BOOLEAN :
        cmd_spawn(flags, restartable) => ~ Booting /\ node' = node
  BY DEF cmd_spawn
<1>7. \A pid \in Pids, flags \in FLAGS :
        cmd_eval(pid, flags) => ~ Booting /\ node' = node
  BY DEF cmd_eval
<1>8. \A pid \in Pids : cmd_kill(pid) \/ cmd_restart(pid)
        => ~ Booting /\ node' = node
  BY DEF cmd_kill, cmd_restart
<1> QED
  BY <1>1, <1>2, <1>3, <1>4, <1>5, <1>6, <1>7, <1>8 DEF Next

(* Bootleg packs the surviving nodes into the first entries of the table,  *)
(* in order, each with its number as pid and in the state its flags lead   *)
(* to, and nothing else runs, whatever the flags of the nodes are and      *)
(* whatever the table held when bootleg was typed.                         *)
THEOREM BootlegPlacesNodes == Spec => BootPlacesSurvivors
<1>1. Init => BootInv
  BY ProcAssumption DEF Init, BootInv, Booting
<1>2. IInv /\ BootInv /\ [Next]_vars => BootInv'
  BY BootInvStep
<1>3. IInv /\ BootInv /\ [Next]_vars
        => [Booting => NodesPlaced']_vars
  BY BootInvStep
<1> QED
  BY <1>1, <1>2, <1>3, Invariance, PTL DEF Spec, BootPlacesSurvivors
=============================================================================
