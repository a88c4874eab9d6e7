------------------------------ MODULE ProcTable ------------------------------
(***************************************************************************)
(* The process table of kernel/shell.c and the commands that change it:    *)
(* spawn, rspawn, eval, kill, restart, reset and bootleg.                  *)
(*                                                                         *)
(* The shell runs one command at a time, to its end, so a command is one   *)
(* action; bootleg is its preparation followed by one step for each of its *)
(* nodes, between which no other command may come.  A command that finds   *)
(* the table full, or no process with the pid it is given, prints a line   *)
(* and changes nothing: a stuttering step.                                 *)
(***************************************************************************)
EXTENDS Schema

CONSTANTS
  MAX_PROCS,     (* entries of the table, 49 in the code                   *)
  NodeFlags,     (* node_flags of cmd_bootleg, a word for each entry       *)
  FLAGS,         (* the words of flags that are typed at the shell         *)
  MaxPid,        (* bound: spawn gives out no pid above it, so that the    *)
                 (* uint32_t next_pid of the code does not wrap            *)
  MaxEpoch       (* bound: how often the table is cleared                  *)

ASSUME ProcAssumption ==
  /\ MAX_PROCS \in Nat \ {0}
  /\ NodeFlags \in [0..MAX_PROCS-1 -> SUBSET Bits]
  /\ FLAGS \subseteq SUBSET Bits
  /\ MaxPid \in Nat /\ MaxPid < 2147483647 /\ MAX_PROCS < 2147483647
  /\ MaxEpoch \in Nat

MAX_RESTARTS == 3

Slots == 0..MAX_PROCS-1

VARIABLES
  procs,         (* the table                                              *)
  next_pid,      (* the pid of the next process                            *)
  node,          (* bootleg's loop: the next node to boot, or MAX_PROCS    *)
  epoch,         (* history: how often the table has been cleared          *)
  born           (* history: how, and in which epoch, the process an entry *)
                 (* holds was created                                      *)

vars == <<procs, next_pid, node, epoch, born>>

Entries == [inst : Instances, active : BOOLEAN, restartable : BOOLEAN,
            restart_count : 0..MAX_RESTARTS, initial_flags : SUBSET Bits]

Origins == [epoch : Nat, by : {"none", "spawn", "rspawn", "bootleg"}]

TypeOK ==
  /\ procs \in [Slots -> Entries]
  /\ next_pid \in Nat \ {0}
  /\ node \in 0..MAX_PROCS
  /\ epoch \in Nat
  /\ born \in [Slots -> Origins]

-----------------------------------------------------------------------------
(* An entry of the zeroed memory the table starts as                       *)
virgin ==
  [inst |-> [pid |-> 0, state |-> STATE_UNKNOWN, weight |-> 0,
             prev_state |-> STATE_UNKNOWN, flags |-> {}],
   active |-> FALSE, restartable |-> FALSE,
   restart_count |-> 0, initial_flags |-> {}]

Init ==
  /\ procs = [s \in Slots |-> virgin]
  /\ next_pid = 1
  /\ node = MAX_PROCS
  /\ epoch = 0
  /\ born = [s \in Slots |-> [epoch |-> 0, by |-> "none"]]

Booting == node < MAX_PROCS

(* Mutant of FirstFree: any free entry will do.                            *)
AnyFree(s) == ~ procs[s].active

(* The entry the commands' loops over the table stop at                    *)
FirstFree(s) ==
  /\ ~ procs[s].active
  /\ \A t \in Slots : t < s => procs[t].active

FirstRunning(s, pid) ==
  LET match(t) == procs[t].active /\ procs[t].inst.pid = pid
  IN  match(s) /\ \A t \in Slots : t < s => ~ match(t)

FirstWithPid(s, pid) ==
  /\ procs[s].inst.pid = pid
  /\ \A t \in Slots : t < s => procs[t].inst.pid # pid

(* p, with its instance put through the arc from the start, running        *)
(* unless the arc excises it                                               *)
through_arc(p, pid, flags) ==
  LET inst == run_arc(schema_init(pid), flags)
  IN  [p EXCEPT !.inst = inst, !.active = inst.state # STATE_EXCISED]

(* Mutant of restart_turn: the budget is not looked at.                    *)
restart_turn_unbounded ==
  [p \in [inst : Instances, active : BOOLEAN, restartable : BOOLEAN,
          restart_count : Nat, initial_flags : SUBSET Bits] |->
     IF p.active THEN p
     ELSE through_arc([p EXCEPT !.restart_count = @ + 1],
                      p.inst.pid, p.initial_flags)]

(* Mutant of restart_turn: the flags of the last evaluation are used.      *)
restart_turn_last_flags ==
  [p \in Entries |->
     IF p.active \/ p.restart_count >= MAX_RESTARTS THEN p
     ELSE through_arc([p EXCEPT !.restart_count = @ + 1],
                      p.inst.pid, p.inst.flags)]

(* One turn of do_restart's loop; none once p runs or its budget is spent  *)
restart_turn ==
  [p \in Entries |->
     IF p.active \/ p.restart_count >= MAX_RESTARTS
     THEN p
     ELSE through_arc([p EXCEPT !.restart_count = @ + 1],
                      p.inst.pid, p.initial_flags)]

(* Mutant of do_restart: one turn, an `if` in the place of the `while`.    *)
do_restart_once(p) == restart_turn[p]

do_restart(p) == restart_turn[restart_turn[restart_turn[p]]]

(* Mutant of after_eval: an excised instance goes on counting as running.  *)
after_eval_ignored(p) == p

(* What spawn and eval end with: an instance that came out excised stops   *)
(* running, and is restarted if its entry says so                          *)
after_eval(p) ==
  LET q == [p EXCEPT !.active = FALSE]
  IN  IF p.inst.state # STATE_EXCISED THEN p
      ELSE IF p.restartable THEN do_restart(q) ELSE q

-----------------------------------------------------------------------------
(* Mutant of cmd_spawn: a process that is excised at once uses up no pid.  *)
cmd_spawn_keeps_pid(flags, restartable) ==
  /\ ~ Booting
  /\ next_pid <= MaxPid
  /\ \E s \in Slots :
       /\ FirstFree(s)
       /\ LET p == after_eval(through_arc(
                     [procs[s] EXCEPT !.restartable = restartable,
                                      !.initial_flags = flags,
                                      !.restart_count = 0], next_pid, flags))
          IN  /\ procs' = [procs EXCEPT ![s] = p]
              /\ next_pid' = IF p.active THEN next_pid + 1 ELSE next_pid
       /\ born' = [born EXCEPT ![s] =
                    [epoch |-> epoch,
                     by    |-> IF restartable THEN "rspawn" ELSE "spawn"]]
  /\ UNCHANGED <<node, epoch>>

cmd_spawn(flags, restartable) ==
  /\ ~ Booting
  /\ next_pid <= MaxPid
  /\ \E s \in Slots :
       /\ FirstFree(s)
       /\ LET p == [procs[s] EXCEPT !.restartable = restartable,
                                    !.initial_flags = flags,
                                    !.restart_count = 0]
          IN  procs' = [procs EXCEPT
                 ![s] = after_eval(through_arc(p, next_pid, flags))]
       /\ born' = [born EXCEPT ![s] =
                    [epoch |-> epoch,
                     by    |-> IF restartable THEN "rspawn" ELSE "spawn"]]
  /\ next_pid' = next_pid + 1
  /\ UNCHANGED <<node, epoch>>

cmd_eval(pid, flags) ==
  /\ ~ Booting
  /\ \E s \in Slots :
       /\ FirstRunning(s, pid)
       /\ procs' = [procs EXCEPT
             ![s] = after_eval([procs[s] EXCEPT
                      !.inst = schema_eval(procs[s].inst, flags)])]
  /\ UNCHANGED <<next_pid, node, epoch, born>>

(* Mutant of cmd_kill: the loop does not stop at the first match.          *)
cmd_kill_every(pid) ==
  LET match(s) == procs[s].active /\ procs[s].inst.pid = pid
  IN  /\ ~ Booting
      /\ \E s \in Slots : match(s)
      /\ procs' = [s \in Slots |->
            IF match(s) THEN [procs[s] EXCEPT !.inst.state  = STATE_EXCISED,
                                              !.inst.weight = 0,
                                              !.active      = FALSE]
            ELSE procs[s]]
      /\ UNCHANGED <<next_pid, node, epoch, born>>

cmd_kill(pid) ==
  /\ ~ Booting
  /\ \E s \in Slots :
       /\ FirstRunning(s, pid)
       /\ procs' = [procs EXCEPT ![s].inst.state  = STATE_EXCISED,
                                 ![s].inst.weight = 0,
                                 ![s].active      = FALSE]
  /\ UNCHANGED <<next_pid, node, epoch, born>>

(* The first entry with the pid is the one, running or not: if it runs the *)
(* command is refused.                                                     *)
cmd_restart(pid) ==
  /\ ~ Booting
  /\ \E s \in Slots :
       /\ FirstWithPid(s, pid)
       /\ ~ procs[s].active
       /\ procs' = [procs EXCEPT
             ![s] = do_restart([procs[s] EXCEPT !.restart_count = 0])]
  /\ UNCHANGED <<next_pid, node, epoch, born>>

(* Mutant of clear_table: pids start at 0.                                 *)
clear_table_pid_0 ==
  /\ ~ Booting
  /\ epoch < MaxEpoch
  /\ procs' = [s \in Slots |-> [procs[s] EXCEPT !.active = FALSE]]
  /\ next_pid' = 0
  /\ epoch' = epoch + 1
  /\ UNCHANGED born

(* Mutant of clear_table: the entries are not cleared.                     *)
clear_table_pids_only ==
  /\ ~ Booting
  /\ epoch < MaxEpoch
  /\ next_pid' = 1
  /\ epoch' = epoch + 1
  /\ UNCHANGED <<procs, born>>

(* What reset does, and bootleg does first                                 *)
clear_table ==
  /\ ~ Booting
  /\ epoch < MaxEpoch
  /\ procs' = [s \in Slots |-> [procs[s] EXCEPT !.active = FALSE]]
  /\ next_pid' = 1
  /\ epoch' = epoch + 1
  /\ UNCHANGED born

cmd_reset == clear_table /\ UNCHANGED node

cmd_bootleg == clear_table /\ node' = 0

(* Mutant of boot_node: a node that fails is tried again.                  *)
boot_node_retry ==
  /\ Booting
  /\ \E s \in Slots :
       /\ FirstFree(s)
       /\ LET p == through_arc(procs[s], next_pid, NodeFlags[node])
          IN  /\ procs' = [procs EXCEPT ![s] = p]
              /\ next_pid' = IF p.active THEN next_pid + 1 ELSE next_pid
              /\ node' = IF p.active THEN node + 1 ELSE node
       /\ born' = [born EXCEPT ![s] = [epoch |-> epoch, by |-> "bootleg"]]
  /\ UNCHANGED epoch

(* One turn of bootleg's loop.  The entry keeps what bootleg does not set: *)
(* restartable, restart_count and initial_flags.  The loop's `break` for a *)
(* full table is left out: there are as many nodes as entries.             *)
boot_node ==
  /\ Booting
  /\ \E s \in Slots :
       /\ FirstFree(s)
       /\ procs' = [procs EXCEPT
             ![s] = through_arc(procs[s], next_pid, NodeFlags[node])]
       /\ born' = [born EXCEPT ![s] = [epoch |-> epoch, by |-> "bootleg"]]
  /\ next_pid' = next_pid + 1
  /\ node' = node + 1
  /\ UNCHANGED epoch

Pids == 0..MaxPid

Next ==
  \/ \E flags \in FLAGS, restartable \in BOOLEAN :
       cmd_spawn(flags, restartable)
  \/ \E pid \in Pids, flags \in FLAGS : cmd_eval(pid, flags)
  \/ \E pid \in Pids : cmd_kill(pid)
  \/ \E pid \in Pids : cmd_restart(pid)
  \/ cmd_reset
  \/ cmd_bootleg
  \/ boot_node

(* A command that was started runs to its end; nobody has to type one.     *)
Spec == Init /\ [][Next]_vars /\ WF_vars(boot_node)

-----------------------------------------------------------------------------
(***************************************************************************)
(* What the commands that only look at the table make of it.               *)
(***************************************************************************)
Running           == {s \in Slots : procs[s].active}
RunningIn(states) == {s \in Running : procs[s].inst.state \in states}

count_online == Cardinality(Running)

(* The level of corruption the groove is played with: `> total / 4` is an  *)
(* integer division.                                                       *)
schema_corrupt_level ==
  LET total == Cardinality(Running)
  IN  CASE Cardinality(RunningIn({STATE_EXCISED})) > total \div 4  -> 3
        [] /\ Cardinality(RunningIn({STATE_EXCISED})) <= total \div 4
           /\ Cardinality(RunningIn({STATE_RECOVERY})) > total \div 4 -> 2
        [] /\ Cardinality(RunningIn({STATE_EXCISED})) <= total \div 4
           /\ Cardinality(RunningIn({STATE_RECOVERY})) <= total \div 4
           /\ RunningIn({STATE_FRICTION}) # {} -> 1
        [] OTHER -> 0

-----------------------------------------------------------------------------
(***************************************************************************)
(* Safety.                                                                 *)
(***************************************************************************)
Final == {STATE_FUNDAMENTAL, STATE_PERFECT, STATE_SETTLED}

(* Between commands a running process has come to rest, or is one of those *)
(* that swing between RECOVERY and FRICTION: no arc and no evaluation      *)
(* leaves it new, in FULL_TRUST or excised while it counts as running.     *)
ActiveSettled ==
  \A s \in Running :
    procs[s].inst.state \in Final \cup {STATE_RECOVERY, STATE_FRICTION}

(* Two processes created since the table was last cleared, dead or alive,  *)
(* never have the same pid, and next_pid is above the pids of them all, so *)
(* that kill, eval and restart reach the process that was meant.           *)
BornNow(s) == born[s].epoch = epoch /\ born[s].by # "none"

PidsUniqueInEpoch ==
  /\ \A s \in Slots : BornNow(s) => procs[s].inst.pid \in 1..next_pid - 1
  /\ \A s, t \in Slots :
       /\ BornNow(s) /\ BornNow(t)
       /\ procs[s].inst.pid = procs[t].inst.pid
       => s = t

(* `restart 0` (which is what `restart x` is parsed as) finds the entries  *)
(* that were never used, whose pid is 0, and runs their arc; the arc of a  *)
(* word of zeroes excises them, so no process with pid 0 ever runs.        *)
NullPidNeverRuns == \A s \in Running : procs[s].inst.pid # 0

(* A process whose flags cannot carry it through the arc is not kept       *)
(* alive by restarts: once it has been restarted at all, all of its        *)
(* MAX_RESTARTS turns are spent and it is down.                            *)
BudgetSpent ==
  \A s \in Slots :
    /\ born[s].by \in {"spawn", "rspawn"}
    /\ procs[s].restart_count > 0
    /\ ArcOutcome(procs[s].initial_flags) = STATE_EXCISED
    => ~ procs[s].active /\ procs[s].restart_count = MAX_RESTARTS

(* The weight shown beside the state of a running process is one with      *)
(* which the thresholds of schema.h lead to that state.                    *)
WeightJustifiesState ==
  \A s \in Running :
    LET w  == procs[s].inst.weight
        st == procs[s].inst.state
    IN  /\ st = STATE_FUNDAMENTAL => w = STATE_8_MAX
        /\ st = STATE_PERFECT     => w \in SHIFT_THRESHOLD_8 .. STATE_8_MAX - 1
        /\ st = STATE_SETTLED     => w \in SHIFT_THRESHOLD_9 .. STATE_9_MAX
        /\ st = STATE_FRICTION    => w < SHIFT_THRESHOLD_9
        /\ st = STATE_RECOVERY    => w \in SHIFT_THRESHOLD_6 .. STATE_6_MAX

(* Running entries fill no entry that bootleg has still to reach: the loop *)
(* finds a free entry for every node.                                      *)
BootFindsSlot == Booting => Running \subseteq 0..node - 1

-----------------------------------------------------------------------------
(***************************************************************************)
(* Action properties.                                                      *)
(***************************************************************************)
(* An entry starts to run in two ways only: with a process that was given  *)
(* the next pid, or with the process it already held, put through the arc  *)
(* again with the flags of its entry and with its restart counted.         *)
Wakes(s) ==
  \/ procs'[s].inst.pid = next_pid /\ next_pid' = next_pid + 1
  \/ /\ procs'[s].inst.pid = procs[s].inst.pid
     /\ procs'[s].inst.state = ArcOutcome(procs[s].initial_flags)
     /\ procs'[s].restart_count \in 1..MAX_RESTARTS

WakeUpStep ==
  \A s \in Slots : ~ procs[s].active /\ procs'[s].active => Wakes(s)

NoSilentWakeUp == [][WakeUpStep]_vars

(* The commands that are typed with a pid                                  *)
Commands(pid) ==
  \/ \E flags \in FLAGS : cmd_eval(pid, flags)
  \/ cmd_kill(pid)
  \/ cmd_restart(pid)

Disturbed == {s \in Slots : procs'[s] # procs[s]}

(* What has come to rest stays while it runs.                              *)
FinalStep ==
  \A s \in Running :
    procs[s].inst.state \in Final /\ procs'[s].active
      => /\ procs'[s].inst.state = procs[s].inst.state
         /\ procs'[s].inst.pid = procs[s].inst.pid
         /\ procs'[s].inst.weight = procs[s].inst.weight

(* No command disturbs a process but the one it is for, also when two have *)
(* the same pid, as they may after a reset: eval, kill and restart change  *)
(* one entry with the pid they are given, spawn and each node of bootleg   *)
(* one that is free, and reset does no more to those that run than to stop *)
(* them.  Whatever the command, the entry of a running process keeps its   *)
(* pid, and what has come to rest in FUNDAMENTAL, PERFECT or SETTLED stays *)
(* so until it is stopped.                                                 *)
OwnStep ==
  /\ epoch' = epoch => \A s, t \in Disturbed : s = t
  /\ \A pid \in Pids : Commands(pid) =>
       \A s \in Disturbed : procs[s].inst.pid = pid
  /\ \A s \in Disturbed \cap Running :
       \/ /\ procs'[s].inst.pid = procs[s].inst.pid
          /\ Commands(procs[s].inst.pid)
       \/ /\ procs'[s] = [procs[s] EXCEPT !.active = FALSE]
          /\ epoch' = epoch + 1
  /\ FinalStep

DisturbsOnlyItsOwn == [][OwnStep]_vars

(* Bootleg puts the nodes that survive their arc into the first entries,   *)
(* in order, each with its number as pid and in the state its flags lead   *)
(* to, and nothing else runs: a failed node's entry goes to the next one.  *)
Survives(i)  == ArcOutcome(NodeFlags[i]) # STATE_EXCISED
SlotOf(i)    == Cardinality({j \in 0..i-1 : Survives(j)})
NodesPlaced  ==
  \A s \in Slots :
    procs[s].active <=>
      \E i \in 0..node-1 : /\ Survives(i) /\ SlotOf(i) = s
                           /\ procs[s].inst.pid = i + 1
                           /\ procs[s].inst.state = ArcOutcome(NodeFlags[i])

BootPlacesSurvivors == [][Booting => NodesPlaced']_vars

-----------------------------------------------------------------------------
(* Bootleg comes to its end.                                               *)
BootlegEnds == Booting ~> ~ Booting

-----------------------------------------------------------------------------
(***************************************************************************)
(* What the texts of the program say, and the program does not do.         *)
(***************************************************************************)
(* "process table cleared": no process from before the last reset or       *)
(* bootleg runs again.                                                     *)
ClearedStaysCleared == \A s \in Running : born[s].epoch = epoch

(* "rspawn: spawn restartable process (G03 on excision)": a process that   *)
(* runs is restarted by itself only if it was spawned restartable.         *)
OnlyRspawnedRestart ==
  [][\A s \in Running :
       procs'[s].restart_count > procs[s].restart_count
         => born[s].by = "rspawn"]_vars

(* ">25% excised - dropout": with more than a quarter as many excised      *)
(* processes in the table as there are running ones the level is 3.        *)
DropoutWhenExcised ==
  LET total   == Cardinality(Running)
      excised == {s \in Slots : procs[s].inst.state = STATE_EXCISED}
  IN  total > 0 /\ Cardinality(excised) > total \div 4
        => schema_corrupt_level = 3
=============================================================================
