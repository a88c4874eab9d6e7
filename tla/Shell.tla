-------------------------------- MODULE Shell --------------------------------
(***************************************************************************)
(* The command line of kernel/shell.c: the editor in shell_run that        *)
(* collects a line in a buffer, and dispatch, which finds the command by   *)
(* the first letters of the line and reads the argument at a fixed place   *)
(* behind them.  The buffer is never cleared: behind the end of a line it  *)
(* holds what longer lines before it left there.                           *)
(*                                                                         *)
(* A text is a sequence of characters.                                     *)
(***************************************************************************)
EXTENDS Integers, Sequences, SequencesExt

CONSTANTS
  BUF_LEN,       (* cells of the buffer, 64 in the code                    *)
  LINES,         (* bound: the lines that are typed                        *)
  MaxLines,      (* bound: how many lines are entered                      *)
  MaxErased      (* bound: how many characters are erased                  *)

SPACE   == " "
NUL     == "NUL"       (* the end of a line                                *)
GARBAGE == "GARBAGE"   (* a cell of the stack that was never written       *)

(* What can be typed: the loop passes over a character that is 0.          *)
Chars == STRING \ {NUL}

ASSUME ShellAssumption ==
  /\ BUF_LEN \in Nat \ {0}
  /\ MaxLines \in Nat /\ MaxErased \in Nat
  /\ LINES \subseteq Seq(Chars)

VARIABLES
  buf,           (* buf[i + 1] is the code's buf[i]                        *)
  pos,
  ran,           (* history: the line that was entered last, and what      *)
                 (* dispatch made of it                                    *)
  entered, erased    (* history: lines entered, characters erased          *)

vars == <<buf, pos, ran, entered, erased>>

TypeOK ==
  /\ buf \in [1..BUF_LEN -> Chars \cup {NUL, GARBAGE}]
  /\ pos \in 0..BUF_LEN - 1
  /\ DOMAIN ran = {"line", "cmd", "arg"}
  /\ entered \in 0..MaxLines /\ erased \in 0..MaxErased

Init ==
  /\ buf = [i \in 1..BUF_LEN |-> GARBAGE]
  /\ pos = 0
  /\ ran = [line |-> <<>>, cmd |-> "none", arg |-> <<>>]
  /\ entered = 0 /\ erased = 0

Line == SubSeq(buf, 1, pos)

-----------------------------------------------------------------------------
(***************************************************************************)
(* dispatch.                                                               *)
(***************************************************************************)
(* The tests in the order in which they are made: the letters the line     *)
(* starts with, and how far behind its start the argument is read, 0 for   *)
(* a command that takes none                                               *)
Test(letters, cmd, offset) ==
  [letters |-> letters, cmd |-> cmd, offset |-> offset]

Tests == <<
  Test(<<"s","p","a","w","n">>, "cmd_spawn",        5),
  Test(<<"r","s">>,             "cmd_rspawn",       6),
  Test(<<"r","e","s","t","a">>, "cmd_restart",      8),
  Test(<<"e","v","a","l">>,     "cmd_eval",         4),
  Test(<<"p","s",SPACE>>,       "cmd_ps",           0),
  Test(<<"p","s",NUL>>,         "cmd_ps",           0),
  Test(<<"k","i","l","l">>,     "cmd_kill",         4),
  Test(<<"r","e","s","e","t">>, "cmd_reset",        0),
  Test(<<"s","t">>,             "cmd_status",       0),
  Test(<<"b","o">>,             "cmd_bootleg",      0),
  Test(<<"c","l">>,             "cmd_clear",        0),
  Test(<<"e","c">>,             "cmd_echo",         4),
  Test(<<"m","e">>,             "cmd_mem",          0),
  Test(<<"l","s">>,             "cmd_lspci",        0),
  Test(<<"a","r">>,             "cmd_arch",         0),
  Test(<<"g","r">>,             "cmd_groove",       0),
  Test(<<"s","t","o">>,         "cmd_stopgroove",   0),
  Test(<<"t","o">>,             "cmd_tone",         4),
  Test(<<"b","e">>,             "cmd_beep",         0),
  Test(<<"s","i">>,             "cmd_schema_audio", 3),
  Test(<<"h">>,                 "cmd_help",         0) >>

(* The text in a buffer from a cell on, up to the first NUL: what a command*)
(* sees that is given a pointer to the cell                                *)
TextFrom(b, i) ==
  IF \E j \in i..Len(b) : b[j] = NUL
  THEN SubSeq(b, i, (CHOOSE j \in i..Len(b) :
                       b[j] = NUL /\ \A k \in i..j-1 : b[k] # NUL) - 1)
  ELSE SubSeq(b, i, Len(b))

(* The first cell, from i on, that holds no space                          *)
skip_spaces(b, i) ==
  IF i > Len(b) THEN i
  ELSE CHOOSE j \in i..Len(b) :
         b[j] # SPACE /\ \A k \in i..j-1 : b[k] = SPACE

dispatch(b) ==
  LET p     == skip_spaces(b, 1)
      rest  == SubSeq(b, p, Len(b))
      hits  == {t \in DOMAIN Tests : IsPrefix(Tests[t].letters, rest)}
  IN  IF b[p] = NUL THEN [cmd |-> "none", arg |-> <<>>]
      ELSE IF hits = {} THEN [cmd |-> "unknown", arg |-> <<>>]
      ELSE LET t == Tests[CHOOSE t \in hits : \A u \in hits : t <= u]
           IN  [cmd |-> t.cmd,
                arg |-> IF t.offset = 0 THEN <<>>
                        ELSE TextFrom(b, skip_spaces(b, p + t.offset))]

-----------------------------------------------------------------------------
(***************************************************************************)
(* The editor.                                                             *)
(***************************************************************************)
(* Mutant of type: the last cell is used, and none is left for the NUL.    *)
type_full(c) ==
  /\ pos < BUF_LEN
  /\ buf' = [buf EXCEPT ![pos + 1] = c]
  /\ pos' = pos + 1
  /\ UNCHANGED <<ran, entered, erased>>

(* A character that finds the buffer full is dropped.                      *)
type(c) ==
  /\ pos < BUF_LEN - 1
  /\ buf' = [buf EXCEPT ![pos + 1] = c]
  /\ pos' = pos + 1
  /\ UNCHANGED <<ran, entered, erased>>

erase ==
  /\ pos > 0
  /\ erased < MaxErased
  /\ pos' = pos - 1
  /\ erased' = erased + 1
  /\ UNCHANGED <<buf, ran, entered>>

(* Mutant of enter: the line is not ended.                                 *)
enter_open ==
  /\ entered < MaxLines
  /\ buf' = buf
  /\ LET d == dispatch(buf')
     IN  ran' = [line |-> Line, cmd |-> d.cmd, arg |-> d.arg]
  /\ pos' = 0
  /\ entered' = entered + 1
  /\ UNCHANGED erased

enter ==
  /\ entered < MaxLines
  /\ buf' = [buf EXCEPT ![pos + 1] = NUL]
  /\ LET d == dispatch(buf')
     IN  ran' = [line |-> Line, cmd |-> d.cmd, arg |-> d.arg]
  /\ pos' = 0
  /\ entered' = entered + 1
  /\ UNCHANGED erased

(* What is typed leads to one of LINES; enter comes at any time.           *)
Next ==
  \/ \E l \in LINES :
       /\ pos < Len(l) /\ IsPrefix(Line, l)
       /\ type(l[pos + 1])
  \/ erase
  \/ enter

Spec == Init /\ [][Next]_vars

-----------------------------------------------------------------------------
(***************************************************************************)
(* Properties.                                                             *)
(***************************************************************************)
(* The commands as `help` lists them, all twenty: what is typed, which     *)
(* command the line is for, and whether an argument follows.               *)
Help == {
  [verb |-> <<"s","p","a","w","n">>,         cmd |-> "cmd_spawn",        arg |-> TRUE],
  [verb |-> <<"r","s","p","a","w","n">>,     cmd |-> "cmd_rspawn",       arg |-> TRUE],
  [verb |-> <<"e","v","a","l">>,             cmd |-> "cmd_eval",         arg |-> TRUE],
  [verb |-> <<"p","s">>,                     cmd |-> "cmd_ps",           arg |-> FALSE],
  [verb |-> <<"k","i","l","l">>,             cmd |-> "cmd_kill",         arg |-> TRUE],
  [verb |-> <<"r","e","s","t","a","r","t">>, cmd |-> "cmd_restart",      arg |-> TRUE],
  [verb |-> <<"r","e","s","e","t">>,         cmd |-> "cmd_reset",        arg |-> FALSE],
  [verb |-> <<"b","o","o","t","l","e","g">>, cmd |-> "cmd_bootleg",      arg |-> FALSE],
  [verb |-> <<"s","t","a","t","u","s">>,     cmd |-> "cmd_status",       arg |-> FALSE],
  [verb |-> <<"c","l","e","a","r">>,         cmd |-> "cmd_clear",        arg |-> FALSE],
  [verb |-> <<"e","c","h","o">>,             cmd |-> "cmd_echo",         arg |-> TRUE],
  [verb |-> <<"m","e","m">>,                 cmd |-> "cmd_mem",          arg |-> FALSE],
  [verb |-> <<"l","s","p","c","i">>,         cmd |-> "cmd_lspci",        arg |-> FALSE],
  [verb |-> <<"a","r","c","h">>,             cmd |-> "cmd_arch",         arg |-> FALSE],
  [verb |-> <<"g","r","o","o","v","e">>,     cmd |-> "cmd_groove",       arg |-> FALSE],
  [verb |-> <<"s","t","o","p">>,             cmd |-> "cmd_stopgroove",   arg |-> FALSE],
  [verb |-> <<"t","o","n","e">>,             cmd |-> "cmd_tone",         arg |-> TRUE],
  [verb |-> <<"b","e","e","p">>,             cmd |-> "cmd_beep",         arg |-> FALSE],
  [verb |-> <<"s","i","g">>,                 cmd |-> "cmd_schema_audio", arg |-> TRUE],
  [verb |-> <<"h","e","l","p">>,             cmd |-> "cmd_help",         arg |-> FALSE] }

(* The first word of a line, behind k spaces, is the verb.                 *)
Names(line, k, verb) ==
  /\ k + Len(verb) <= Len(line)
  /\ \A i \in 1..k : line[i] = SPACE
  /\ \A i \in 1..Len(verb) : line[k + i] = verb[i]
  /\ k + Len(verb) < Len(line) => line[k + Len(verb) + 1] = SPACE

(* arg is what follows the first n cells of a line and the spaces there    *)
Argument(line, n, arg) ==
  \E k \in n..Len(line) :
    /\ \A i \in n+1..k : line[i] = SPACE
    /\ k < Len(line) => line[k + 1] # SPACE
    /\ arg = SubSeq(line, k + 1, Len(line))

(* What is read as the argument of `restart` is meant to be typed: alone,  *)
(* the word is one cell shorter than the code assumes.                     *)
TakesArgument(line, k, h) ==
  h.arg /\ (h.cmd # "cmd_restart" \/ k + Len(h.verb) < Len(line))

(* A line whose first word `help` lists reaches the command it is listed   *)
(* for, with the argument that was typed, all of it and nothing of an      *)
(* older line: whatever the buffer still holds, however many spaces stand  *)
(* before and behind the word, and wherever the order of the tests puts    *)
(* it.  Two of the lines are excepted, as the code gets them wrong; each   *)
(* is stated by itself below, and TLC refutes it: `stop`, which the test   *)
(* for `st` takes (StopStopsGroove), and the argument of `restart` when    *)
(* none is typed (RestartTakesTypedPid).                                   *)
HelpIsTrue ==
  \A h \in Help : \A k \in 0..Len(ran.line) :
    h.cmd # "cmd_stopgroove" /\ Names(ran.line, k, h.verb) =>
      /\ ran.cmd = h.cmd
      /\ TakesArgument(ran.line, k, h) =>
           Argument(ran.line, k + Len(h.verb), ran.arg)

-----------------------------------------------------------------------------
(* "  stop              stop groove": the line that `help` lists for the   *)
(* command that stops the groove reaches it.                               *)
StopStopsGroove ==
  \A h \in Help : h.cmd = "cmd_stopgroove" /\ Names(ran.line, 0, h.verb)
                    => ran.cmd = h.cmd

(* "  restart <pid>     manually restart an excised process": the process  *)
(* that is restarted is the one the line names, and a line that names none *)
(* gives the command no number.                                            *)
RestartTakesTypedPid ==
  ran.cmd = "cmd_restart" => IsSuffix(ran.arg, ran.line)
=============================================================================
