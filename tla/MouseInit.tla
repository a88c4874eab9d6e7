------------------------------ MODULE MouseInit ------------------------------
(***************************************************************************)
(* mouse_init of kernel/mouse.c talks to the controller of keyboard and    *)
(* mouse, the i8042, once, before the loop of the shell begins.  It waits  *)
(* for the controller before every access, and not for ever.               *)
(*                                                                         *)
(* The controller is external.  It takes what it is sent in its own time,  *)
(* offers one byte after the other, and offers the bytes of keys that are  *)
(* pressed or released meanwhile, at the same port.                        *)
(***************************************************************************)
EXTENDS Naturals, Sequences

CONSTANTS
  PATIENCE,      (* how often a wait looks at the status, 100000 in the    *)
                 (* code                                                   *)
  MaxStray       (* bound: bytes of the keyboard                           *)

ASSUME MouseInitAssumption == PATIENCE \in Nat /\ MaxStray \in Nat

(* A byte matters by two bits, those that turn keyboard and mouse off in   *)
(* the controller's command byte.                                          *)
KBD_OFF   == 16
MOUSE_OFF == 32
Bytes     == SUBSET {KBD_OFF, MOUSE_OFF}
ACK       == {KBD_OFF, MOUSE_OFF}      (* 0xFA                             *)
Found     == {MOUSE_OFF}               (* by the kernel                    *)

VARIABLES
  next,          (* the access mouse_init comes to next, in Accesses       *)
  looks,         (* how often it has looked at the status for it           *)
  cb,
  inbuf,         (* what the controller was sent and has not taken yet, or *)
                 (* "none"                                                 *)
  command,       (* the command whose data byte it expects, or "none"      *)
  config,        (* its command byte                                       *)
  replies,       (* bytes it has still to offer                            *)
  outbuf,        (* the byte it offers, none or one: a set                 *)
  reporting,     (* the mouse reports its movements                        *)
  stray,         (* history: bytes of the keyboard                         *)
  hasty          (* history: a wait came to its end in vain                *)

i8042 == <<inbuf, command, config, replies, outbuf, reporting, stray>>
ps2   == <<next, looks, cb, i8042, hasty>>

(* Commands to port 0x64, data to 0x60, and reads of 0x60                  *)
Accesses ==
  << "enable_aux", "read_config", "in_cb", "write_config", "out_cb",
     "to_mouse", "report", "in_ack" >>

Reads == {"in_cb", "in_ack"}

Ps2Init ==
  /\ next = 1 /\ looks = 0 /\ cb = Found
  /\ inbuf = "none" /\ command = "none" /\ config = Found
  /\ replies = <<>> /\ outbuf = {} /\ reporting = FALSE
  /\ stray = 0 /\ hasty = FALSE

Initialised == next > Len(Accesses)

-----------------------------------------------------------------------------
(* What ps2_wait_in and ps2_wait_out wait for                              *)
ready == IF Accesses[next] \in Reads THEN outbuf # {} ELSE inbuf = "none"

(* Mutant of wait: without a limit.                                        *)
wait_forever ==
  ~ Initialised /\ ~ ready /\ looks < PATIENCE /\ UNCHANGED ps2

wait ==
  /\ ~ Initialised /\ ~ ready /\ looks < PATIENCE
  /\ looks' = looks + 1
  /\ UNCHANGED <<next, cb, i8042, hasty>>

(* Mutant of patched: the mouse's bit is set.                              *)
patched_wrong(b) == b \cup {MOUSE_OFF}

(* (b | 0x02) & ~0x20; nothing depends on bit 1, which is about interrupts.*)
patched(b) == b \ {MOUSE_OFF}

(* A byte that is read where none is offered may be any.                   *)
read(b) ==
  /\ outbuf # {} => b \in outbuf
  /\ outbuf' = {}
  /\ cb' = IF Accesses[next] = "in_cb" THEN patched(b) ELSE cb
  /\ UNCHANGED <<inbuf, command, config, replies, reporting, stray>>

write ==
  /\ inbuf' = Accesses[next]
  /\ UNCHANGED <<cb, command, config, replies, outbuf, reporting, stray>>

access ==
  /\ ~ Initialised
  /\ ready \/ looks = PATIENCE
  /\ IF Accesses[next] \in Reads THEN \E b \in Bytes : read(b) ELSE write
  /\ next' = next + 1 /\ looks' = 0
  /\ hasty' = IF ready THEN hasty ELSE TRUE

mouse_init == wait \/ access

-----------------------------------------------------------------------------
(* The controller takes what it was sent; what it is sent before that      *)
(* takes the place of it.                                                  *)
take ==
  /\ inbuf # "none" /\ inbuf' = "none"
  /\ command' = IF inbuf \in {"write_config", "to_mouse"}
                THEN inbuf ELSE "none"
  /\ config' = IF inbuf = "enable_aux" THEN config \ {MOUSE_OFF}
               ELSE IF inbuf = "out_cb" /\ command = "write_config" THEN cb
               ELSE config
  /\ LET told == inbuf = "report" /\ command = "to_mouse"
     IN  /\ reporting' = IF told THEN TRUE ELSE reporting
         /\ replies' = IF told THEN Append(replies, ACK)
                       ELSE IF inbuf = "read_config"
                       THEN Append(replies, config) ELSE replies
  /\ UNCHANGED <<next, looks, cb, outbuf, stray, hasty>>

offer ==
  /\ outbuf = {} /\ replies # <<>>
  /\ outbuf' = {Head(replies)} /\ replies' = Tail(replies)
  /\ UNCHANGED <<next, looks, cb, inbuf, command, config, reporting, stray,
                 hasty>>

key(b) ==
  /\ outbuf = {} /\ KBD_OFF \notin config /\ stray < MaxStray
  /\ outbuf' = {b} /\ stray' = stray + 1
  /\ UNCHANGED <<next, looks, cb, inbuf, command, config, replies, reporting,
                 hasty>>

controller == take \/ offer \/ \E b \in Bytes : key(b)

-----------------------------------------------------------------------------
(* When no key comes between and the controller answers in time, keyboard  *)
(* and mouse are on in the end, the mouse reports, and no byte is left     *)
(* over for the loop to take for a part of a packet.                       *)
MouseReady ==
  Initialised /\ stray = 0 /\ ~ hasty
    => /\ config = {}
       /\ reporting
       /\ outbuf = {} /\ replies = <<>>

(* "read + patch command byte": what mouse_init writes back is the command *)
(* byte it has read, with the bits it has nothing to do with as they were. *)
CommandByteIsPatched == ~ hasty => (KBD_OFF \in config <=> KBD_OFF \in Found)
=============================================================================
