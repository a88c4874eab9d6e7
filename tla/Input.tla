-------------------------------- MODULE Input --------------------------------
(***************************************************************************)
(* How the loop of kernel/shell.c reads keyboard and mouse, which share    *)
(* the one data port of the i8042: mouse_poll of kernel/mouse.c, then      *)
(* serial_trygetc of kernel/serial.c, then kbd_getc of the shell.  There   *)
(* are no interrupts; bytes arrive between any two reads of the ports.     *)
(*                                                                         *)
(* The controller and the two devices are external: each sends its bytes   *)
(* in order, and the controller offers one at a time, with a bit of the    *)
(* status that tells whose it is.  A byte that is offered stays until it   *)
(* is read, so that looking at the status and reading the data is one step.*)
(***************************************************************************)
EXTENDS Integers, Sequences

CONSTANTS
  BODY,          (* the bytes that follow the first of a packet: [sync,    *)
                 (* down, char] records                                    *)
  MaxKeys,       (* bound: how many keys are pressed                       *)
  MaxMoves       (* bound: how many packets the mouse sends                *)

ASSUME InputAssumption ==
  /\ BODY \subseteq [sync : BOOLEAN, down : BOOLEAN, char : BOOLEAN]
  /\ MaxKeys \in Nat /\ MaxMoves \in Nat

(* A byte of the keyboard is the scan code of a key that goes down, which  *)
(* stands for a character, or up.  A byte of the mouse has its place i in  *)
(* packet n; sync is its bit 3 and down its bit 0, which in the first byte *)
(* is the left button and in the others a part of how far the mouse moved; *)
(* char says that, taken for a scan code, it stands for a character.       *)
KeyBytes   == [key : 1..MaxKeys, up : BOOLEAN]
MouseBytes == [n : 1..MaxMoves, i : 1..3, sync : BOOLEAN, down : BOOLEAN,
               char : BOOLEAN]

VARIABLES
  kbd, aux,      (* the bytes the devices have still to send               *)
  out,           (* the byte the controller offers, none or one            *)
  pc,            (* where the loop is: "mouse", "serial" or "kbd"          *)
  pkt,           (* pkt[0..cycle-1] of mouse_poll                          *)
  buttons,       (* the left button of mouse_buttons                       *)
  prev_buttons,
  pressed, moved,    (* history: keys pressed, packets sent                *)
  button,        (* history: the left button, as packet n was sent         *)
  typed,         (* history: what the loop took for characters, a key or   *)
                 (* 0 for a byte of the mouse                              *)
  stolen,        (* history: kbd_getc read a byte of the mouse             *)
  last,          (* history: the packet mouse_poll handled last, or 0      *)
  clicks         (* history: what last was when the loop saw a click       *)

devices == <<kbd, aux, pressed, moved, button>>
mouse   == <<pkt, buttons, last>>
vars    == <<devices, out, pc, mouse, prev_buttons, typed, stolen, clicks>>

FromMouse(b) == "i" \in DOMAIN b

TypeOK ==
  /\ kbd \in Seq(KeyBytes) /\ aux \in Seq(MouseBytes)
  /\ out \in Seq(KeyBytes \cup MouseBytes) /\ Len(out) <= 1
  /\ pc \in {"mouse", "serial", "kbd"}
  /\ pkt \in Seq(MouseBytes) /\ Len(pkt) <= 2
  /\ buttons \in BOOLEAN /\ prev_buttons \in BOOLEAN
  /\ pressed \in 0..MaxKeys /\ moved \in 0..MaxMoves
  /\ typed \in Seq(0..MaxKeys)
  /\ stolen \in BOOLEAN
  /\ button \in [1..MaxMoves -> BOOLEAN]
  /\ last \in 0..MaxMoves
  /\ clicks \in Seq(0..MaxMoves)

Init ==
  /\ kbd = <<>> /\ aux = <<>> /\ out = <<>>
  /\ pc = "mouse"
  /\ pkt = <<>> /\ buttons = FALSE /\ prev_buttons = FALSE
  /\ pressed = 0 /\ moved = 0 /\ button = [n \in 1..MaxMoves |-> FALSE]
  /\ typed = <<>> /\ stolen = FALSE
  /\ last = 0 /\ clicks = <<>>

-----------------------------------------------------------------------------
(***************************************************************************)
(* The devices and the controller.                                         *)
(***************************************************************************)
press ==
  /\ pressed < MaxKeys
  /\ pressed' = pressed + 1
  /\ kbd' = kbd \o <<[key |-> pressed', up |-> FALSE],
                     [key |-> pressed', up |-> TRUE]>>
  /\ UNCHANGED <<aux, moved, button, out, pc, mouse, prev_buttons, typed,
                 stolen, clicks>>

(* The mouse sends a packet.  Bit 3 of its first byte is always set.       *)
first_byte(down) == [sync |-> TRUE, down |-> down, char |-> TRUE]

move(down, b2, b3) ==
  /\ moved < MaxMoves
  /\ moved' = moved + 1
  /\ button' = [button EXCEPT ![moved'] = down]
  /\ LET byte(i, b) == [n |-> moved', i |-> i, sync |-> b.sync,
                        down |-> b.down, char |-> b.char]
     IN  aux' = aux \o <<byte(1, first_byte(down)), byte(2, b2), byte(3, b3)>>
  /\ UNCHANGED <<kbd, pressed, out, pc, mouse, prev_buttons, typed, stolen,
                 clicks>>

deliver_key ==
  /\ out = <<>> /\ kbd # <<>>
  /\ out' = <<Head(kbd)>> /\ kbd' = Tail(kbd)
  /\ UNCHANGED <<aux, pressed, moved, button, pc, mouse, prev_buttons, typed,
                 stolen, clicks>>

deliver_mouse ==
  /\ out = <<>> /\ aux # <<>>
  /\ out' = <<Head(aux)>> /\ aux' = Tail(aux)
  /\ UNCHANGED <<kbd, pressed, moved, button, pc, mouse, prev_buttons, typed,
                 stolen, clicks>>

-----------------------------------------------------------------------------
(***************************************************************************)
(* The loop.                                                               *)
(***************************************************************************)
(* (inb(0x64) & 0x21) == 0x21                                              *)
ForMouse == out # <<>> /\ FromMouse(out[1])

(* Mutant of mouse_byte: after a packet the counter is not reset.          *)
mouse_byte_no_reset ==
  /\ pc = "mouse" /\ ForMouse
  /\ out' = <<>>
  /\ LET b == out[1]
     IN  IF pkt = <<>> /\ ~ b.sync
         THEN UNCHANGED mouse
         ELSE IF Len(pkt) < 2
         THEN pkt' = Append(pkt, b) /\ UNCHANGED <<buttons, last>>
         ELSE /\ pkt' = Tail(pkt)
              /\ buttons' = pkt[1].down
              /\ last' = pkt[1].n
  /\ UNCHANGED <<devices, pc, prev_buttons, typed, stolen, clicks>>

(* One turn of mouse_poll's loop.  A packet is handled when its third byte *)
(* is there; a byte that cannot be the first of one is skipped.            *)
mouse_byte ==
  /\ pc = "mouse" /\ ForMouse
  /\ out' = <<>>
  /\ LET b == out[1]
     IN  IF pkt = <<>> /\ ~ b.sync
         THEN UNCHANGED mouse
         ELSE IF Len(pkt) < 2
         THEN pkt' = Append(pkt, b) /\ UNCHANGED <<buttons, last>>
         ELSE /\ pkt' = <<>>
              /\ buttons' = pkt[1].down
              /\ last' = pkt[1].n
  /\ UNCHANGED <<devices, pc, prev_buttons, typed, stolen, clicks>>

(* Mutant of mouse_done: mouse_poll waits for the rest of a packet.        *)
mouse_done_waits ==
  /\ pc = "mouse" /\ ~ ForMouse
  /\ IF pkt = <<>>
     THEN /\ pc' = "serial"
          /\ clicks' = IF prev_buttons /\ ~ buttons
                       THEN Append(clicks, last) ELSE clicks
          /\ prev_buttons' = buttons
     ELSE UNCHANGED <<pc, clicks, prev_buttons>>
  /\ UNCHANGED <<devices, out, mouse, typed, stolen>>

(* Mutant of mouse_done: the button going down is taken for the click.     *)
mouse_done_down ==
  /\ pc = "mouse" /\ ~ ForMouse
  /\ pc' = "serial"
  /\ clicks' = IF ~ prev_buttons /\ buttons
               THEN Append(clicks, last) ELSE clicks
  /\ prev_buttons' = buttons
  /\ UNCHANGED <<devices, out, mouse, typed, stolen>>

(* mouse_poll returns, and the loop looks for a click; the pointer is over *)
(* a node.                                                                 *)
mouse_done ==
  /\ pc = "mouse" /\ ~ ForMouse
  /\ pc' = "serial"
  /\ clicks' = IF prev_buttons /\ ~ buttons
               THEN Append(clicks, last) ELSE clicks
  /\ prev_buttons' = buttons
  /\ UNCHANGED <<devices, out, mouse, typed, stolen>>

(* Mutant of serial_trygetc: a key is looked at and not taken.             *)
serial_trygetc_peeks ==
  /\ pc = "serial"
  /\ UNCHANGED out
  /\ IF out = <<>> \/ ForMouse \/ out[1].up
     THEN pc' = "kbd" /\ UNCHANGED typed
     ELSE pc' = "mouse" /\ typed' = Append(typed, out[1].key)
  /\ UNCHANGED <<devices, mouse, prev_buttons, stolen, clicks>>

(* A byte of the mouse is left alone; a key that goes up is no character.  *)
serial_trygetc ==
  /\ pc = "serial"
  /\ IF out = <<>> \/ ForMouse
     THEN pc' = "kbd" /\ UNCHANGED <<out, typed>>
     ELSE /\ out' = <<>>
          /\ IF out[1].up
             THEN pc' = "kbd" /\ UNCHANGED typed
             ELSE pc' = "mouse" /\ typed' = Append(typed, out[1].key)
  /\ UNCHANGED <<devices, mouse, prev_buttons, stolen, clicks>>

(* What kbd_getc makes of a byte: it does not look whose it is.            *)
Character(b) ==
  IF FromMouse(b) THEN IF b.char THEN <<0>> ELSE <<>>
                  ELSE IF b.up THEN <<>> ELSE <<b.key>>

kbd_getc ==
  /\ pc = "kbd"
  /\ pc' = "mouse"
  /\ out' = <<>>
  /\ IF out = <<>>
     THEN UNCHANGED <<typed, stolen>>
     ELSE /\ typed' = typed \o Character(out[1])
          /\ stolen' = (stolen \/ FromMouse(out[1]))
  /\ UNCHANGED <<devices, mouse, prev_buttons, clicks>>

Loop == mouse_byte \/ mouse_done \/ serial_trygetc \/ kbd_getc

Next ==
  \/ press
  \/ \E down \in BOOLEAN, b2, b3 \in BODY : move(down, b2, b3)
  \/ deliver_key
  \/ deliver_mouse
  \/ Loop

(* The loop never waits, and the controller offers what the devices send.  *)
Spec ==
  /\ Init /\ [][Next]_vars
  /\ WF_vars(Loop) /\ SF_vars(deliver_key) /\ SF_vars(deliver_mouse)

-----------------------------------------------------------------------------
(***************************************************************************)
(* Properties.                                                             *)
(***************************************************************************)
(* The key a byte stands for, or 0                                         *)
KeyOf(b) == IF FromMouse(b) \/ b.up THEN 0 ELSE b.key

Bytes == out \o kbd

(* What was typed, and behind it what is still to be                       *)
Line == typed \o [j \in 1..Len(Bytes) |-> KeyOf(Bytes[j])]

(* No key press is lost, doubled or overtaken, whichever of the two        *)
(* functions reads it and whatever the mouse does meanwhile.               *)
NoKeyLost ==
  /\ \A k \in 1..pressed : \E j \in DOMAIN Line : Line[j] = k
  /\ \A j \in DOMAIN Line : Line[j] \in 0..pressed
  /\ \A i, j \in DOMAIN Line :
       i < j /\ 0 \notin {Line[i], Line[j]} => Line[i] < Line[j]

(* As long as kbd_getc has read no byte of the mouse, mouse_poll puts      *)
(* together the bytes of one packet, in order.                             *)
PacketsWhole ==
  ~ stolen =>
    \A i \in DOMAIN pkt : pkt[i].i = i /\ pkt[i].n = pkt[1].n

(* As long as kbd_getc has read no byte of the mouse, every click that the *)
(* loop sees has a release of the button of its own: the mouse sent one    *)
(* behind the packets that were handled at the click before.               *)
Released(n) == n > 1 /\ button[n - 1] /\ ~ button[n]

Since(i) == (IF i = 1 THEN 1 ELSE clicks[i - 1] + 1) .. clicks[i]

NoFalseClick ==
  ~ stolen => \A i \in DOMAIN clicks : \E n \in Since(i) : Released(n)

(* Every key that is pressed is typed in the end: the mouse does not block *)
(* the keyboard.                                                           *)
Waiting == \E j \in DOMAIN Bytes : KeyOf(Bytes[j]) # 0

KeysAreTyped == Waiting ~> ~ Waiting

-----------------------------------------------------------------------------
(* "mouse data, not keyboard": what the loop takes for characters are keys.*)
TypedByKeys == \A j \in DOMAIN typed : typed[j] # 0

(* "left click release = select node": nothing is selected before the left *)
(* button was let go.                                                      *)
ClickIsRelease == clicks # <<>> => \E n \in 1..moved : Released(n)

(* ... and when the loop has looked for a click, it has seen every release *)
(* that mouse_poll handled, even if no byte of the mouse went astray.      *)
ReleaseSelects ==
  ~ stolen /\ pc # "mouse" =>
    \A n \in 1..last : Released(n) => \E i \in DOMAIN clicks : n \in Since(i)
=============================================================================
