-------------------------------- MODULE Boot ---------------------------------
(***************************************************************************)
(* kernel_main of kernel/kernel.c: from GRUB to the loop of the shell.  It *)
(* prints while it goes, looks for a framebuffer in what GRUB left, lists  *)
(* what is on the PCI bus, starts the timer, and greets the mouse; what    *)
(* comes next waits until the serial port has taken what was printed.      *)
(* From then on the loop polls the timer, unless it is printing.           *)
(***************************************************************************)
EXTENDS Timer, Serial, MouseInit

CONSTANTS
  Starts,        (* what the kernel may find: records of                   *)
                 (*   magic    whether GRUB's magic number is right        *)
                 (*   info     the tags GRUB left, by address              *)
                 (*   present  the functions on the bus that answer        *)
                 (*   multi    the devices whose header says that they     *)
                 (*            have more functions than one                *)
  BUSES, DEVS, FUNCS,    (* 8, 32 and 8 in the code                        *)
  PCI_MAX_DEVS,          (* how many functions are listed at most, 64      *)
  TEXT                   (* how many characters a text has                 *)

NoFb == [type |-> 0, addr |-> 0, w |-> 0, h |-> 0, bpp |-> 0]

(* The framebuffers tags tell of                                           *)
Framebuffers == [type : Nat, addr : Nat, w : Nat, h : Nat, bpp : Nat]

(* Multiboot's promise: a tag begins at the next multiple of eight behind  *)
(* the one before, and the last is of type 0.                              *)
Follows(a, b, info) ==
  /\ b \in DOMAIN info /\ a + info[a].size <= b /\ b < a + info[a].size + 8
  /\ \A c \in DOMAIN info : c <= a \/ b <= c

WellFormed(info) ==
  /\ 0 \in DOMAIN info
  /\ \A a \in DOMAIN info :
       /\ a \in Nat /\ a % 8 = 0
       /\ info[a] \in [type : Nat, size : Nat, fb : Framebuffers]
       /\ info[a].size >= 8
       /\ info[a].type # 0 => \E b \in DOMAIN info : Follows(a, b, info)

Places == (0..BUSES-1) \X (0..DEVS-1) \X (0..FUNCS-1)

ASSUME BootAssumption ==
  /\ BUSES \in Nat \ {0} /\ DEVS \in Nat \ {0} /\ FUNCS \in Nat \ {0}
  /\ PCI_MAX_DEVS \in Nat /\ TEXT \in Nat
  /\ \A s \in Starts :
       /\ s.magic \in BOOLEAN /\ WellFormed(s.info)
       /\ s.present \subseteq Places

VARIABLES
  pc,            (* what comes next                                        *)
  start,         (* what the kernel found                                  *)
  tag,           (* address of the tag that is looked at                   *)
  found,         (* the framebuffer in the tags                            *)
  vga, fb,       (* address of the text screen; the framebuffer in use     *)
  place,         (* the function that is looked at                         *)
  pci_devs

pci       == <<place, pci_devs>>
screen    == <<vga, fb>>
walk      == <<tag, found>>
boot_vars == <<pc, start, walk, screen, pci, line, ps2, vars>>

VGA_BUF == 753664        (* 0xB8000                                        *)

BootInit ==
  /\ pc = "entry" /\ start \in Starts
  /\ tag = 0 /\ found = NoFb
  /\ vga = VGA_BUF /\ fb = NoFb
  /\ place = <<0, 0, 0>> /\ pci_devs = <<>>
  /\ LineInit /\ Ps2Init /\ Init

(* The kernel gets from here to there, and prints n characters.            *)
Stage(here, there, n) ==
  /\ pc = here /\ pc' = there
  /\ serial_puts(n)
  /\ UNCHANGED <<start, ps2, vars>>

-----------------------------------------------------------------------------
enter == Stage("entry", "magic", TEXT) /\ UNCHANGED <<walk, screen, pci>>

check_magic ==
  /\ \/ start.magic   /\ Stage("magic", "tags", 0)
     \/ ~ start.magic /\ Stage("magic", "halt", TEXT)
  /\ UNCHANGED <<walk, screen, pci>>

(* for (;;) hlt                                                            *)
halt == pc = "halt" /\ Printed /\ UNCHANGED boot_vars

-----------------------------------------------------------------------------
(***************************************************************************)
(* The walk over the tags.                                                 *)
(***************************************************************************)
(* Mutant of padded: tags are taken to lie side by side.                   *)
padded_not(size) == size

(* (size + 7) & ~7u                                                        *)
padded(size) == ((size + 7) \div 8) * 8

walk_tag ==
  /\ LET t == start.info[tag]
     IN  \/ /\ t.type \notin {0, 8} /\ tag' = tag + padded(t.size)
            /\ Stage("tags", "tags", 0) /\ UNCHANGED found
         \/ /\ t.type = 8 /\ found' = t.fb
            /\ Stage("tags", "screen", TEXT) /\ UNCHANGED tag
         \/ /\ t.type = 0
            /\ Stage("tags", "screen", 0) /\ UNCHANGED walk
  /\ UNCHANGED <<screen, pci>>

IsText    == found.type = 2 /\ found.addr # 0
IsGraphic == 0 \notin {found.addr, found.w, found.h} /\ found.bpp >= 15

choose_screen ==
  /\ \/ /\ IsText /\ vga' = found.addr
        /\ Stage("screen", "pci", 0) /\ UNCHANGED fb
     \/ /\ ~ IsText /\ IsGraphic /\ fb' = found
        /\ Stage("screen", "pci", 0) /\ UNCHANGED vga
     \/ /\ ~ IsText /\ ~ IsGraphic
        /\ Stage("screen", "pci", TEXT) /\ UNCHANGED screen
  /\ UNCHANGED <<walk, pci>>

-----------------------------------------------------------------------------
(***************************************************************************)
(* pci_init of kernel/pci.c.  A function that is not there reads as ones   *)
(* throughout, its header as well.                                         *)
(***************************************************************************)
Present(p) == p \in start.present

(* Mutant of functions: no look at whether the device is there at all.     *)
functions_of_any(b, d) ==
  IF Present(<<b, d, 0>>) => <<b, d>> \in start.multi THEN FUNCS ELSE 1

(* How many functions of a device are looked at, function 0 included       *)
functions(b, d) ==
  IF Present(<<b, d, 0>>) /\ <<b, d>> \in start.multi THEN FUNCS ELSE 1

After(p) ==
  IF p[3] + 1 < functions(p[1], p[2]) THEN <<p[1], p[2], p[3] + 1>>
  ELSE IF p[2] + 1 < DEVS THEN <<p[1], p[2] + 1, 0>>
  ELSE <<p[1] + 1, 0, 0>>

scan ==
  /\ place[1] < BUSES
  /\ \/ /\ Present(place) /\ Len(pci_devs) < PCI_MAX_DEVS
        /\ pci_devs' = Append(pci_devs, place) /\ place' = After(place)
        /\ Stage("pci", "pci", 0)
     \/ /\ ~ Present(place)
        /\ place' = After(place)
        /\ Stage("pci", "pci", 0) /\ UNCHANGED pci_devs
     \/ /\ Present(place) /\ Len(pci_devs) >= PCI_MAX_DEVS
        /\ Stage("pci", "timer", TEXT) /\ UNCHANGED pci
  /\ UNCHANGED <<walk, screen>>

scanned ==
  /\ place[1] = BUSES
  /\ Stage("pci", "timer", TEXT)
  /\ UNCHANGED <<walk, screen, pci>>

-----------------------------------------------------------------------------
(***************************************************************************)
(* Timer, mouse and shell.                                                 *)
(***************************************************************************)
(* timer_init, after which the timer is as Init has it; schema_boot prints.*)
start_timer ==
  Stage("timer", "mouse", TEXT) /\ UNCHANGED <<walk, screen, pci>>

greet_mouse ==
  /\ pc = "mouse" /\ Printed /\ mouse_init
  /\ UNCHANGED <<pc, start, walk, screen, pci, line, vars>>

start_shell ==
  /\ Initialised
  /\ Stage("mouse", "shell", TEXT) /\ UNCHANGED <<walk, screen, pci>>

kernel_main ==
  \/ enter
  \/ check_magic
  \/ walk_tag
  \/ choose_screen
  \/ scan
  \/ scanned
  \/ start_timer
  \/ greet_mouse
  \/ start_shell

(* A turn of the loop, with or without something to print                  *)
poll ==
  /\ pc = "shell" /\ Printed /\ timer_poll
  /\ UNCHANGED <<pc, start, walk, screen, pci, line, ps2>>

echo == Stage("shell", "shell", 1) /\ UNCHANGED <<walk, screen, pci>>

print ==
  serial_putc /\ UNCHANGED <<pc, start, walk, screen, pci, ps2, vars>>

(* The devices.  It makes no difference how long the timer has run when    *)
(* the loop polls it for the first time.                                   *)
send == transmit /\ UNCHANGED <<pc, start, walk, screen, pci, ps2, vars>>

tick ==
  /\ pc = "shell" /\ pulse
  /\ UNCHANGED <<pc, start, walk, screen, pci, line, ps2>>

(* What is left of the controller's answers is another module's, Input.    *)
answer ==
  /\ pc = "mouse" /\ ~ Initialised /\ controller
  /\ UNCHANGED <<pc, start, walk, screen, pci, line, vars>>

BootNext ==
  \/ kernel_main
  \/ halt
  \/ poll
  \/ echo
  \/ print
  \/ send
  \/ tick
  \/ answer

(* The kernel waits for nothing but the port; the port sends what it has.  *)
BootSpec ==
  /\ BootInit /\ [][BootNext]_boot_vars
  /\ WF_boot_vars(kernel_main) /\ WF_boot_vars(print) /\ WF_boot_vars(send)

-----------------------------------------------------------------------------
(***************************************************************************)
(* Properties.                                                             *)
(***************************************************************************)
(* The framebuffer that is used is that of the first tag of type 8 before  *)
(* the end of the tags, and none if there is none: the walk steps from tag *)
(* to tag, whatever their sizes.                                           *)
FbTags ==
  {a \in DOMAIN start.info :
     /\ start.info[a].type = 8
     /\ \A z \in DOMAIN start.info : start.info[z].type = 0 => a < z}

FindsFramebuffer ==
  /\ pc = "tags" => tag \in DOMAIN start.info
  /\ pc \notin {"entry", "magic", "halt", "tags"} =>
       \/ FbTags = {} /\ found = NoFb
       \/ \E a \in FbTags :
            (\A b \in FbTags : a <= b) /\ found = start.info[a].fb

(* pci_devs has the functions of the bus in order, without one of a device *)
(* that is not there, or that has only function 0; and when it is full, it *)
(* has the first of them.                                                  *)
Precedes(p, q) ==
  \/ p[1] < q[1]
  \/ p[1] = q[1] /\ p[2] < q[2]
  \/ p[1] = q[1] /\ p[2] = q[2] /\ p[3] < q[3]

Proper(p) ==
  /\ Present(p)
  /\ p[3] # 0 => Present(<<p[1], p[2], 0>>) /\ <<p[1], p[2]>> \in start.multi

Listed(p) == \E i \in 1..Len(pci_devs) : pci_devs[i] = p

ListsFunctions ==
  /\ Len(pci_devs) <= PCI_MAX_DEVS
  /\ \A i \in 1..Len(pci_devs) : Proper(pci_devs[i])
  /\ \A i, j \in 1..Len(pci_devs) :
       i < j => Precedes(pci_devs[i], pci_devs[j])
  /\ pc \in {"timer", "mouse", "shell"} =>
       \A p \in Places :
         Proper(p) => \/ Listed(p)
                      \/ /\ Len(pci_devs) = PCI_MAX_DEVS
                         /\ \A i \in 1..Len(pci_devs) :
                              Precedes(pci_devs[i], p)

(* With the right magic number the shell is reached, even when keyboard    *)
(* and mouse never answer.                                                 *)
ReachesShell == pc = "entry" /\ start.magic ~> pc = "shell"

-----------------------------------------------------------------------------
(* A pixel that is drawn leaves its neighbour alone: fb_put_pixel writes   *)
(* three bytes for a pixel, a few bits of them next to it if bpp is less   *)
(* than 24, which kernel_main accepts.                                     *)
PixelsApart == fb # NoFb => 3 <= fb.bpp \div 8
=============================================================================
