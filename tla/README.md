# Circular OS: the verification project

Circular OS (`src/`) is a small kernel for 32-bit x86. GRUB starts it, it sets
up a text screen or a framebuffer, and then one loop, `shell_run` in
`kernel/shell.c`, does everything: it ticks the audio, polls mouse and
keyboard, moves the pointer, collects a line and runs the command on it. The
heart of it is the *schema engine*, which takes a process through a handful of
states by counting flags, and the *process table* of up to 49 such processes.

There are no interrupts (`idt.c`, `pic.c`, `isr.asm` are not linked), no
threads, and nothing is stored. What makes the code hard to test is therefore

  - the order of commands, which leave state behind that later ones read,
  - hardware that runs on while the loop does something else: the PIT, the
    controller of keyboard and mouse, bytes that arrive between two looks,
  - rings, tables, buffers and counters at their limits,
  - data kept in two places: the note at the head of the ring and the speaker,
    the squares that are drawn and those that are clicked, the screen and what
    the pointer saved of it,
  - what a boot finds: tags, devices and controllers that differ from machine
    to machine, and answer late or not at all.

## Inventory

| Component | Source | State | Operations | Module |
|---|---|---|---|---|
| schema engine | `schema.c`, `schema.h` | an instance: pid, state, weight, flags | `schema_init`, `schema_eval` | `Schema` |
| the arc | `shell.c`: `run_arc`, loops in `cmd_spawn`, `do_restart` | an instance and a counter | up to eight evaluations | `Schema`, `SchemaArc` |
| process table | `shell.c` | `procs`, `next_pid` | `spawn`, `rspawn`, `eval`, `kill`, `restart`, `reset`, `bootleg`; what `status` and `groove` count | `ProcTable` |
| line editor, dispatch | `shell.c` | `buf`, `pos` | a character, backspace, enter | `Shell` |
| heap | `mm.c` | list of blocks, end of the heap in use | `kmalloc`, `kfree`, `mm_used`, `mm_total` | `Heap` |
| audio | `audio.c` | ring of notes, groove, speaker | `tone`, `beep`, `sig`, `groove`, `stop`, `audio_tick` | `Audio` |
| timer | `timer.c` | last count seen, ticks | `timer_init`, `timer_poll` | `Timer` |
| input | `mouse.c`, `serial.c`, `shell.c` | packet so far, buttons | `mouse_poll`, `serial_trygetc`, `kbd_getc`, the look for a click | `Input` |
| node panel | `fb.c`, `mouse.c`, `shell.c` | pointer, selection | packet, click | `Panel` |
| text output | `vga.c`, `fb.c`, `serial.c` | cells, row and column of two screens | a character, erasure, new line, `clear` | `Screen`, `Console` |
| pointer on the screen | `fb.c`, `shell.c` | what is saved behind it | erase, draw, everything that draws below it | `Desktop` |
| serial line | `serial.c` | what the port holds | `serial_putc`, `serial_puts` | `Serial` |
| greeting the mouse | `mouse.c` | the command byte that was read; the controller's own state | `mouse_init` | `MouseInit` |
| PCI scan | `pci.c` | `pci_devs`, `pci_count` | `pci_init` | `Boot` |
| boot | `kernel.c` | the tag looked at, the screen chosen | walk over the boot information, start of everything | `Boot` |

How they interact: everything is called from `shell_run`, one thing after the
other. Commands call the table, the audio and the heap directly. The table and
the audio share one value, the corruption level, computed when `groove` is
typed. Audio reads the ticks the timer counts. Mouse and keyboard share the
data port of one controller. All output goes through `serial_putc` to both
screens; pointer, panel and taskbar are drawn into the same framebuffer.

What makes each of them correct, in short (the properties are stated, with the
code they are about, in the modules):

  - *schema, arc*: every word of flags leads to an end, to the state its masks
    say, with a weight that justifies the state.
  - *process table*: pids are unique, a command changes no process but its own,
    what has come to rest stays, restarts are counted and end, nothing wakes up
    unasked, `bootleg` places the nodes that survive in order.
  - *heap*: blocks never overlap, and callers see an allocator.
  - *audio*: the speaker sounds the note at the head of the ring as long as it
    lasts, and nothing else; callers see a queue.
  - *timer*: a tick is a reload of the counter, no more and no less.
  - *input*: no key is lost, no packet mixed up, no click invented (the last two
    hold until `kbd_getc` takes a byte of the mouse).
  - *shell*: a line reaches its command with its own argument (two lines of
    `help` do not).
  - *panel*: drawing and clicking agree on where the nodes are.
  - *screens*: what is shown is the end of what was printed.
  - *boot*: the shell is reached, with the framebuffer and the devices that are
    there, and with keyboard and mouse on.

## Modules

Each module has a header that says what its state and actions stand for;
actions and helpers keep the names of the code's functions. `PROJECT.json`
gives the lines of each definition.

**`Schema`** has no state: instances are records, flags sets of bits,
`schema_init` and `schema_eval` operators, `run_arc` a recursive function of
the number of passes. `ArcOutcome` says in one expression which state the arc
ends in. **`SchemaArc`** is the loop itself, a step for each evaluation; its
variables and its specification carry `arc` in their names, so that one module
can prove about it and about `ProcTable`.

**`ProcTable`** extends `Schema`. A command runs to its end before the next is
read, so it is one action; `bootleg` clears the table and is then a step for
each node, during which no command comes. `epoch` and `born` are history: how
often the table was cleared and where the process in an entry came from. The
`break` of `bootleg` for a full table is left out: there are as many entries
as nodes, and `BootFindsSlot`, proved, says that it is never taken. `next_pid`
is a `uint32_t`; `MaxPid` is assumed to be below the point where it wraps,
which is four thousand million spawns away. `DisturbsOnlyItsOwn` is stated with
the pid a command was given, and not with the entry the model changes: after a
reset and a restart two processes may run under one pid, and it asks that only
one of them changes.

**`Allocator`** is what a heap promises: a set of regions lent out, apart from
each other. **`Heap`** is `mm.c` with its arithmetic modulo the word, first
fit and blocks that keep their size; the list is a sequence of records at
addresses. `lent` is history: the pointers callers hold, with the size they
asked for, whatever the heap's own flags say. With it the heap implements
`Allocator`.

**`Player`** is what the audio promises: notes asked for are kept in order up
to a capacity, started one at a time, and end. **`Audio`** is the ring, the
clock that wraps, the groove with its corruption, and the commands; a tick of
the loop is one action, as `audio_tick` is. It implements `Player`.

**`Timer`** sets `timer_poll` beside an external PIT that counts down by two
and is reloaded every half period, as mode 3 has it.

**`Input`** has a step for every look at the controller's ports, and between
any two of them a device may send and the controller may offer a byte. A byte
of the mouse says which of its packet it is, and has the bits that the code
looks at: bit 3, which `mouse_poll` takes for the first byte's, bit 0, which in
a first byte is the left button and in another a part of how far the mouse
moved, and whether it would pass for a scan code. `mouse_poll` takes the button
from whatever byte it has first, as the code does. What the button really was
is history (`button`), by the packets the mouse sent, and the loop's clicks
(`clicks`) are compared with that.

**`Shell`** keeps the buffer cell by cell, with the tails of older lines, and
the tests of `dispatch` as a table in their order. `Help` is what `cmd_help`
prints, all twenty lines, as the specification of the tests: `HelpIsTrue` asks
it of every line whose first word `help` lists, whatever follows and however
many spaces stand before and behind the word. It excepts what the code gets
wrong, by name: the line `stop`, and what a `restart` without an argument reads.
Each of the two is stated as a property of its own, which TLC refutes (see
*Disagreements without a run*).
A character is any string but `NUL`, which the loop passes over.

**`Panel`** is in pixels: the places of the 49 squares where they are drawn,
the places where `fb_node_hit_test` computes them a second time (`hit_cell` and
the rest), the signed bytes and bounds of the pointer, and the selection.
`mouse_poll` handles packets in any number before the loop looks for a click;
`released_on` is history: the node the pointer was on when the button was let
go. `ClickSelectsSquare` is about the place where the pointer is when the loop
looks; that this need not be the place of the release is
`SelectsWhereReleased`, which TLC refutes.

**`Paper`** is what a console promises: a roll of paper that never ends.
**`Screen`** holds `vga_putc` and `fb_putc` as functions of a screen, a place
being a character, and what panel and taskbar draw beside the terminal.
**`Console`** has both screens beside each other, as `serial_putc` does, the
actions that print on them, and the redrawing after a command or a click; it
implements `Paper` twice, once leaving a full row at once (text mode) and once
with the next character (framebuffer). **`Desktop`** is the console with the
pointer drawn into its framebuffer: `shown` is the screen as it is, and the
`fb` of `Console` becomes a history of what it would be without a pointer.
`'\r'` is left out: only `serial_gets` prints it, and nothing calls that.

**`Serial`** is the line: a text that is being printed, and a port that holds
one character and sends it in its own time. It has no property of its own: that
the wait for the port has no limit is the fairness `Boot` needs of it. **`MouseInit`** is `mouse_init`
access by access, each after a wait that ends after `PATIENCE` looks, beside an
external controller that takes commands, answers, and offers bytes of keys in
between. A byte is the set of its two bits that matter.

**`Boot`** composes `Serial`, `MouseInit` and `Timer`: `kernel_main` in stages,
each of which may print, and none of which goes on before the port has taken
the text. It walks the tags at their addresses, chooses a screen, lists the
functions on the bus, starts the timer, greets the mouse, and comes to the loop
of the shell, which polls the timer unless it prints. Audio, heap and screen
are set up there too; their state is that of the initial predicates of their
modules. What GRUB and the bus have to offer is a constant, `Starts`, of which
`WellFormed` states what Multiboot promises.

The `MC` modules give values to the constants; the `*Proofs` modules hold the
theorems.

## Runs

Passing runs, with their bounds:

| Run | Instance | Shows |
|---|---|---|
| `schema_arc` | all 2^13 words over the twelve bits the masks look at and one they do not | complete for the engine: other bits make no difference |
| `proc_table` | 2 entries, 3 pids, one clearing; flags that settle, swing, fail; of 2 nodes the first fails | every property of one entry, and of two that share pids (both may run under one pid after the clearing), needs no third; words of flags matter through their outcome only, and three outcomes behave differently between commands; a freed entry is used again by a later node, over tables left by any commands |
| `heap` | 74 unaligned bytes, five sizes | up to four blocks: first, last and a middle one can be freed and used again |
| `audio` | ring of 4, groove of 2 notes, ticks modulo 4, a tick of 150 ms | the ring is filled, overrun, emptied under a note and wraps; notes outlast the wrap of the ticks |
| `boot` | 5 machines: no magic number; a tag of odd size before two framebuffers; a text screen; no framebuffer before the end; one of 8 bits. 2 buses of 2 devices with 2 functions, a list of 4; waits of one look, one key; a timer that is reloaded every 4 pulses, up to 5 of them between polls | a framebuffer before, behind and without the tags that matter; a list with room, full at once, and full at the end; every wait met in time and in vain; polls closer and further than a half and a whole period |
| `input` | 2 keys, 2 packets with the button up or down, body bytes that pass for a first byte with the button down or for none | a packet broken by a key in each place, and by a lost byte; resynchronisation; a press and a release handled at once and one by one |
| `shell` | the lines of `help`, one of them too long, two with spaces before the word, buffer of 10, 2 lines, 1 erasure | every line, ended anywhere, over the tail of every other |
| `panel` | screens 142x102 and 143x197, steps of 37 pixels | positions in squares and gaps and at every bound; even and odd sizes; a panel that just has room for the details, and one that has not (the theorems hold for all) |
| `desktop` | text 2x2, terminal 2x2 in a framebuffer of 4x4, 5 prints of two characters, pointer 2x2 with a hole in 6 places | wrap, scroll and erasure in each combination, more than twice the height of the screens; the pointer cut off at each edge and at the corner, over each part of the screen |

The bounds are named in the modules (`MaxPid`, `MaxEpoch`, `MaxPulses`,
`MaxWraps`, `MaxStray`, `MaxKeys`, `MaxMoves`, `MaxLines`, `MaxErased`,
`MaxPrinted`, `SPOTS`;
`UNIT` makes a tick of many milliseconds). `desktop` follows a screen until it
is stained, that is until something is drawn under the pointer; what is lost
then is listed below. Where a bound ends every behaviour, or the
code's loop really ends (`schema_arc`), the configuration says
`CHECK_DEADLOCK FALSE` and why.

`TypeOK` of `Heap`, `Timer`, `Audio`, `Input` and `Panel` is proved (it is part
of their inductive invariants) and not asked of a run. `Boot` never stops: even
without its magic number the processor halts for ever, which is a step of its
own.

Three runs expect a violation. Each states what a text of the program says, and
TLC shows that the code does otherwise:

| Run | The text | What happens |
|---|---|---|
| `reset_resurrects` | "process table cleared" (`shell.c:276`) | `restart` brings back a process from before, under a pid that is given out anew |
| `typed_by_keys` | "mouse data, not keyboard" (`serial.c:80`) | `kbd_getc` reads a byte of the mouse that arrives between two looks at the port, and types it |
| `command_byte` | "read + patch command byte" (`mouse.c:68`) | a byte of the keyboard, such as the release of Enter from GRUB's menu, is read in its place, patched and written back: its bit 4 turns the keyboard off |

### Disagreements without a run

Other texts the code does not keep to were met while modelling. Each is stated
at the end of its module, under the quoted text. Those with a configuration of
their own are refuted by TLC in seconds, `tlc -config MCStop.cfg MCShell` for
one; the others when they take the place of the properties in the configuration
of the module's run.

| Property | The text | What happens | Configuration |
|---|---|---|---|
| `Shell!StopStopsGroove` | "stop groove" (`shell.c:589`) | the test for "st" comes first: `stop` runs `cmd_status`, and nothing reaches `cmd_stopgroove` | `MCStop.cfg` of `MCShell` |
| `Shell!RestartTakesTypedPid` | "restart <pid>" (`shell.c:579`) | without a pid it reads one from an older line | `MCRestartPid.cfg` of `MCShell` |
| `Input!ClickIsRelease` | "left click release = select node" (`shell.c:769`) | `kbd_getc` has taken the first byte of a packet; `mouse_poll` takes a movement for the buttons, and a click is seen though the button was never let go | `MCFalseClick.cfg` of `MCInput` (three packets, no keys) |
| `Input!ReleaseSelects` | the same | press and release in one `mouse_poll` are not seen | `MCMissedClick.cfg` of `MCInput` (no keys) |
| `Panel!SelectsWhereReleased` | the same | the mouse moves on after the release and before the loop looks: the node it has come to is selected | `MCLateClick.cfg` of `MCPanel` |
| `Panel!PointerFollowsMouse` | "PS/2 Y positive = up" (`mouse.c:95`) | a move of 200 up goes down by 56 | `MCFarMove.cfg` of `MCPanel` |
| `ProcTable!OnlyRspawnedRestart` | "spawn restartable process" (`shell.c:575`) | `bootleg` leaves `restartable` as it was: a node in the entry of such a process is restarted, with that process's flags | `MCReboot.cfg` of `MCProcTable` |
| `Desktop!SavedIsBehind` | "save behind" (`fb.c:344`) | what is printed under the pointer is wiped out when the pointer moves away | `MCStained.cfg` of `MCDesktop` |
| `ProcTable!DropoutWhenExcised` | ">25% excised — dropout" (`shell.c:510`) | only running processes are counted, and none of them is excised | |
| `SchemaArc!WeightWithinMaximum` | "Weight maxima per state" (`schema.h:41`) | FRICTION is entered with the weight of another vector, 7 of 6 | |
| `Heap!TotalIsHeapSize` | "2MB" (`kernel.c:36`) | `mem` prints the address of the end of the heap as its size | |
| `Audio!ToneBlocks` | "blocks via timer_wait_ms" (`audio.h:34`) | `audio_tone` returns at once | |
| `Audio!ToneIsQueued` | "ms queued" (`shell.c:547`) | a tone is dropped when the ring is full | |
| `Timer!TicksAreMilliseconds` | "returns ms tick count" (`timer.h:30`) | two ticks for each millisecond | |
| `Panel!DetailNeverCovers` | "click a node" (`fb.c:493`) | on wide screens the box that says so covers the last row of nodes | |
| `Boot!PixelsApart` (a framebuffer of 16 bits) | `fb_bpp >= 15` (`kernel.c:77`) | `fb_put_pixel` writes three bytes for a pixel of two | |
| `Console!ClearClearsTerminal` | "clear terminal" (`shell.c:583`) | 40 new lines do not clear a taller terminal | |

## Fairness

  - `SchemaArc`: weak fairness of the loop; it never waits.
  - `ProcTable`: weak fairness of `boot_node`: a command that was started runs
    to its end. Nothing is assumed about what is typed.
  - `Audio`: weak fairness of the tick: `shell_run` calls `audio_tick` in every
    turn, no turn waits, and the PIT counts on.
  - `Input`: weak fairness of the loop, for the same reason, and strong
    fairness of the controller for each of its two devices: it does not
    prefer one for ever. The devices themselves need not send anything.

  - `Boot`: weak fairness of `kernel_main` and of `print`, which wait for
    nothing but the port, and of `send`: the port sends what it has. Nothing is
    assumed of keyboard, mouse and controller: `ReachesShell` rests on the
    limit of the waits alone. Without a serial port that gets ready the kernel
    stops at its first character, which is the fairness of `send`.

The other specifications assume none, and state safety only.

## Proofs

TLC checks instances; the following holds for all values of the constants that
satisfy the assumptions of the modules. Every invariant and every action
property of a passing run is proved, and so are the four refinements
(`ImplementsAllocator`, `ImplementsPlayer`, `FbIsPaper`, `VgaIsPaper`).

  - **`ProcTableProofs`**, on the engine: `ArcComputesOutcome`, for every word
    of flags. The cardinalities of the masks and the eight passes are unfolded
    into cases by how the flags stand to the thresholds. `LoopIsArc` and
    `LimitCutsNothing` are about the loop of `SchemaArc`: `ArcInv` says that
    after `n` evaluations the instance is what `n` passes make of it
    (`Passed`), none of which ended the arc before; an arc at rest is left by
    no further pass (`RestLasts`), and after three it rests or swings between
    two states (`RestOrSwing`).
  - **`ProcTableProofs`**, on the table: every safety and action property of
    `proc_table`.
    The types say little of what a dead entry holds, and a dead entry may be
    restarted; so the invariant `IInv` adds to `TypeOK` that every entry is
    *sound* (state and weight fit whenever it is active) and *budgeted*, that
    no entry is born in a later epoch, that pids are unique, and that `bootleg`
    finds free what it still needs. One lemma for each command; the lemmas on
    `do_restart` and `cmd_eval` rest on `ArcComputesOutcome`.
    `OthersAreLeftAlone` needs of each command which entries it can reach:
    `OnlyOf(pid)` says of a step that it changes one entry at most, which has
    the pid before and after, and the `...Reaches` lemmas show it of `eval`,
    `kill` and `restart`; spawn and the nodes of `bootleg` take a free entry.
    `BootlegPlacesNodes` has an invariant of its own, `BootInv`: while
    `bootleg` runs, the entries that run are the first ones, without a gap, one
    for each node so far that survives, and the next pid is the next node's.
  - **`HeapProofs`**: as long as no request wraps (`NoWrap`, a statement about
    the constants) `BlocksApart` with `TypeOK` is inductive; `Shape` is the
    part of it that is about the list alone. `Fresh` says of a place that
    memory can be lent from it, and both ways through `kmalloc` find one: from
    this follow the invariant and, step by step, `Allocator`. Without `NoWrap`
    the code does overlap blocks; nothing in the kernel allocates, so no caller
    decides it. `NothingLost` counts bytes: the blocks being apart,
    the sizes of some of them add up to the number of bytes they cover
    (`SizesAreBytes`), and `Accounts` states the sum for that set of bytes,
    which each of `kmalloc`'s two ways and `kfree` change by one block.
  - **`AudioProofs`**: `TypeOK` with `SpeakerFollowsNote` is inductive: pushes
    leave the head alone while a note is played, and whatever clears the ring
    stops the speaker. `AudioIsPlayer` maps the ring to the sequence from its
    head to its tail, round the end of the array: `q_push` appends to it unless
    it is full, a tick takes its first, and a burst of pushes keeps a prefix of
    the burst, which is what the player allows.
  - **`ShellProofs`**: `TypeCorrect` and `HelpIsKept`, for every line. The
    invariant adds to the two that the buffer holds nothing but typed
    characters up to the cursor (`Typed`). Enter then makes it *hold* a line
    (`Holds`): characters, and a NUL behind them. Of such a buffer `SkipIs` and
    `TextIs` say what is read, whatever lies behind the NUL; `RestIs` and
    `ArgumentRead` say it of a line with spaces before its word and of the
    argument behind it; and `VerbsAreMet` says which of the 21 tests meets a
    verb first. The letters that tell the tests apart are in `Initials`.
  - **`DesktopProofs`**: for screens of any size. `IsText`, `Written` and `Fed`
    say what writing a character and scrolling do to the rows of a screen, once
    for both screens; from them follow `FbImplementsPaper` and
    `VgaImplementsPaper`, step by step, and `TerminalAlone`. For `NoTrace`
    every function that prints is shown to preserve that two screens `Agree`
    but for the places under the pointer; `PointerOK` says that what is saved
    there is what would be seen without it.
  - **`PanelProofs`**: on every screen of at least 142 by 102 pixels the
    squares are apart and inside the panel, the hit test, whose geometry is
    computed apart, finds exactly the square that is drawn, and the pointer
    stays on the screen. `TypeOK` is
    inductive; `Layout` and `Multiples` carry the arithmetic. `DetailIsApart`
    is tight: with a panel of 70 by 162, two pixels less, the box covers a row.
  - **`BootProofs`**, on the timer: `NoTickInvented` and
    `NoTickLostWhenPrompt` with `Distance`, which ties the count, the last
    count seen, and the pulses and reloads between them together.
  - **`BootProofs`**, on the boot: for every machine whose tags are well
    formed, and a bus and a list of any size, all safety properties of `boot`.
    The inductive invariant says, for each stage, how far the walk and the scan
    have come (everything before `place` that is proper is listed, nothing
    after it), and, for each access of `mouse_init`, what the controller may
    hold in between. `BootRunsTimer` maps every step of the boot to one of
    `Timer` or to none, and hands `NoTickInvented` over.
  - **`InputProofs`**: every safety property of `input`, for any number of keys
    and packets. The bytes of each device are numbered as they are sent, and
    the invariant says that those still to come follow the last that was read
    without a gap: `KeyInv` adds that the keys typed are those that went down
    so far, `MouseInv` that the bytes in `mouse_poll` are the last read and
    that a first byte of a packet has its sync bit (without that the packet
    would be skipped and the count go out of step), `ClickInv` that
    `mouse_buttons` is what the packet handled last said, and that what the loop
    would take for a click now was a release among the packets handled since it
    took the click before.

The library's theorems for induction take an operator as a parameter, which the
provers cannot instantiate. Where a proof goes by induction (on rows, on
lines, on blocks, on the place of a cell) it picks the least element of the set
of exceptions (`LeastOf`, `SmallestOf`) or goes through the finite subsets of a
set, whose order the library shows to be well founded. Comparing strings with
a space in them is beyond the SMT translation, which is why `Shell` names its
`SPACE`.

Only model-checked: liveness (`ArcEnds`, `BootlegEnds`, `ToneEnds`,
`KeysAreTyped`, `ReachesShell`), which is out of the prover's reach, and the
three runs that expect a violation.

## Not modelled

`idt.c`, `pic.c`, `isr.asm` (not linked); the wording and layout of what is
printed, glyphs, colours and the header; the conversion of digits in
`parse_hex` and `parse_uint`; `cpuid` in `arch`; `lspci`, which prints the list
of the scan; bytes that are typed over the serial line; `boot.asm`, which
enters `kernel_main`. The PIT, the serial port, the controller of keyboard and
mouse, and what GRUB leaves are external and modelled from how the code
programs and reads them.

## Plan

Done, in this order: `Schema`, `SchemaArc`, `ProcTable` with their proofs; the
abstract specifications and implementations `Allocator`/`Heap`,
`Player`/`Audio`, `Paper`/`Console`; `Timer`, `Input`, `Shell`, `Panel`,
`Desktop`; `Serial`, `MouseInit` and `Boot`, which composes them with the
timer, and its proofs. Next:

 1. `Federation`, an abstract table in which a process is a name and an
    outcome, with `ProcTable` shown to implement it; it makes the restart
    budget and the reuse of entries visible as internal steps.
 2. `Groove`, the composition of `ProcTable` and `Audio`: the level the groove
    plays against the level the table is in.
 3. The whole turn of `shell_run` as one module over `Input`, `Shell` and
    `Audio`: a key that is typed while a note ends.
 4. Proofs of the three, and of the refinement of `Federation`.
