----------------------------- MODULE BootProofs ------------------------------
(***************************************************************************)
(* The way from GRUB to the shell: for all tags GRUB may leave, all that   *)
(* may be on a bus of any size, and whatever the devices do meanwhile, the *)
(* kernel finds its framebuffer, lists the functions on the bus, and comes *)
(* to the loop of the shell with mouse and keyboard turned on.             *)
(***************************************************************************)
EXTENDS Boot, TLAPS

(***************************************************************************)
(* The timer: timer_poll counts the reloads of the PIT's counter, for      *)
(* every value the counter is reloaded with: never one too many, and none  *)
(* is lost while the polls come in time.                                   *)
(***************************************************************************)
(* How far the counter is from where the last poll saw it: what makes a    *)
(* larger count the sign of a reload.                                      *)
Distance ==
  /\ count % 2 = 0 /\ (Polled => pit_last % 2 = 0)
  /\ Polled /\ reloads = 0 => count = pit_last - 2 * pulses
  /\ Polled /\ reloads = 1 => count = pit_last - 2 * pulses + RELOAD
  /\ Polled /\ reloads > 1 => 2 * pulses >= RELOAD
  /\ ~ Polled => pit_ticks = 0 /\ wraps = 0

IInv == TypeOK /\ Distance /\ NoTickInvented /\ NoTickLostWhenPrompt

LEMMA InitHolds == ASSUME Init PROVE IInv
<1>1. RELOAD \in Nat /\ RELOAD >= 4 /\ RELOAD < 65535 /\ RELOAD % 2 = 0
  BY TimerAssumption
<1>2. TypeOK
  BY <1>1 DEF Init, TypeOK, Never
<1>3. Distance
  BY <1>1 DEF Init, Distance, Polled
<1>. QED
  BY <1>2, <1>3 DEF IInv, Init, NoTickInvented, NoTickLostWhenPrompt

LEMMA PulseHolds == ASSUME IInv, pulse PROVE IInv'
<1>1. RELOAD \in Nat /\ RELOAD >= 4 /\ RELOAD % 2 = 0
  BY TimerAssumption
<1>2. /\ count \in 1..RELOAD /\ pulses \in Nat /\ reloads \in Nat
      /\ pit_ticks \in Nat /\ wraps \in Nat
      /\ pit_last \in 1..RELOAD \cup {Never}
      /\ count % 2 = 0
  BY DEF IInv, TypeOK, Distance
<1>3. /\ pulses' = pulses + 1
      /\ UNCHANGED <<pit_last, pit_ticks, wraps, prompt>>
      /\ UNCHANGED Polled
  BY DEF pulse, Polled
<1>4. CASE count > 2 /\ count' = count - 2 /\ reloads' = reloads
  <2>1. TypeOK'
    BY <1>1, <1>2, <1>3, <1>4 DEF IInv, TypeOK
  <2>2. count' % 2 = 0
    BY <1>2, <1>4
  <2>3. Polled => pit_last \in Nat
    BY <1>1, <1>2 DEF Polled
  <2>4. Distance'
    BY <1>1, <1>2, <1>3, <1>4, <2>2, <2>3 DEF IInv, Distance
  <2>. QED
    BY <1>3, <2>1, <2>4 DEF IInv, NoTickInvented, NoTickLostWhenPrompt
<1>5. CASE count = 2 /\ count' = RELOAD /\ reloads' = reloads + 1
  <2>1. TypeOK'
    BY <1>1, <1>2, <1>3, <1>5 DEF IInv, TypeOK
  <2>2. Polled => pit_last \in Nat /\ pit_last >= 1
    BY <1>1, <1>2 DEF Polled
  <2>3. Distance'
    <3>1. Polled /\ reloads = 0 => RELOAD = pit_last - 2 * (pulses + 1) + RELOAD
      BY <1>1, <1>2, <1>5, <2>2 DEF IInv, Distance
    <3>2. Polled /\ reloads = 1 => 2 * (pulses + 1) >= RELOAD
      BY <1>1, <1>2, <1>5, <2>2 DEF IInv, Distance
    <3>3. Polled /\ reloads > 1 => 2 * (pulses + 1) >= RELOAD
      BY <1>1, <1>2 DEF IInv, Distance
    <3>. QED
      BY <1>1, <1>2, <1>3, <1>5, <3>1, <3>2, <3>3 DEF IInv, Distance
  <2>. QED
    BY <1>3, <2>1, <2>3 DEF IInv, NoTickInvented, NoTickLostWhenPrompt
<1>6. count = 2 \/ count > 2
  BY <1>1, <1>2
<1>. QED
  BY <1>4, <1>5, <1>6 DEF pulse

LEMMA PollHolds == ASSUME IInv, timer_poll PROVE IInv'
<1>1. RELOAD \in Nat /\ RELOAD >= 4 /\ RELOAD % 2 = 0 /\ RELOAD < 65535
  BY TimerAssumption
<1>2. /\ count \in 1..RELOAD /\ pulses \in Nat /\ reloads \in Nat
      /\ pit_ticks \in Nat /\ wraps \in Nat
      /\ pit_last \in 1..RELOAD \cup {Never}
      /\ count % 2 = 0 /\ prompt \in BOOLEAN
  BY DEF IInv, TypeOK, Distance
<1>3. /\ pit_last' = count /\ count' = count
      /\ pulses' = 0 /\ reloads' = 0
      /\ wraps' = IF Polled THEN wraps + reloads ELSE 0
      /\ pit_ticks' = IF count > pit_last THEN pit_ticks + 1 ELSE pit_ticks
  BY DEF timer_poll, wrapped
<1>4. prompt' <=> prompt /\ (Polled => 2 * pulses < RELOAD)
  BY DEF timer_poll
<1>5. Polled'
  BY <1>1, <1>2, <1>3 DEF Polled, Never
<1>6. TypeOK'
  <2>1. prompt' \in BOOLEAN
    BY DEF timer_poll
  <2>. QED
    BY <1>1, <1>2, <1>3, <2>1 DEF TypeOK
<1>7. Distance'
  BY <1>1, <1>2, <1>3, <1>5 DEF Distance
<1>8. NoTickInvented' /\ NoTickLostWhenPrompt'
  <2>1. CASE ~ Polled
    <3>1. pit_ticks' = 0 /\ wraps' = 0
      BY <1>1, <1>2, <1>3, <2>1 DEF IInv, Distance, Polled, Never
    <3>. QED
      BY <3>1 DEF NoTickInvented, NoTickLostWhenPrompt
  <2>2. CASE Polled
    <3>1. pit_last \in 1..RELOAD
      BY <1>2, <2>2 DEF Polled
    <3>2. pit_ticks <= wraps /\ (prompt => pit_ticks = wraps)
      BY DEF IInv, NoTickInvented, NoTickLostWhenPrompt
    <3>3. reloads = 0 => count <= pit_last
      BY <1>1, <1>2, <2>2, <3>1 DEF IInv, Distance
    <3>4. 2 * pulses < RELOAD => reloads = 0 \/ (reloads = 1 /\ count > pit_last)
      BY <1>1, <1>2, <2>2, <3>1 DEF IInv, Distance
    <3>5. pit_ticks' <= wraps'
      BY <1>1, <1>2, <1>3, <2>2, <3>1, <3>2, <3>3
    <3>6. ASSUME prompt' PROVE pit_ticks' = wraps'
      <4>1. prompt /\ 2 * pulses < RELOAD
        BY <1>4, <2>2, <3>6
      <4>2. pit_ticks = wraps
        BY <4>1, <3>2
      <4>3. reloads = 0 \/ (reloads = 1 /\ count > pit_last)
        BY <4>1, <3>4
      <4>. QED
        BY <1>1, <1>2, <1>3, <2>2, <3>1, <3>3, <4>2, <4>3
    <3>. QED
      BY <3>5, <3>6 DEF NoTickInvented, NoTickLostWhenPrompt
  <2>. QED
    BY <2>1, <2>2
<1>. QED
  BY <1>6, <1>7, <1>8 DEF IInv

THEOREM Invariance == Spec => []IInv
<1>1. Init => IInv
  BY InitHolds
<1>2. IInv /\ [Next]_vars => IInv'
  <2>1. IInv /\ UNCHANGED vars => IInv'
    BY DEF IInv, vars, TypeOK, Distance, Polled, NoTickInvented,
           NoTickLostWhenPrompt
  <2>. QED
    BY <2>1, PulseHolds, PollHolds DEF Next
<1>. QED
  BY <1>1, <1>2, PTL DEF Spec

(* No tick is counted that was not a reload of the counter.                *)
THEOREM TicksAreReloads == Spec => []NoTickInvented
<1>1. IInv => NoTickInvented
  BY DEF IInv
<1>. QED
  BY <1>1, Invariance, PTL

(* No reload is missed as long as no two polls are half a period apart.    *)
THEOREM PromptPollsCountAll == Spec => []NoTickLostWhenPrompt
<1>1. IInv => NoTickLostWhenPrompt
  BY DEF IInv
<1>. QED
  BY <1>1, Invariance, PTL

-----------------------------------------------------------------------------
(***************************************************************************)
(* The boot.                                                               *)
(***************************************************************************)

Stages == {"entry", "magic", "halt", "tags", "screen", "pci", "timer",
           "mouse", "shell"}

(* Where kernel_main is, whatever it does there                            *)
Moves ==
  <<pc, pc'>> \in {<<"entry", "magic">>, <<"magic", "tags">>,
    <<"magic", "halt">>, <<"tags", "tags">>, <<"tags", "screen">>,
    <<"screen", "pci">>, <<"pci", "pci">>, <<"pci", "timer">>,
    <<"timer", "mouse">>, <<"mouse", "shell">>}

-----------------------------------------------------------------------------
(***************************************************************************)
(* The walk over the tags.                                                 *)
(***************************************************************************)
(* No tag that was passed is a framebuffer or the end.                     *)
Passed(a) ==
  \A b \in DOMAIN start.info : b < a => start.info[b].type \notin {0, 8}

WalkInv ==
  /\ start \in Starts
  /\ pc \in {"entry", "magic"} => tag = 0 /\ found = NoFb
  /\ pc = "tags" => tag \in DOMAIN start.info /\ found = NoFb /\ Passed(tag)
  /\ FindsFramebuffer

(* Rounding the size up leads to the tag that follows.                     *)
LEMMA PaddedFollows ==
  ASSUME NEW info, WellFormed(info), NEW a \in DOMAIN info,
         info[a].type # 0
  PROVE  Follows(a, a + padded(info[a].size), info)
<1>1. PICK b \in DOMAIN info : Follows(a, b, info)
  BY DEF WellFormed
<1>2. /\ a \in Nat /\ b \in Nat /\ a % 8 = 0 /\ b % 8 = 0
      /\ info[a].size \in Nat
  BY DEF WellFormed
<1>3. \A x, y, s \in Nat :
        x % 8 = 0 /\ y % 8 = 0 /\ x + s <= y /\ y < x + s + 8
          => y = x + ((s + 7) \div 8) * 8
  BY SMT
<1>4. b = a + padded(info[a].size)
  BY <1>1, <1>2, <1>3 DEF Follows, padded
<1>. QED
  BY <1>1, <1>4

LEMMA StartIsWellFormed ==
  ASSUME start \in Starts
  PROVE  WellFormed(start.info)
BY BootAssumption

LEMMA WalkStays ==
  ASSUME WalkInv, UNCHANGED <<pc, start, tag, found>>
  PROVE  WalkInv'
BY DEF WalkInv, FindsFramebuffer, FbTags, Passed

(* A step that leaves the walk alone, and does not begin or end it         *)
LEMMA WalkRests ==
  ASSUME WalkInv, UNCHANGED <<start, tag, found>>,
         pc' = pc \/ (Moves /\ pc # "tags")
  PROVE  WalkInv'
<1>1. start' = start /\ tag' = tag /\ found' = found /\ start \in Starts
  BY DEF WalkInv
<1>2. WellFormed(start.info)
  BY <1>1, StartIsWellFormed
<1>3. 0 \in DOMAIN start.info /\ Passed(0)
  BY <1>2 DEF WellFormed, Passed
<1>4. CASE pc' = pc
  BY <1>1, <1>4 DEF WalkInv, FindsFramebuffer, FbTags, Passed
<1>5. CASE Moves /\ pc # "tags"
  <2>1. CASE pc = "entry" /\ pc' = "magic"
    BY <1>1, <2>1 DEF WalkInv, FindsFramebuffer, FbTags, Passed
  <2>2. CASE pc = "magic" /\ pc' = "halt"
    BY <1>1, <2>2 DEF WalkInv, FindsFramebuffer, FbTags, Passed
  <2>3. CASE pc = "magic" /\ pc' = "tags"
    BY <1>1, <1>3, <2>3 DEF WalkInv, FindsFramebuffer, FbTags, Passed
  <2>4. CASE /\ pc \in {"screen", "pci", "timer", "mouse"}
             /\ pc' \in {"pci", "timer", "mouse", "shell"}
    BY <1>1, <2>4 DEF WalkInv, FindsFramebuffer, FbTags, Passed
  <2>. QED
    BY <1>5, <2>1, <2>2, <2>3, <2>4 DEF Moves
<1>. QED
  BY <1>4, <1>5

LEMMA WalkHolds ==
  ASSUME WalkInv, walk_tag
  PROVE  WalkInv'
<1>. DEFINE info == start.info
            t    == start.info[tag]
<1>1. pc = "tags" /\ start' = start
  BY DEF walk_tag, Stage
<1>2. /\ start \in Starts /\ tag \in DOMAIN info /\ found = NoFb
      /\ Passed(tag)
  BY <1>1 DEF WalkInv
<1>3. WellFormed(info)
  BY <1>2, StartIsWellFormed
<1>4. \A a \in DOMAIN info : a \in Nat
  BY <1>3 DEF WellFormed
<1>5. CASE /\ t.type \notin {0, 8} /\ tag' = tag + padded(t.size)
           /\ pc' = "tags" /\ found' = found
  <2>1. Follows(tag, tag', info)
    BY <1>2, <1>3, <1>5, PaddedFollows
  <2>2. tag' \in DOMAIN info /\ Passed(tag')
    BY <1>2, <1>4, <1>5, <2>1 DEF Follows, Passed
  <2>. QED
    BY <1>1, <1>2, <1>5, <2>2 DEF WalkInv, FindsFramebuffer, Passed
<1>6. CASE t.type = 8 /\ found' = t.fb /\ pc' = "screen" /\ tag' = tag
  <2>1. tag \in FbTags
    BY <1>2, <1>4, <1>6 DEF FbTags, Passed
  <2>2. \A b \in FbTags : tag <= b
    BY <1>2, <1>4 DEF FbTags, Passed
  <2>. QED
    BY <1>1, <1>2, <1>6, <2>1, <2>2 DEF WalkInv, FindsFramebuffer, FbTags
<1>7. CASE t.type = 0 /\ found' = found /\ pc' = "screen" /\ tag' = tag
  <2>1. FbTags = {}
    BY <1>2, <1>4, <1>7 DEF FbTags, Passed
  <2>. QED
    BY <1>1, <1>2, <1>7, <2>1 DEF WalkInv, FindsFramebuffer, FbTags
<1>. QED
  BY <1>1, <1>5, <1>6, <1>7 DEF walk_tag, Stage, walk

-----------------------------------------------------------------------------
(***************************************************************************)
(* The scan of the bus.                                                    *)
(***************************************************************************)
Several(p) == Present(<<p[1], p[2], 0>>) /\ <<p[1], p[2]>> \in start.multi

(* The places the scan comes to, and the one behind the last               *)
Cursors ==
  ((0..BUSES-1) \X (0..DEVS-1) \X (0..FUNCS-1)) \cup {<<BUSES, 0, 0>>}

ScanInv ==
  /\ start \in Starts
  /\ place \in Cursors /\ (place[3] # 0 => Several(place))
  /\ pci_devs \in Seq(Places)
  /\ \A i \in 1..Len(pci_devs) : Precedes(pci_devs[i], place)
  /\ \A p \in Places : Proper(p) /\ Precedes(p, place) => Listed(p)
  /\ ListsFunctions

LEMMA AfterIsNext ==
  ASSUME place \in Places, place[3] # 0 => Several(place)
  PROVE  /\ After(place) \in Cursors
         /\ After(place)[3] # 0 => Several(After(place))
         /\ Precedes(place, After(place))
         /\ \A p \in Places :
              Proper(p) /\ Precedes(p, After(place))
                => p = place \/ Precedes(p, place)
<1>. DEFINE b == place[1]
            d == place[2]
            f == place[3]
<1>1. /\ b \in 0..BUSES-1 /\ d \in 0..DEVS-1 /\ f \in 0..FUNCS-1
      /\ place = <<b, d, f>>
  BY DEF Places
<1>2. BUSES \in Nat \ {0} /\ DEVS \in Nat \ {0} /\ FUNCS \in Nat \ {0}
  BY BootAssumption
<1>3. functions(b, d) = IF Several(place) THEN FUNCS ELSE 1
  BY DEF functions, Several
<1>4. ASSUME NEW p \in Places
      PROVE  /\ p[1] \in 0..BUSES-1 /\ p[2] \in 0..DEVS-1
             /\ p[3] \in 0..FUNCS-1 /\ p = <<p[1], p[2], p[3]>>
  BY DEF Places
<1>. HIDE DEF b, d, f
<1>5. CASE f + 1 < functions(b, d)
  <2>1. After(place) = <<b, d, f + 1>>
    BY <1>5 DEF After, b, d, f
  <2>2. Several(place) /\ f + 1 \in 0..FUNCS-1
    BY <1>1, <1>2, <1>3, <1>5
  <2>3. Several(<<b, d, f + 1>>)
    BY <2>2 DEF Several, b, d
  <2>4. Precedes(place, <<b, d, f + 1>>)
    BY <1>1 DEF Precedes
  <2>5. ASSUME NEW p \in Places, Precedes(p, <<b, d, f + 1>>)
        PROVE  p = place \/ Precedes(p, place)
    BY <1>1, <1>4, <2>5 DEF Precedes
  <2>. QED
    BY <1>1, <2>1, <2>2, <2>3, <2>4, <2>5 DEF Cursors
<1>6. ASSUME NEW p \in Places, Proper(p), p[1] = b, p[2] = d,
             ~ (f + 1 < functions(b, d))
      PROVE  p[3] <= f
  <2>1. p[3] # 0 => Several(place)
    BY <1>6 DEF Proper, Several, b, d
  <2>. QED
    BY <1>1, <1>2, <1>3, <1>4, <1>6, <2>1
<1>7. CASE ~ (f + 1 < functions(b, d)) /\ d + 1 < DEVS
  <2>1. After(place) = <<b, d + 1, 0>>
    BY <1>7 DEF After, b, d, f
  <2>2. Precedes(place, <<b, d + 1, 0>>)
    BY <1>1 DEF Precedes
  <2>3. ASSUME NEW p \in Places, Proper(p), Precedes(p, <<b, d + 1, 0>>)
        PROVE  p = place \/ Precedes(p, place)
    BY <1>1, <1>4, <1>6, <1>7, <2>3 DEF Precedes
  <2>. QED
    BY <1>1, <1>2, <1>7, <2>1, <2>2, <2>3 DEF Cursors
<1>8. CASE ~ (f + 1 < functions(b, d)) /\ ~ (d + 1 < DEVS)
  <2>1. After(place) = <<b + 1, 0, 0>>
    BY <1>8 DEF After, b, d, f
  <2>2. Precedes(place, <<b + 1, 0, 0>>)
    BY <1>1 DEF Precedes
  <2>3. ASSUME NEW p \in Places, Proper(p), Precedes(p, <<b + 1, 0, 0>>)
        PROVE  p = place \/ Precedes(p, place)
    BY <1>1, <1>2, <1>4, <1>6, <1>8, <2>3 DEF Precedes
  <2>4. <<b + 1, 0, 0>> \in Cursors
    BY <1>1, <1>2 DEF Cursors
  <2>. QED
    BY <2>1, <2>2, <2>3, <2>4
<1>. QED
  BY <1>5, <1>7, <1>8
LEMMA ScanStays ==
  ASSUME ScanInv, UNCHANGED <<pc, start, place, pci_devs>>
  PROVE  ScanInv'
<1>1. \A p : (Proper(p))' = Proper(p) /\ (Listed(p))' = Listed(p)
             /\ (Several(p))' = Several(p)
  BY DEF Proper, Listed, Several, Present
<1>. QED
  BY <1>1 DEF ScanInv, ListsFunctions

(* A step that leaves the scan alone, and does not end it                  *)
LEMMA ScanRests ==
  ASSUME ScanInv, UNCHANGED <<start, place, pci_devs>>,
         pc' = pc \/ (Moves /\ pc # "pci")
  PROVE  ScanInv'
<1>1. start' = start /\ place' = place /\ pci_devs' = pci_devs
  OBVIOUS
<1>2. pc' \in {"timer", "mouse", "shell"}
        => pc \in {"timer", "mouse", "shell"}
  BY DEF Moves
<1>3. \A p : (Proper(p))' = Proper(p) /\ (Listed(p))' = Listed(p)
             /\ (Several(p))' = Several(p)
  BY <1>1 DEF Proper, Listed, Several, Present
<1>. QED
  BY <1>1, <1>2, <1>3 DEF ScanInv, ListsFunctions

LEMMA ScanHolds ==
  ASSUME ScanInv, scan
  PROVE  ScanInv'
<1>1. pc = "pci" /\ start' = start /\ place[1] < BUSES
  BY DEF scan, Stage
<1>2. BUSES \in Nat /\ PCI_MAX_DEVS \in Nat
  BY BootAssumption
<1>3. place \in Places
  BY <1>1, <1>2 DEF ScanInv, Cursors, Places
<1>4. /\ pci_devs \in Seq(Places) /\ Len(pci_devs) \in Nat
      /\ Len(pci_devs) <= PCI_MAX_DEVS
      /\ place[3] # 0 => Several(place)
      /\ start \in Starts
  BY DEF ScanInv, ListsFunctions
<1>5. \A i \in 1..Len(pci_devs) :
        /\ pci_devs[i] \in Places /\ Proper(pci_devs[i])
        /\ Precedes(pci_devs[i], place)
  BY <1>4 DEF ScanInv, ListsFunctions
<1>6. \A p \in Places :
        /\ p[1] \in 0..BUSES-1 /\ p[2] \in 0..DEVS-1 /\ p[3] \in 0..FUNCS-1
        /\ p = <<p[1], p[2], p[3]>>
  BY DEF Places
<1>7. /\ DEVS \in Nat /\ FUNCS \in Nat
      /\ \A c \in Cursors : c[1] \in Int /\ c[2] \in Int /\ c[3] \in Int
  BY BootAssumption DEF Cursors
<1>8. \A p, q \in Places, c \in Cursors :
        Precedes(p, q) /\ Precedes(q, c) => Precedes(p, c)
  BY <1>2, <1>6, <1>7 DEF Precedes
<1>9. \A p, q \in Places : Precedes(p, q) \/ p = q \/ Precedes(q, p)
  BY <1>2, <1>6, <1>7 DEF Precedes
<1>10. \A p : (Proper(p))' = Proper(p) /\ (Several(p))' = Several(p)
  BY <1>1 DEF Proper, Several, Present
<1>11. /\ After(place) \in Cursors
       /\ After(place)[3] # 0 => Several(After(place))
       /\ Precedes(place, After(place))
       /\ \A p \in Places :
            Proper(p) /\ Precedes(p, After(place))
              => p = place \/ Precedes(p, place)
  BY <1>3, <1>4, AfterIsNext
<1>12. \A i, j \in 1..Len(pci_devs) :
         i < j => Precedes(pci_devs[i], pci_devs[j])
  BY DEF ScanInv, ListsFunctions
<1>13. CASE /\ Present(place) /\ Len(pci_devs) < PCI_MAX_DEVS
            /\ pci_devs' = Append(pci_devs, place) /\ place' = After(place)
            /\ pc' = "pci"
  <2>1. /\ pci_devs' \in Seq(Places) /\ Len(pci_devs') = Len(pci_devs) + 1
        /\ pci_devs'[Len(pci_devs) + 1] = place
        /\ \A i \in 1..Len(pci_devs) : pci_devs'[i] = pci_devs[i]
    BY <1>3, <1>4, <1>13
  <2>2. Proper(place)
    BY <1>4, <1>13 DEF Proper, Several
  <2>3. \A i \in 1..Len(pci_devs') :
          i \in 1..Len(pci_devs) \/ i = Len(pci_devs) + 1
    BY <1>4, <2>1
  <2>4. \A i \in 1..Len(pci_devs') :
          Proper(pci_devs'[i]) /\ Precedes(pci_devs'[i], After(place))
    BY <1>3, <1>5, <1>8, <1>11, <2>1, <2>2, <2>3
  <2>5. \A i, j \in 1..Len(pci_devs') :
          i < j => Precedes(pci_devs'[i], pci_devs'[j])
    BY <1>4, <1>5, <1>12, <2>1, <2>3
  <2>6. ASSUME NEW p \in Places, Proper(p), Precedes(p, After(place))
        PROVE  (Listed(p))'
    <3>1. CASE p = place
      BY <1>4, <2>1, <3>1 DEF Listed
    <3>2. CASE Precedes(p, place)
      <4>1. PICK i \in 1..Len(pci_devs) : pci_devs[i] = p
        BY <2>6, <3>2 DEF ScanInv, Listed
      <4>. QED
        BY <1>4, <2>1, <4>1 DEF Listed
    <3>. QED
      BY <1>11, <2>6, <3>1, <3>2
  <2>7. Len(pci_devs') <= PCI_MAX_DEVS
    BY <1>2, <1>4, <1>13, <2>1
  <2>8. ListsFunctions'
    BY <1>10, <1>13, <2>4, <2>5, <2>7 DEF ListsFunctions
  <2>. QED
    BY <1>1, <1>4, <1>10, <1>11, <1>13, <2>1, <2>4, <2>6, <2>8 DEF ScanInv
<1>14. CASE /\ ~ Present(place) /\ place' = After(place)
            /\ pci_devs' = pci_devs /\ pc' = "pci"
  <2>1. ~ Proper(place)
    BY <1>14 DEF Proper
  <2>2. \A i \in 1..Len(pci_devs) : Precedes(pci_devs[i], After(place))
    BY <1>3, <1>5, <1>8, <1>11
  <2>3. \A p : (Listed(p))' = Listed(p)
    BY <1>14 DEF Listed
  <2>4. \A p \in Places :
          Proper(p) /\ Precedes(p, After(place)) => (Listed(p))'
    BY <1>11, <2>1, <2>3 DEF ScanInv
  <2>5. ListsFunctions'
    BY <1>4, <1>5, <1>10, <1>12, <1>14 DEF ListsFunctions
  <2>. QED
    BY <1>1, <1>4, <1>10, <1>11, <1>14, <2>2, <2>4, <2>5 DEF ScanInv
<1>15. CASE /\ Present(place) /\ Len(pci_devs) >= PCI_MAX_DEVS
            /\ pci_devs' = pci_devs /\ place' = place /\ pc' = "timer"
  <2>1. Len(pci_devs) = PCI_MAX_DEVS
    BY <1>2, <1>4, <1>15
  <2>2. \A p : (Listed(p))' = Listed(p)
    BY <1>15 DEF Listed
  <2>3. ASSUME NEW p \in Places, Proper(p), ~ Listed(p),
               NEW i \in 1..Len(pci_devs)
        PROVE  Precedes(pci_devs[i], p)
    <3>1. p = place \/ Precedes(place, p)
      BY <1>3, <1>9, <2>3 DEF ScanInv
    <3>2. p \in Cursors
      BY <2>3 DEF Cursors, Places
    <3>. QED
      BY <1>3, <1>5, <1>8, <3>1, <3>2
  <2>4. ListsFunctions'
    BY <1>4, <1>5, <1>10, <1>12, <1>15, <2>1, <2>2, <2>3 DEF ListsFunctions
  <2>. QED
    BY <1>1, <1>10, <1>15, <2>2, <2>4 DEF ScanInv
<1>. QED
  BY <1>1, <1>13, <1>14, <1>15 DEF scan, Stage, pci

LEMMA ScannedHolds ==
  ASSUME ScanInv, scanned
  PROVE  ScanInv'
<1>1. /\ pc = "pci" /\ pc' = "timer" /\ place[1] = BUSES
      /\ start' = start /\ place' = place /\ pci_devs' = pci_devs
  BY DEF scanned, Stage, pci
<1>2. \A p \in Places : Precedes(p, place)
  BY <1>1, BootAssumption DEF Places, Precedes
<1>3. \A p : (Proper(p))' = Proper(p) /\ (Several(p))' = Several(p)
             /\ (Listed(p))' = Listed(p)
  BY <1>1 DEF Proper, Several, Present, Listed
<1>4. \A p \in Places : Proper(p) => Listed(p)
  BY <1>2 DEF ScanInv
<1>5. ListsFunctions'
  BY <1>1, <1>3, <1>4 DEF ScanInv, ListsFunctions
<1>. QED
  BY <1>1, <1>3, <1>5 DEF ScanInv
-----------------------------------------------------------------------------
(***************************************************************************)
(* The exchange with the controller of keyboard and mouse.                 *)
(***************************************************************************)
(* What the controller was sent and has not taken, the command it waits to *)
(* hear more of, its replies, and the byte it offers                       *)
Controller(sending, heard, answers, offered) ==
  /\ inbuf = sending /\ command = heard
  /\ replies = answers /\ outbuf = offered

(* How far both are, before each access of mouse_init, as long as no key   *)
(* comes between and no wait was in vain                                   *)
Exchange ==
  /\ next \in 1..9
  /\ next <= 3 => cb = Found
  /\ next > 3  => cb = {}
  /\ next > 2  => config = {}
  /\ next < 8  => ~ reporting
  /\ next = 1 => Controller("none", "none", <<>>, {}) /\ config = Found
  /\ next = 2 =>
       \/ Controller("enable_aux", "none", <<>>, {}) /\ config = Found
       \/ Controller("none", "none", <<>>, {}) /\ config = {}
  /\ next = 3 => \/ Controller("read_config", "none", <<>>, {})
                 \/ Controller("none", "none", <<{}>>, {})
                 \/ Controller("none", "none", <<>>, {{}})
  /\ next = 4 => Controller("none", "none", <<>>, {})
  /\ next = 5 => \/ Controller("write_config", "none", <<>>, {})
                 \/ Controller("none", "write_config", <<>>, {})
  /\ next = 6 => \/ Controller("out_cb", "write_config", <<>>, {})
                 \/ Controller("none", "none", <<>>, {})
  /\ next = 7 => \/ Controller("to_mouse", "none", <<>>, {})
                 \/ Controller("none", "to_mouse", <<>>, {})
  /\ next = 8 =>
       \/ Controller("report", "to_mouse", <<>>, {}) /\ ~ reporting
       \/ Controller("none", "none", <<ACK>>, {}) /\ reporting
       \/ Controller("none", "none", <<>>, {ACK}) /\ reporting
  /\ next = 9 => Controller("none", "none", <<>>, {}) /\ reporting

MouseInv ==
  /\ stray \in Nat /\ reporting \in BOOLEAN
  /\ hasty \in BOOLEAN
  /\ stray = 0 /\ ~ hasty => Exchange

LEMMA AccessesAre ==
  /\ Len(Accesses) = 8
  /\ Accesses[1] = "enable_aux"   /\ Accesses[2] = "read_config"
  /\ Accesses[3] = "in_cb"        /\ Accesses[4] = "write_config"
  /\ Accesses[5] = "out_cb"       /\ Accesses[6] = "to_mouse"
  /\ Accesses[7] = "report"       /\ Accesses[8] = "in_ack"
BY DEF Accesses

LEMMA MouseReadyFollows == ASSUME MouseInv PROVE MouseReady
<1>1. \A n \in 1..9 : n > 8 => n = 9
  OBVIOUS
<1>2. ASSUME Initialised, stray = 0, ~ hasty
      PROVE  next = 9 /\ Exchange
  BY <1>1, <1>2, AccessesAre DEF MouseInv, Exchange, Initialised
<1>. QED
  BY <1>2 DEF MouseReady, Exchange, Controller

LEMMA WaitHolds == ASSUME MouseInv, wait PROVE MouseInv'
BY DEF MouseInv, wait, i8042, Exchange, Controller

LEMMA AccessHolds == ASSUME MouseInv, access PROVE MouseInv'
<1>1. stray' = stray /\ reporting' = reporting /\ hasty' \in BOOLEAN
  BY DEF access, read, write, MouseInv
<1>2. ASSUME stray = 0, ~ hasty'
      PROVE  Exchange'
  <2>1. /\ ready /\ ~ hasty /\ Exchange /\ next' = next + 1
        /\ next <= Len(Accesses) /\ next \in 1..9
    BY <1>2 DEF access, MouseInv, Initialised, Exchange
  <2>2. next \in 1..8
    BY <2>1, AccessesAre
  <2>3. CASE Accesses[next] \in Reads
    <3>1. next = 3 \/ next = 8
      BY <2>2, <2>3, AccessesAre DEF Reads
    <3>2. outbuf # {} /\ outbuf' = {}
          /\ UNCHANGED <<inbuf, command, config, replies, reporting>>
          /\ \E b \in outbuf :
               cb' = IF Accesses[next] = "in_cb" THEN patched(b) ELSE cb
      BY <2>1, <2>3 DEF access, ready, read
    <3>3. CASE next = 3
      <4>1. Controller("none", "none", <<>>, {{}}) /\ config = {}
        BY <2>1, <3>2, <3>3 DEF Exchange, Controller
      <4>2. cb' = {} /\ next' = 4
        BY <2>1, <3>2, <3>3, <4>1, AccessesAre DEF Controller, patched
      <4>. QED
        BY <2>1, <3>2, <3>3, <4>1, <4>2 DEF Exchange, Controller
    <3>4. CASE next = 8
      <4>1. Controller("none", "none", <<>>, {ACK}) /\ reporting
        BY <2>1, <3>2, <3>4 DEF Exchange, Controller
      <4>2. cb' = cb /\ next' = 9
        BY <2>1, <3>2, <3>4, AccessesAre
      <4>. QED
        BY <2>1, <3>2, <3>4, <4>1, <4>2 DEF Exchange, Controller
    <3>. QED
      BY <3>1, <3>3, <3>4
  <2>4. CASE Accesses[next] \notin Reads
    <3>1. next \in {1, 2, 4, 5, 6, 7}
      BY <2>2, <2>4, AccessesAre DEF Reads
    <3>2. /\ inbuf = "none" /\ inbuf' = Accesses[next]
          /\ UNCHANGED <<cb, command, config, replies, outbuf, reporting>>
      BY <2>1, <2>4 DEF access, ready, write
    <3>. QED
      BY <2>1, <3>1, <3>2, AccessesAre DEF Exchange, Controller
  <2>. QED
    BY <2>3, <2>4
<1>. QED
  BY <1>1, <1>2 DEF MouseInv

LEMMA TakeHolds == ASSUME MouseInv, take PROVE MouseInv'
<1>1. /\ stray' = stray /\ hasty' = hasty /\ reporting' \in BOOLEAN
      /\ next' = next /\ cb' = cb /\ outbuf' = outbuf
  BY DEF take, MouseInv
<1>2. ASSUME Exchange
      PROVE  Exchange'
  <2>1. inbuf # "none" /\ inbuf' = "none"
    BY DEF take
  <2>2. next \in {2, 3, 5, 6, 7, 8}
    BY <1>2, <2>1 DEF Exchange, Controller
  <2>3. CASE next = 2
    <3>1. Controller("enable_aux", "none", <<>>, {}) /\ config = Found
      BY <1>2, <2>1, <2>3 DEF Exchange, Controller
    <3>2. /\ config' = {} /\ command' = "none"
          /\ replies' = replies /\ reporting' = reporting
      BY <1>2, <2>3, <3>1 DEF take, Controller, Found, Exchange
    <3>. QED
      BY <1>1, <1>2, <2>1, <2>3, <3>1, <3>2 DEF Exchange, Controller
  <2>4. CASE next = 3
    <3>1. Controller("read_config", "none", <<>>, {}) /\ config = {}
      BY <1>2, <2>1, <2>4 DEF Exchange, Controller
    <3>2. /\ config' = {} /\ command' = "none"
          /\ replies' = <<{}>> /\ reporting' = reporting
      BY <1>2, <2>4, <3>1 DEF take, Controller, Exchange
    <3>. QED
      BY <1>1, <1>2, <2>1, <2>4, <3>1, <3>2 DEF Exchange, Controller
  <2>5. CASE next = 5
    <3>1. Controller("write_config", "none", <<>>, {})
      BY <1>2, <2>1, <2>5 DEF Exchange, Controller
    <3>2. /\ config' = config /\ command' = "write_config"
          /\ replies' = replies /\ reporting' = reporting
      BY <1>2, <2>5, <3>1 DEF take, Controller, Exchange
    <3>. QED
      BY <1>1, <1>2, <2>1, <2>5, <3>1, <3>2 DEF Exchange, Controller
  <2>6. CASE next = 6
    <3>1. Controller("out_cb", "write_config", <<>>, {}) /\ cb = {}
      BY <1>2, <2>1, <2>6 DEF Exchange, Controller
    <3>2. /\ config' = {} /\ command' = "none"
          /\ replies' = replies /\ reporting' = reporting
      BY <1>2, <2>6, <3>1 DEF take, Controller, Exchange
    <3>. QED
      BY <1>1, <1>2, <2>1, <2>6, <3>1, <3>2 DEF Exchange, Controller
  <2>7. CASE next = 7
    <3>1. Controller("to_mouse", "none", <<>>, {})
      BY <1>2, <2>1, <2>7 DEF Exchange, Controller
    <3>2. /\ config' = config /\ command' = "to_mouse"
          /\ replies' = replies /\ reporting' = reporting
      BY <1>2, <2>7, <3>1 DEF take, Controller, Exchange
    <3>. QED
      BY <1>1, <1>2, <2>1, <2>7, <3>1, <3>2 DEF Exchange, Controller
  <2>8. CASE next = 8
    <3>1. Controller("report", "to_mouse", <<>>, {})
      BY <1>2, <2>1, <2>8 DEF Exchange, Controller
    <3>2. /\ config' = config /\ command' = "none"
          /\ replies' = <<ACK>> /\ reporting' = TRUE
      BY <1>2, <2>8, <3>1 DEF take, Controller, Exchange
    <3>. QED
      BY <1>1, <1>2, <2>1, <2>8, <3>1, <3>2 DEF Exchange, Controller
  <2>. QED
    BY <2>2, <2>3, <2>4, <2>5, <2>6, <2>7, <2>8
<1>. QED
  BY <1>1, <1>2 DEF MouseInv

LEMMA OfferHolds == ASSUME MouseInv, offer PROVE MouseInv'
<1>1. /\ UNCHANGED <<next, cb, inbuf, command, config, reporting, stray,
                     hasty>>
      /\ outbuf = {} /\ replies # <<>>
      /\ outbuf' = {Head(replies)} /\ replies' = Tail(replies)
  BY DEF offer
<1>2. ASSUME Exchange
      PROVE  Exchange'
  <2>1. next \in {3, 8}
    BY <1>1, <1>2 DEF Exchange, Controller
  <2>2. CASE next = 3
    <3>1. replies = <<{}>>
      BY <1>1, <1>2, <2>2 DEF Exchange, Controller
    <3>2. replies' = <<>> /\ outbuf' = {{}}
      BY <1>1, <3>1
    <3>3. /\ inbuf' = "none" /\ command' = "none" /\ next' = 3
          /\ cb' = Found /\ config' = {} /\ ~ reporting'
      BY <1>1, <1>2, <2>2, <3>1 DEF Exchange, Controller
    <3>. QED
      BY <3>2, <3>3 DEF Exchange, Controller
  <2>3. CASE next = 8
    <3>1. replies = <<ACK>> /\ reporting
      BY <1>1, <1>2, <2>3 DEF Exchange, Controller
    <3>2. replies' = <<>> /\ outbuf' = {ACK}
      BY <1>1, <3>1
    <3>. QED
      BY <1>1, <1>2, <2>3, <3>1, <3>2 DEF Exchange, Controller
  <2>. QED
    BY <2>1, <2>2, <2>3
<1>. QED
  BY <1>1, <1>2 DEF MouseInv

LEMMA KeyHolds == ASSUME MouseInv, NEW b \in Bytes, key(b) PROVE MouseInv'
<1>1. stray' \in Nat /\ stray' # 0 /\ UNCHANGED <<reporting, hasty>>
  BY DEF key, MouseInv
<1>. QED
  BY <1>1 DEF MouseInv
-----------------------------------------------------------------------------
(***************************************************************************)
(* The whole way.                                                          *)
(***************************************************************************)
BootInv == WalkInv /\ ScanInv /\ MouseInv

LEMMA BootInitHolds == ASSUME BootInit PROVE BootInv
<1>1. WalkInv
  BY DEF BootInit, WalkInv, FindsFramebuffer
<1>2. ScanInv
  <2>1. BUSES \in Nat \ {0} /\ DEVS \in Nat \ {0} /\ FUNCS \in Nat \ {0}
        /\ PCI_MAX_DEVS \in Nat
    BY BootAssumption
  <2>2. place \in Cursors /\ place[3] = 0
    BY <2>1 DEF BootInit, Cursors
  <2>3. \A p \in Places : ~ Precedes(p, place)
    BY <2>1 DEF BootInit, Places, Precedes
  <2>4. pci_devs \in Seq(Places) /\ Len(pci_devs) = 0
    BY DEF BootInit
  <2>. QED
    BY <2>1, <2>2, <2>3, <2>4 DEF BootInit, ScanInv, ListsFunctions
<1>3. MouseInv
  <2>1. /\ next = 1 /\ cb = Found /\ config = Found /\ ~ reporting
        /\ Controller("none", "none", <<>>, {})
    BY DEF BootInit, Ps2Init, Controller
  <2>2. Exchange
    BY <2>1 DEF Exchange
  <2>. QED
    BY <2>2 DEF BootInit, Ps2Init, MouseInv
<1>. QED
  BY <1>1, <1>2, <1>3 DEF BootInv

LEMMA MouseRests == ASSUME MouseInv, UNCHANGED ps2 PROVE MouseInv'
BY DEF MouseInv, ps2, i8042, Exchange, Controller

(* A stage of kernel_main that is neither walk nor scan                    *)
LEMMA StageHolds ==
  ASSUME BootInv, NEW here, NEW there, NEW n, Stage(here, there, n),
         UNCHANGED <<walk, pci>>,
         pc' = pc \/ (Moves /\ pc \notin {"tags", "pci"})
  PROVE  BootInv'
<1>1. UNCHANGED <<start, tag, found, place, pci_devs, ps2>>
  BY DEF Stage, walk, pci
<1>2. WalkInv' /\ ScanInv' /\ MouseInv'
  BY <1>1, WalkRests, ScanRests, MouseRests DEF BootInv
<1>. QED
  BY <1>2 DEF BootInv

(* A step at a stage of kernel_main                                        *)
LEMMA InStageHolds ==
  ASSUME BootInv, UNCHANGED <<pc, start, walk, pci>>, MouseInv'
  PROVE  BootInv'
<1>1. WalkInv' /\ ScanInv'
  BY WalkStays, ScanStays DEF BootInv, walk, pci
<1>. QED
  BY <1>1 DEF BootInv

LEMMA KernelHolds == ASSUME BootInv, kernel_main PROVE BootInv'
<1>1. CASE enter
  BY <1>1, StageHolds DEF enter, Stage, Moves
<1>2. CASE check_magic
  BY <1>2, StageHolds DEF check_magic, Stage, Moves
<1>3. CASE walk_tag
  <2>1. /\ pc = "tags" /\ pc' \in {"tags", "screen"}
        /\ UNCHANGED <<start, place, pci_devs>> /\ UNCHANGED ps2
    BY <1>3 DEF walk_tag, Stage, pci
  <2>2. ScanInv'
    BY <2>1, ScanRests DEF BootInv, Moves
  <2>. QED
    BY <1>3, <2>1, <2>2, WalkHolds, MouseRests DEF BootInv
<1>4. CASE choose_screen
  BY <1>4, StageHolds DEF choose_screen, Stage, Moves
<1>5. ASSUME scan \/ scanned
      PROVE  BootInv'
  <2>1. /\ pc = "pci" /\ pc' \in {"pci", "timer"}
        /\ UNCHANGED <<start, tag, found>> /\ UNCHANGED ps2
    BY <1>5 DEF scan, scanned, Stage, walk
  <2>2. WalkInv'
    BY <2>1, WalkRests DEF BootInv, Moves
  <2>. QED
    BY <1>5, <2>1, <2>2, ScanHolds, ScannedHolds, MouseRests
    DEF BootInv
<1>6. CASE start_timer
  BY <1>6, StageHolds DEF start_timer, Stage, Moves
<1>7. CASE greet_mouse
  <2>1. MouseInv'
    BY <1>7, WaitHolds, AccessHolds DEF BootInv, greet_mouse, mouse_init
  <2>. QED
    BY <1>7, <2>1, InStageHolds DEF greet_mouse
<1>8. CASE start_shell
  BY <1>8, StageHolds DEF start_shell, Stage, Moves
<1>. QED
  BY <1>1, <1>2, <1>3, <1>4, <1>5, <1>6, <1>7, <1>8 DEF kernel_main

LEMMA BootStepHolds ==
  ASSUME BootInv, [BootNext]_boot_vars
  PROVE  BootInv'
<1>1. CASE kernel_main
  BY <1>1, KernelHolds
<1>2. CASE echo
  BY <1>2, StageHolds DEF echo, Stage
<1>3. ASSUME poll \/ tick
      PROVE  BootInv'
  BY <1>3, MouseRests, InStageHolds DEF BootInv, poll, tick
<1>4. ASSUME print \/ send
      PROVE  BootInv'
  BY <1>4, MouseRests, InStageHolds
  DEF BootInv, print, send
<1>5. CASE answer
  <2>1. MouseInv'
    BY <1>5, TakeHolds, OfferHolds, KeyHolds DEF BootInv, answer, controller
  <2>. QED
    BY <1>5, <2>1, InStageHolds DEF BootInv, answer
<1>6. ASSUME halt \/ UNCHANGED boot_vars
      PROVE  BootInv'
  BY <1>6, MouseRests, InStageHolds DEF BootInv, halt, boot_vars
<1>. QED
  BY <1>1, <1>2, <1>3, <1>4, <1>5, <1>6 DEF BootNext

THEOREM BootInvariance == BootSpec => []BootInv
BY BootInitHolds, BootStepHolds, PTL DEF BootSpec

(* The walk over the tags GRUB left ends with the framebuffer that is the  *)
(* first among them: for all tags that follow each other as Multiboot says.*)
THEOREM FramebufferIsFound == BootSpec => []FindsFramebuffer
<1>1. BootInv => FindsFramebuffer
  BY DEF BootInv, WalkInv
<1>. QED
  BY <1>1, BootInvariance, PTL

(* pci_init lists the functions of every bus, in order and up to the size  *)
(* of its table.                                                           *)
THEOREM FunctionsAreListed == BootSpec => []ListsFunctions
<1>1. BootInv => ListsFunctions
  BY DEF BootInv, ScanInv
<1>. QED
  BY <1>1, BootInvariance, PTL

(* mouse_init leaves keyboard and mouse on, and no byte behind, however    *)
(* long it is ready to wait.                                               *)
THEOREM MouseIsReady == BootSpec => []MouseReady
<1>1. BootInv => MouseReady
  BY MouseReadyFollows DEF BootInv
<1>. QED
  BY <1>1, BootInvariance, PTL

(* From boot on, and whatever is printed between two polls, the timer runs *)
(* as Timer has it.                                                        *)
THEOREM BootRunsTimer == BootSpec => Spec
<1>1. BootInit => Init
  BY DEF BootInit
<1>2. [BootNext]_boot_vars => [Next]_vars
  <2>1. ASSUME kernel_main \/ halt \/ echo \/ print \/ send \/ answer
               \/ UNCHANGED boot_vars
        PROVE  UNCHANGED vars
    BY <2>1
    DEF kernel_main, enter, check_magic, walk_tag, choose_screen, scan,
        scanned, start_timer, greet_mouse, start_shell, halt, echo, print,
        send, answer, Stage, boot_vars
  <2>2. ASSUME poll \/ tick
        PROVE  Next
    BY <2>2 DEF poll, tick, Next
  <2>. QED
    BY <2>1, <2>2 DEF BootNext
<1>. QED
  BY <1>1, <1>2, PTL DEF BootSpec, Spec

(* So no tick is invented between boot and the shell, nor in its loop.     *)
THEOREM BootInventsNoTick == BootSpec => []NoTickInvented
BY BootRunsTimer, TicksAreReloads, PTL
=============================================================================
