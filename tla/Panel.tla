-------------------------------- MODULE Panel --------------------------------
(***************************************************************************)
(* The panel of nodes in the right half of the screen and the mouse that   *)
(* selects one: where kernel/fb.c draws the 49 squares and which of them   *)
(* it takes a click for, how kernel/mouse.c moves the pointer, and what    *)
(* the loop of kernel/shell.c makes of a click.  Lengths are in pixels.    *)
(***************************************************************************)
EXTENDS Integers

CONSTANTS
  SIZES,         (* <<width, height>> of the screens GRUB may have set up  *)
  MOVES          (* bound: how far the mouse moves between two packets, to *)
                 (* the right or up, left or down when negative            *)

(* On a smaller screen a square is wider than its share of the panel.      *)
ASSUME PanelAssumption ==
  /\ SIZES \subseteq (Nat \X Nat)
  /\ \A s \in SIZES : s[1] >= 142 /\ s[2] >= 102
  /\ MOVES \subseteq Int

VARIABLES
  fb_w_px, fb_h_px,
  mouse_x, mouse_y,
  mouse_buttons, prev_buttons,   (* the left button                        *)
  selected_node,                 (* -1 for none                            *)
  released_on                    (* history: the node the pointer was on   *)
                                 (* when the button was let go, if any     *)

size    == <<fb_w_px, fb_h_px>>
pointer == <<mouse_x, mouse_y>>
vars    == <<size, pointer, mouse_buttons, prev_buttons, selected_node,
             released_on>>

Nodes == 0..48

TypeOK ==
  /\ size \in SIZES
  /\ mouse_x \in 0..fb_w_px - 1 /\ mouse_y \in 0..fb_h_px - 1
  /\ mouse_buttons \in BOOLEAN /\ prev_buttons \in BOOLEAN
  /\ selected_node \in Nodes \cup {-1}
  /\ released_on \subseteq Nodes

(* mouse_set_bounds, with the size of the framebuffer                      *)
Init ==
  /\ \E s \in SIZES : fb_w_px = s[1] /\ fb_h_px = s[2]
  /\ mouse_x = fb_w_px \div 2 /\ mouse_y = fb_h_px \div 2
  /\ mouse_buttons = FALSE /\ prev_buttons = FALSE
  /\ selected_node = -1 /\ released_on = {}

-----------------------------------------------------------------------------
(***************************************************************************)
(* Where the squares are drawn.                                            *)
(***************************************************************************)
fb_split_x == fb_w_px \div 2
panel_w    == fb_w_px - fb_split_x - 1
panel_h    == fb_h_px - 32

Smaller(a, b) == IF a < b THEN a ELSE b
Larger(a, b)  == IF a < b THEN b ELSE a

(* Mutant of cell: the gaps between the squares are forgotten.             *)
cell_tight == Larger(8, Smaller(panel_w, panel_h) \div 7)

cell == Larger(8, (Smaller(panel_w, panel_h) - 14) \div 7)
step == cell + 2

off_x == fb_split_x + 1 + ((panel_w - 7 * step + 2) \div 2)
off_y == 16 + ((panel_h - 7 * step + 2) \div 2)

(* Row r and column c, from 0 to 6, hold node 7 * r + c.                   *)
NX(c) == off_x + c * step
NY(r) == off_y + r * step

(* A square that does not fit on the screen is not drawn.                  *)
Drawn(r, c) ==
  /\ NX(c) >= 0 /\ NX(c) + cell <= fb_w_px
  /\ NY(r) >= 0 /\ NY(r) + cell <= fb_h_px

(* The row in which the box begins that shows the details of the node that *)
(* is selected; it reaches down to the taskbar.                            *)
detail_y == fb_h_px - 64

Within(v, first) == v \in first .. first + cell - 1

InSquare(r, c, x, y) == Within(x, NX(c)) /\ Within(y, NY(r))

(* The node on whose square a place is                                     *)
NodesAt(x, y) ==
  {7 * r + c : r \in {s \in 0..6 : Within(y, NY(s))},
               c \in {d \in 0..6 : Within(x, NX(d))}}

(***************************************************************************)
(* Where they are taken to be by a click.  fb_node_hit_test computes the   *)
(* places a second time.                                                   *)
(***************************************************************************)
hit_panel_w == fb_w_px - fb_split_x - 1
hit_panel_h == fb_h_px - 32

(* Mutant of hit_cell: the margin of the panel is forgotten in one of the  *)
(* two places.                                                             *)
hit_cell_tight == Larger(8, Smaller(hit_panel_w, hit_panel_h) \div 7)

hit_cell == Larger(8, (Smaller(hit_panel_w, hit_panel_h) - 14) \div 7)
hit_step == hit_cell + 2

hit_off_x == fb_split_x + 1 + ((hit_panel_w - 7 * hit_step + 2) \div 2)
hit_off_y == 16 + ((hit_panel_h - 7 * hit_step + 2) \div 2)

Hit(v, first) == v >= first /\ v < first + hit_cell

(* The nodes the test would take the click for.  It returns the first, or  *)
(* -1 when there is none.                                                  *)
fb_node_hit_test(x, y) ==
  IF x <= fb_split_x \/ x >= fb_w_px \/ y < 16 \/ y >= fb_h_px - 16
  THEN {}
  ELSE {7 * r + c : r \in {s \in 0..6 : Hit(y, hit_off_y + s * hit_step)},
                    c \in {d \in 0..6 : Hit(x, hit_off_x + d * hit_step)}}

-----------------------------------------------------------------------------
(***************************************************************************)
(* The mouse.                                                              *)
(***************************************************************************)
(* A byte of a packet read as (signed char)                                *)
signed(b) == IF b < 128 THEN b ELSE b - 256

clamp(v, bound) == IF v < 0 THEN 0 ELSE IF v >= bound THEN bound - 1 ELSE v

(* mouse_poll handles one packet.  The mouse sends the low eight bits of   *)
(* how far it moved; upwards is positive.                                  *)
mouse_poll(right, up, left_button) ==
  /\ mouse_x' = clamp(mouse_x + signed(right % 256), fb_w_px)
  /\ mouse_y' = clamp(mouse_y - signed(up % 256), fb_h_px)
  /\ mouse_buttons' = left_button
  /\ released_on' = IF mouse_buttons /\ ~ left_button
                    THEN NodesAt(mouse_x', mouse_y') ELSE released_on
  /\ UNCHANGED <<size, prev_buttons, selected_node>>

Released == prev_buttons /\ ~ mouse_buttons

(* The loop looks for a click after mouse_poll has handled as many packets *)
(* as there were.                                                          *)
look_for_click ==
  /\ LET hits == fb_node_hit_test(mouse_x, mouse_y)
         hit  == CHOOSE n \in hits : \A o \in hits : n <= o
     IN  selected_node' =
           IF ~ Released \/ hits = {} THEN selected_node
           ELSE IF hit = selected_node THEN -1 ELSE hit
  /\ prev_buttons' = mouse_buttons /\ released_on' = {}
  /\ UNCHANGED <<size, pointer, mouse_buttons>>

Next ==
  \/ \E right, up \in MOVES, left_button \in BOOLEAN :
       mouse_poll(right, up, left_button)
  \/ look_for_click

Spec == Init /\ [][Next]_vars

-----------------------------------------------------------------------------
(***************************************************************************)
(* Properties.                                                             *)
(***************************************************************************)
(* All squares are drawn, side by side without touching, and keep clear of *)
(* the terminal, the header and the taskbar.                               *)
SquaresApart ==
  \A i \in 0..6 :
    /\ Drawn(i, i)
    /\ NX(i) > fb_split_x /\ NY(i) >= 16 /\ NY(i) + cell <= fb_h_px - 16
    /\ i < 6 => /\ NX(i) + cell < NX(i + 1)
                /\ NY(i) + cell < NY(i + 1)

(* The box with the details of a node is drawn over the lower end of the   *)
(* panel after the squares are.  It leaves them alone where the panel is   *)
(* higher than wide by the height of the box and the margins: on screens   *)
(* of four to three from 500 by 375 on, and not on wide ones.              *)
DetailApart ==
  panel_h >= panel_w + 94 => \A r \in 0..6 : NY(r) + cell <= detail_y

(* Drawing and clicking, which compute them apart, agree on where the      *)
(* nodes are: when the loop sees a release it selects the node on whose    *)
(* drawn square the pointer is as it looks, or drops it if it was selected,*)
(* and nothing else changes the selection.  (Where the pointer was at the  *)
(* release itself is another matter: SelectsWhereReleased.)                *)
ClickStep ==
  IF look_for_click /\ Released
  THEN \/ \E r, c \in 0..6 :
            /\ Drawn(r, c) /\ InSquare(r, c, mouse_x, mouse_y)
            /\ selected_node' =
                 IF selected_node = 7 * r + c THEN -1 ELSE 7 * r + c
       \/ /\ \A r, c \in 0..6 : ~ InSquare(r, c, mouse_x, mouse_y)
          /\ selected_node' = selected_node
  ELSE selected_node' = selected_node

ClickSelectsSquare == [][ClickStep]_vars

-----------------------------------------------------------------------------
(* "click a node", says the box: a node that a click selects is to be seen.*)
DetailNeverCovers == \A r \in 0..6 : NY(r) + cell <= detail_y

(* "left click release = select node": the node on which the button was    *)
(* let go.                                                                 *)
SelectsWhereReleased ==
  [][selected_node' # selected_node =>
       \E n \in released_on : selected_node' \in {n, -1}]_vars

(* "PS/2 Y positive = up": the pointer never goes down when the mouse goes *)
(* up.                                                                     *)
PointerFollowsMouse ==
  [][\A right, up \in MOVES, left_button \in BOOLEAN :
       mouse_poll(right, up, left_button) /\ up > 0 => mouse_y' <= mouse_y]_vars
=============================================================================
